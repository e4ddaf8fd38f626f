---------------------------- MODULE SampleDecrypt ----------------------------
(***************************************************************************)
(* One decryption of GStreamer buffers: the five functions of the adapters  *)
(* that a call of the pipeline ends in.                                    *)
(*   once       opencdm_gstreamer_session_decrypt_once           (adapter/rdk) *)
(*   buffer     opencdm_gstreamer_session_decrypt_buffer_once             *)
(*   multi      opencdm_gstreamer_session_decrypt_buffer_multi_once        *)
(*   gstOnce    opencdm_gstreamer_session_decrypt      (adapter/gstreamer)  *)
(*   gstBuffer  opencdm_gstreamer_session_decrypt_buffer                   *)
(* Each maps the memory of the frame and of what its metadata refers to,    *)
(* collects what is to be decrypted in one block, gives the block to the    *)
(* CDM, puts the result back and unmaps everything.  "multi" takes several  *)
(* frames.  In adapter/rdk the decrypted block goes to the decoder through   *)
(* the secure video path (SVP, external), which also wants to see the clear  *)
(* frames, and must know where the stream may be decrypted to.             *)
(*                                                                         *)
(* A frame is described by what the functions find: the number of bytes, if *)
(* it has protection metadata, the key and the subsample map, and of each    *)
(* buffer if it is "ok", a value that holds a null pointer ("null"), not     *)
(* there at all ("missing") or one that cannot be mapped ("unmappable").    *)
(* A map that goes beyond the frame is not given to once and gstOnce, which *)
(* would read there.  The others look for the subsamples only if the         *)
(* metadata counts some: for them a frame without has "null" there.          *)
(***************************************************************************)
EXTENDS SubsampleMap, FiniteSets

CONSTANTS
  Frames,    \* what a frame of a call may be like
  MaxFrames, \* a call of "multi" has at most so many
  MaxCount,  \* the largest number of entries a SampleInfo holds, a uint8_t
  None

Buffers == {"data", "subs", "iv", "kid"}

ASSUME SampleAssumption ==
  /\ MaxFrames \in Nat \ {0} /\ MaxCount \in Nat \ {0}
  /\ \A b \in Frames : /\ b.size \in Nat /\ b.map \in Seq(Entries)
                       /\ b.meta \in BOOLEAN /\ b.short \in BOOLEAN
                       /\ \A part \in Buffers : b[part] \in {"ok", "null", "missing", "unmappable"}

Paths == {"once", "buffer", "multi", "gstOnce", "gstBuffer"}
OneBlock == {"once", "gstOnce"}     \* collect the encrypted bytes alone
Rdk == {"once", "buffer", "multi"}
Parts == Buffers \cup {"meta"}

VARIABLES
  pc,       \* how far the call is
  path,     \* which function it is
  frames,   \* the frames it was given
  caps,     \* of the stream: "none" if there are none, "host" if it may be
            \* decrypted to memory of the host, "secure" if not
  todo,     \* what is still to be mapped
  mapped,   \* what is mapped now
  plan,     \* what is to be done with each frame
  block,    \* the block of data
  content,  \* the bytes of each frame
  handed,   \* how often each frame was handed to SVP
  revoked,  \* SVP took its memory back: nothing was decrypted
  result,
  told,     \* _decryptToHost of the session, None if it is not set
  svp,      \* what SVP was told
  missed    \* SVP refused the last value it was told

vars == <<pc, path, frames, caps, todo, mapped, plan, block, content, handed,
          revoked, result, told, svp, missed>>

session == <<told, svp, missed>>
input == <<path, frames, caps>>

Bytewise(b) == [p \in 1..b.size |-> p]

Init ==
  /\ pc = "idle" /\ path = "once" /\ frames = <<>> /\ caps = "none"
  /\ todo = <<>> /\ mapped = {} /\ plan = <<>> /\ block = <<>>
  /\ content = <<>> /\ handed = <<>>
  /\ revoked = FALSE /\ result = "NONE"
  /\ told = None /\ svp = None /\ missed = FALSE

-----------------------------------------------------------------------------
(* Mapping *)

\* No subsamples, no IV, no key: the frame is clear.
Clear(b) == b.subs = "null" /\ b.iv = "null" /\ b.kid = "null"

\* What each function maps, in its order.
OnceParts(b) == IF Clear(b) THEN <<"data">> ELSE <<"data", "iv", "kid", "subs">>
GstOnceParts(b) == IF Clear(b) THEN <<>> ELSE <<"data", "iv", "kid", "subs">>
BufferParts == <<"data", "meta", "subs", "iv", "kid">>
MultiParts(b) == IF b.meta THEN <<"subs", "iv", "data", "kid">> ELSE <<>>

ToMap(p, fs) ==
  FlattenSeq([i \in DOMAIN fs |->
    LET parts == CASE p = "once" -> OnceParts(fs[i])
                   [] p = "gstOnce" -> GstOnceParts(fs[i])
                   [] p = "multi" -> MultiParts(fs[i])
                   [] OTHER -> BufferParts
    IN  [k \in DOMAIN parts |-> <<i, parts[k]>>]])

\* A null pointer in the place of a part is refused or passed over.
NullIsFine(p, part, b) ==
  CASE part = "subs" -> p # "multi" \/ b.map = <<>>
    [] part = "iv" -> p = "buffer"
    [] part = "kid" -> p \in {"buffer", "gstOnce", "gstBuffer"}
    [] OTHER -> FALSE

Refused(p, part, b) ==
  IF part = "meta" THEN ~b.meta
  ELSE \/ b[part] \in {"missing", "unmappable"}
       \/ b[part] = "null" /\ ~NullIsFine(p, part, b)
       \/ p = "multi" /\ part = "subs" /\ Len(b.map) > MaxCount

Call(p, fs, c) ==
  /\ pc = "idle"
  /\ p # "multi" => Len(fs) = 1
  /\ IF p \in OneBlock THEN fs[1].map = <<>> \/ Bytes(fs[1].map) <= fs[1].size
     ELSE \A i \in 1..Len(fs) : fs[i].map = <<>> => fs[i].subs = "null"
  /\ pc' = "map"
  /\ path' = p /\ frames' = fs /\ caps' = c
  /\ todo' = ToMap(p, fs)
  /\ content' = [i \in DOMAIN fs |-> Bytewise(fs[i])]
  /\ handed' = [i \in DOMAIN fs |-> 0]
  /\ UNCHANGED <<mapped, plan, block, revoked, result, session>>

\* What each function unmaps before it returns because a part cannot be mapped.
\* Without metadata "buffer" and "gstBuffer" unmap nothing.
OnceUnmaps == [data |-> {}, iv |-> {"data"}, kid |-> {"data", "iv"}, subs |-> {"kid", "iv", "data"}]

GstOnceUnmaps == [data |-> {}, iv |-> {"data"}, kid |-> {"data", "iv"}, subs |-> {"kid", "iv", "data"}]

\* Mutant: a missing IV is found with the subsamples already mapped.
BufferUnmaps_NotSubs ==
  [data |-> {}, meta |-> {}, subs |-> {"data"}, iv |-> {"data"}, kid |-> {"data", "subs", "iv"}]

BufferUnmaps ==
  [data |-> {}, meta |-> {}, subs |-> {"data"}, iv |-> {"data", "subs"}, kid |-> {"data", "subs", "iv"}]

GstBufferUnmaps ==
  [data |-> {}, meta |-> {}, subs |-> {"data"}, iv |-> {"data", "subs"}, kid |-> {"data", "subs", "iv"}]

Unmaps(p) == CASE p = "once" -> OnceUnmaps
               [] p = "gstOnce" -> GstOnceUnmaps
               [] p = "buffer" -> BufferUnmaps
               [] p = "gstBuffer" -> GstBufferUnmaps

\* The parts of frame i that are in the set are unmapped.
Without(i, parts) == mapped \ ({i} \X parts)

\* The next part.  One that cannot be mapped ends the call; "multi" goes to the end
\* of the function, where it unmaps, the others return from where they are.
MapPart ==
  /\ pc = "map" /\ todo # <<>>
  /\ LET part == Head(todo)
         b == frames[part[1]]
     IN  IF Refused(path, part[2], b)
         THEN /\ result' = "INVALID_DECRYPT_BUFFER"
              /\ IF path = "multi" THEN pc' = "unmap" /\ UNCHANGED mapped
                 ELSE pc' = "returned" /\ mapped' = Without(part[1], Unmaps(path)[part[2]])
         ELSE /\ mapped' = IF part[2] # "meta" /\ b[part[2]] = "ok"
                           THEN mapped \cup {part} ELSE mapped
              /\ UNCHANGED <<pc, result>>
  /\ todo' = Tail(todo)
  /\ UNCHANGED <<input, plan, block, content, handed, revoked, session>>

AllMapped ==
  /\ pc = "map" /\ todo = <<>>
  /\ pc' = IF path = "buffer" THEN "tell" ELSE "prepare"
  /\ UNCHANGED <<input, todo, mapped, plan, block, content, handed, revoked, result, session>>

-----------------------------------------------------------------------------
(* Telling SVP where the stream may be decrypted to *)

\* IsSecureMemoryDisabled of the caps.  "buffer" asks the parser even if it was
\* given no caps to parse: it answers with a member nothing has written.
DecryptToHost == CASE caps = "host" -> {TRUE}
                   [] caps = "none" /\ path = "buffer" -> BOOLEAN
                   [] OTHER -> {FALSE}

\* Mutant: once told, the session does not look again.
Tell_Once ==
  /\ pc = "tell"
  /\ \E toHost \in DecryptToHost, accepted \in BOOLEAN :
       IF told # None THEN UNCHANGED session
       ELSE /\ told' = toHost
            /\ svp' = IF accepted THEN toHost ELSE svp
            /\ missed' = ~accepted
  /\ pc' = IF path = "buffer" THEN "prepare" ELSE "decrypt"
  /\ UNCHANGED <<input, todo, mapped, plan, block, content, handed, revoked, result>>

\* The session remembers what it was to tell before SVP has taken it.
Tell ==
  /\ pc = "tell"
  /\ \E toHost \in DecryptToHost, accepted \in BOOLEAN :
       IF told = toHost THEN UNCHANGED session
       ELSE /\ told' = toHost
            /\ svp' = IF accepted THEN toHost ELSE svp
            /\ missed' = ~accepted
  /\ pc' = IF path = "buffer" THEN "prepare" ELSE "decrypt"
  /\ UNCHANGED <<input, todo, mapped, plan, block, content, handed, revoked, result>>

-----------------------------------------------------------------------------
(* What to do with a frame: "decrypt" with a map, hand it over as "clear",   *)
(* "leave" it alone or "refuse" the call.                                   *)

Decrypted(map) == [do |-> "decrypt", map |-> map]
Whole(b) == Decrypted(<<[clear |-> 0, encrypted |-> b.size]>>)
No(what) == [do |-> what, map |-> <<>>]

OncePlan(b) ==
  IF Clear(b) THEN No("clear")
  ELSE IF b.subs # "ok" THEN Whole(b)
  ELSE IF EncryptedBytes(b.map) % Word > 0 THEN Decrypted(b.map) ELSE No("clear")

GstOncePlan(b) ==
  IF Clear(b) THEN No("leave")
  ELSE IF b.subs = "ok" THEN Decrypted(b.map) ELSE Whole(b)

\* A SampleInfo holds the length of the map in a uint8_t: the CDM is given so many
\* entries, and takes none for a frame that is encrypted as a whole.
Counted(map, b) ==
  LET count == Len(map) % (MaxCount + 1)
  IN  IF count = 0 THEN Whole(b) ELSE Decrypted(SubSeq(map, 1, count))

\* The map is fitted to the frame.
BufferPlan(b) ==
  IF Clear(b) THEN No("clear")
  ELSE IF b.subs # "ok" THEN IF b.size > 0 THEN Whole(b) ELSE No("clear")
  ELSE IF ~Fits(b.map, b.size) THEN No("refuse")
  ELSE IF EncryptedBytes(b.map) % Word = 0 THEN No("clear")
  ELSE Counted(Fitted(b.map, b.size), b)

\* The map is given to the CDM as it came.
GstBufferPlan(b) == IF b.subs = "ok" THEN Counted(b.map, b) ELSE Whole(b)

\* All frames to decrypt have the key (and the scheme and pattern) of the first.
MultiPlan(b, key) ==
  LET map == IF b.subs = "ok" THEN Extend(b.map, b.size) ELSE Whole(b).map
  IN  IF ~b.meta THEN No("clear")
      ELSE IF b.subs = "ok" /\ b.short THEN No("refuse")
      ELSE IF b.size = 0 \/ (b.subs = "ok" /\ \A k \in DOMAIN b.map : b.map[k].encrypted = 0)
        THEN No("clear")
      ELSE IF b.subs = "ok" /\ ~FitsMulti(b.map, b.size) THEN No("refuse")
      ELSE IF key \notin {None, b.key} \/ Len(map) > MaxCount THEN No("refuse")
      ELSE Decrypted(map)

ToDecrypt(plans) == {i \in DOMAIN plans : plans[i].do = "decrypt"}

\* The key of the first frame that is to be decrypted.
Key == IF ToDecrypt(plan) = {} THEN None
       ELSE frames[CHOOSE i \in ToDecrypt(plan) : \A j \in ToDecrypt(plan) : i <= j].key

PlanFor(b) == CASE path = "once" -> OncePlan(b)
                [] path = "gstOnce" -> GstOncePlan(b)
                [] path = "buffer" -> BufferPlan(b)
                [] path = "gstBuffer" -> GstBufferPlan(b)
                [] path = "multi" -> MultiPlan(b, Key)

\* What "buffer" unmaps when the map is not one of the frame's.
MisfitUnmaps == {"data", "subs", "iv", "kid"}

\* The next frame.  After a refusal "multi" still tells SVP, "buffer" returns.
Prepare ==
  /\ pc = "prepare" /\ Len(plan) < Len(frames)
  /\ LET next == PlanFor(frames[Len(plan) + 1])
     IN  /\ plan' = Append(plan, next)
         /\ IF next.do = "refuse"
            THEN /\ result' = "INVALID_DECRYPT_BUFFER"
                 /\ IF path = "multi" THEN pc' = "tell" /\ UNCHANGED mapped
                    ELSE pc' = "returned" /\ mapped' = Without(1, MisfitUnmaps)
            ELSE UNCHANGED <<result, pc, mapped>>
  /\ UNCHANGED <<input, todo, block, content, handed, revoked, session>>

\* The data to decrypt of all frames, one after the other.
Collect(plans) ==
  FlattenSeq([i \in DOMAIN plans |->
    IF plans[i].do # "decrypt" THEN <<>>
    ELSE IF path \in OneBlock THEN Gather(content[i], plans[i].map)
    ELSE content[i]])

Prepared ==
  /\ pc = "prepare" /\ Len(plan) = Len(frames)
  /\ block' = Collect(plan)
  /\ pc' = IF path = "multi" THEN "tell" ELSE "decrypt"
  /\ UNCHANGED <<input, todo, mapped, plan, content, handed, revoked, result, session>>

-----------------------------------------------------------------------------
(* Decrypting *)

\* The CDM is given the maps of all frames in a row; of data that was collected
\* everything is encrypted.
ByCdm ==
  IF path \in OneBlock THEN [p \in DOMAIN block |-> -block[p]]
  ELSE Decrypt(block, FlattenSeq([i \in DOMAIN plan |-> plan[i].map]))

\* opencdm_session_decrypt, _v2 and _v3.  In adapter/rdk it is left out, without an
\* error, if SVP took back the memory it gave for the block; "multi" may get none.
DecryptBlock ==
  /\ pc = "decrypt" /\ result = "NONE" /\ ToDecrypt(plan) # {}
  /\ \/ block' = ByCdm /\ pc' = "putback" /\ UNCHANGED <<revoked, result>>
     \/ result' = "FAIL" /\ pc' = "unmap" /\ UNCHANGED <<revoked, block>>
     \/ /\ path \in {"buffer", "multi"} /\ caps = "secure"
        /\ revoked' = TRUE /\ pc' = "putback" /\ UNCHANGED <<block, result>>
     \/ /\ path = "multi" /\ result' = "OUT_OF_MEMORY" /\ pc' = "unmap"
        /\ UNCHANGED <<revoked, block>>
  /\ UNCHANGED <<input, todo, mapped, plan, content, handed, session>>

\* Where the data of frame i is in the block.
Share(i) ==
  LET ends == Sums([j \in DOMAIN plan |-> IF plan[j].do = "decrypt" THEN frames[j].size ELSE 0])
  IN  SubSeq(block, ends[i - 1] + 1, ends[i - 1] + frames[i].size)

\* The decrypted data goes back to its frame, in adapter/gstreamer by copying it and
\* in adapter/rdk through SVP.  "multi" asks SVP for all frames at once and is told
\* if that failed.
PutBack ==
  /\ pc = "putback"
  /\ \/ /\ content' = [i \in DOMAIN frames |->
                        IF plan[i].do # "decrypt" THEN content[i]
                        ELSE IF path \in OneBlock THEN Scatter(content[i], block, plan[i].map)
                        ELSE Share(i)]
        /\ handed' = [i \in DOMAIN frames |->
                       IF plan[i].do = "decrypt" /\ path \in Rdk THEN handed[i] + 1 ELSE handed[i]]
        /\ pc' = "clear"
        /\ UNCHANGED result
     \/ /\ path = "multi" /\ result' = "FAIL" /\ pc' = "unmap"
        /\ UNCHANGED <<content, handed>>
  /\ UNCHANGED <<input, todo, mapped, plan, block, revoked, session>>

\* Mutant: the clear frames are handed over although one was refused.
NothingToDecrypt_HandsOver ==
  /\ pc = "decrypt" /\ (result # "NONE" \/ ToDecrypt(plan) = {})
  /\ pc' = "clear"
  /\ UNCHANGED <<input, todo, mapped, plan, block, content, handed, revoked, result, session>>

\* All frames are clear, or the preparation has failed.
NothingToDecrypt ==
  /\ pc = "decrypt" /\ (result # "NONE" \/ ToDecrypt(plan) = {})
  /\ pc' = IF result = "NONE" THEN "clear" ELSE "unmap"
  /\ UNCHANGED <<input, todo, mapped, plan, block, content, handed, revoked, result, session>>

\* gst_buffer_svp_transform_from_cleardata for the frames that were not decrypted.
HandClear ==
  /\ pc = "clear"
  /\ handed' = [i \in DOMAIN frames |->
                 IF path \in Rdk /\ i \notin ToDecrypt(plan) THEN handed[i] + 1 ELSE handed[i]]
  /\ pc' = "unmap"
  /\ UNCHANGED <<input, todo, mapped, plan, block, content, revoked, result, session>>

\* What each function unmaps at its end, of a part that may be a null pointer only if
\* it is none; "multi" whatever it has mapped.
Present(b, parts) == {part \in parts : b[part] # "null"}

OnceEnd(b) == IF Clear(b) THEN {"data"} ELSE Present(b, {"subs", "kid"}) \cup {"iv", "data"}

GstOnceEnd(b) == IF Clear(b) THEN {} ELSE Present(b, {"subs", "kid"}) \cup {"iv", "data"}

BufferEnd(b) == IF Clear(b) THEN {"data"} ELSE {"data"} \cup Present(b, {"subs", "iv", "kid"})

GstBufferEnd(b) == {"data", "iv"} \cup Present(b, {"subs", "kid"})

MultiEnd(b) == Buffers

AtEnd(b) == CASE path = "once" -> OnceEnd(b)
              [] path = "gstOnce" -> GstOnceEnd(b)
              [] path = "buffer" -> BufferEnd(b)
              [] path = "gstBuffer" -> GstBufferEnd(b)
              [] path = "multi" -> MultiEnd(b)

Unmap ==
  /\ pc = "unmap"
  /\ mapped' = {m \in mapped : m[2] \notin AtEnd(frames[m[1]])}
  /\ pc' = "returned"
  /\ UNCHANGED <<input, todo, plan, block, content, handed, revoked, result, session>>

\* The pipeline goes on, whatever the call left mapped; the session remembers what
\* SVP was told.
Return ==
  /\ pc = "returned"
  /\ pc' = "idle" /\ path' = "once" /\ frames' = <<>> /\ caps' = "none"
  /\ todo' = <<>> /\ mapped' = {} /\ plan' = <<>> /\ block' = <<>>
  /\ content' = <<>> /\ handed' = <<>>
  /\ revoked' = FALSE /\ result' = "NONE"
  /\ UNCHANGED session

Next ==
  \/ \E p \in Paths, n \in 1..MaxFrames, c \in {"none", "host", "secure"} :
       \E fs \in [1..n -> Frames] : Call(p, fs, c)
  \/ MapPart \/ AllMapped \/ Tell \/ Prepare \/ Prepared
  \/ DecryptBlock \/ PutBack \/ NothingToDecrypt \/ HandClear \/ Unmap
  \/ Return

Spec == Init /\ [][Next]_vars

-----------------------------------------------------------------------------
(* Properties *)

\* Each frame keeps its number of bytes; nothing is mapped, planned or handed over
\* but the frames of the call; the rest are the values the variables are declared with.
TypeOK ==
  /\ pc \in {"idle", "map", "tell", "prepare", "decrypt", "putback", "clear", "unmap", "returned"}
  /\ path \in Paths /\ caps \in {"none", "host", "secure"}
  /\ frames \in Seq(Frames) /\ Len(frames) <= MaxFrames
  /\ todo \in Seq((DOMAIN frames) \X Parts)
  /\ mapped \subseteq (DOMAIN frames) \X Buffers
  /\ plan \in Seq([do : {"decrypt", "clear", "leave", "refuse"}, map : Seq(Entries)])
  /\ Len(plan) <= Len(frames)
  /\ block \in Seq(Int)
  /\ DOMAIN content = DOMAIN frames /\ DOMAIN handed = DOMAIN frames
  /\ \A i \in DOMAIN frames : content[i] \in [1..frames[i].size -> Int] /\ handed[i] \in Nat
  /\ revoked \in BOOLEAN
  /\ result \in {"NONE", "INVALID_DECRYPT_BUFFER", "FAIL", "OUT_OF_MEMORY"}
  /\ told \in BOOLEAN \cup {None} /\ svp \in BOOLEAN \cup {None} /\ missed \in BOOLEAN

\* A map the functions can use: its number of bytes is not cut off, nor its length by
\* those that store it in a uint8_t without a look ("multi" looks).
Usable(b) ==
  \/ b.subs # "ok"
  \/ /\ Bytes(b.map) < Word
     /\ path = "buffer" => Len(Fitted(b.map, b.size)) <= MaxCount
     /\ path = "gstBuffer" => Len(b.map) <= MaxCount

\* What the frame is like when exactly its encrypted bytes are decrypted.
AsMeant(b) ==
  IF (path = "multi" /\ ~b.meta) \/ Clear(b) THEN Bytewise(b)
  ELSE IF b.subs = "ok" THEN Decrypt(Bytewise(b), b.map)
  ELSE [p \in 1..b.size |-> -p]

\* A call that succeeds decrypts the encrypted bytes of each of its frames and no
\* others, wherever they are: collecting them, or joining several frames in one block,
\* the maps of which the CDM reads in a row, loses and shifts nothing
\* (opencdm_gstreamer_session_decrypt and its four kin).  One map whose sum wraps
\* shifts the frames behind it, so all maps of the call must be usable.
DecryptedExactly ==
  /\ pc = "returned" /\ result = "NONE" /\ ~revoked
  /\ \A i \in DOMAIN frames : Usable(frames[i])
  => \A i \in DOMAIN frames : content[i] = AsMeant(frames[i])

\* A call that fails, at whichever step, leaves every frame as it came and hands none
\* of them to SVP: the pipeline may try again (decryptWithOutputRestrictedRetry does).
\* One that succeeds hands each frame of adapter/rdk over once, as a decrypted or as a
\* clear one: the decoder neither waits for a frame nor gets one twice.
AllOrNothing ==
  pc = "returned" =>
    \A i \in DOMAIN frames :
      IF result # "NONE" THEN content[i] = Bytewise(frames[i]) /\ handed[i] = 0
      ELSE path \in Rdk => handed[i] = 1

\* Wherever the call returns from, the list of what is unmapped there names all that
\* was mapped on the way to it, except for the frame without metadata that "buffer" and
\* "gstBuffer" return with still mapped (rdk 643, gst 363).
MapsReleased ==
  pc = "returned" =>
    mapped \subseteq IF path \in {"buffer", "gstBuffer"} /\ ~frames[1].meta
                     THEN {<<1, "data">>} ELSE {}

\* From the moment a call decrypts, SVP was told what the caps of this stream say,
\* unless it refused, or there were none (NeedsDecryptToHostUpdate).
SvpKnows ==
  pc \in {"decrypt", "putback", "clear"} /\ path \in {"buffer", "multi"}
    => \/ missed
       \/ svp = told /\ (caps # "none" => svp = (caps = "host"))

=============================================================================
