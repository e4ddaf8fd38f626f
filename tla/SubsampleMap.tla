---------------------------- MODULE SubsampleMap ----------------------------
(***************************************************************************)
(* A subsample map says which bytes of a frame are encrypted: a sequence of *)
(* entries, each some clear bytes and then some encrypted ones.  The        *)
(* adapters of GStreamer (client/adapter/rdk, client/adapter/gstreamer)     *)
(* read it from the buffer's metadata, fit it to the frame, and use it to   *)
(* take the encrypted bytes out of a frame and put them back.               *)
(*                                                                         *)
(* Bytes are numbers here: i is the byte at position i of a frame as it     *)
(* came, -i the same byte decrypted.                                        *)
(***************************************************************************)
EXTENDS Integers, SequencesExt

CONSTANTS
  MaxClear,   \* the largest clear_bytes, a uint16_t
  Word        \* the numbers of a uint32_t

\* A sequence of them is a map.
Entries == [clear : Nat, encrypted : Nat]

ASSUME MapAssumption == MaxClear \in Nat \ {0} /\ Word \in Nat \ {0}

\* The sums of the first 0, 1, 2 ... of a sequence of numbers.
Sums(numbers) ==
  LET upto[k \in 0..Len(numbers)] == IF k = 0 THEN 0 ELSE upto[k - 1] + numbers[k]
  IN  upto

\* Where each entry ends, in a frame and in the data that is collected from it.
Ends(map) == Sums([k \in DOMAIN map |-> map[k].clear + map[k].encrypted])
DataEnds(map) == Sums([k \in DOMAIN map |-> map[k].encrypted])

Bytes(map) == Ends(map)[Len(map)]
EncryptedBytes(map) == DataEnds(map)[Len(map)]

\* The encrypted bytes of entry k lie behind this many bytes of the frame.
Before(map, k) == Ends(map)[k - 1] + map[k].clear

\* The positions of a frame that the map says are encrypted.
Encrypted(map) ==
  UNION {(Before(map, k) + 1)..(Before(map, k) + map[k].encrypted) : k \in DOMAIN map}

-----------------------------------------------------------------------------
(* Fitting a map to a frame *)

\* Clear entries for so many bytes: full ones, and what is left in the last.
Padding(missing) ==
  LET count == (missing + MaxClear - 1) \div MaxClear
  IN  [k \in 1..count |->
        [clear |-> IF k < count THEN MaxClear ELSE missing - (count - 1) * MaxClear,
         encrypted |-> 0]]

\* extend_subsample_map: bytes behind the map are clear.
Extend(map, size) == map \o Padding(size - (Bytes(map) % Word))

\* The total is the sum in 32 bits.  An empty frame, or an empty map, is left alone.
Fits(map, size) == size = 0 \/ map = <<>> \/ size >= (Bytes(map) % Word)
Fitted(map, size) == IF size = 0 \/ map = <<>> THEN map ELSE Extend(map, size)

\* validate_subsample_map_multi has no such exception: it is called for a frame
\* and a map that are not empty.
FitsMulti(map, size) == size >= (Bytes(map) % Word)

-----------------------------------------------------------------------------
(* Taking the encrypted bytes out, and putting them back *)

Gather(frame, map) ==
  FlattenSeq([k \in DOMAIN map |->
    SubSeq(frame, Before(map, k) + 1, Before(map, k) + map[k].encrypted)])

\* Mutant: the data of an entry is taken from where it is in the frame.
Scatter_Misplaced(frame, data, map) ==
  [p \in DOMAIN frame |->
    IF p \in Encrypted(map) /\ p \in DOMAIN data THEN data[p] ELSE frame[p]]

Scatter(frame, data, map) ==
  [p \in DOMAIN frame |->
    IF p \notin Encrypted(map) THEN frame[p]
    ELSE LET k == CHOOSE k \in DOMAIN map : p \in (Before(map, k) + 1)..(Before(map, k) + map[k].encrypted)
         IN  data[DataEnds(map)[k - 1] + p - Before(map, k)]]

\* What a CDM does with a frame and its map; bytes the map says are beyond the
\* frame are not the frame's.
Decrypt(frame, map) ==
  [p \in DOMAIN frame |-> IF p \in Encrypted(map) THEN -frame[p] ELSE frame[p]]

=============================================================================
