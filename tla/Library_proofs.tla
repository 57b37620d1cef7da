--------------------------- MODULE Library_proofs ---------------------------
(***************************************************************************)
(* What is proved of the libraries: the receive ring is a queue, a pin is  *)
(* what its view says, AllowDb keeps what drivers hold apart and the fake  *)
(* kernel's records are of what they hold, the stepper example reports     *)
(* where the motor stands, the pure conversions say what they should, the  *)
(* Formatter puts back what it changes, numbers are padded as asked, and   *)
(* the lines LineBuffered holds back keep their order.  Each holds for     *)
(* every value of its component's parameters, word sizes included; the     *)
(* parts of MCLibrary share nothing, so each has an invariant of its own.  *)
(***************************************************************************)
EXTENDS MCLibrary, WellFoundedInduction, SequenceTheorems, FiniteSetTheorems, TLAPS

-----------------------------------------------------------------------------
(***************************************************************************)
(* The receive ring.  That it is a queue is arithmetic of its two indices, *)
(* which wrap; that the process reads it only when it has a frame is a     *)
(* matter of what an upcall says and of when one can be queued.            *)
(***************************************************************************)
RingTyped ==
    /\ read \in 0..(N - 1) /\ write \in 0..(N - 1)
    /\ air \in Nat /\ frame \in 0..air
    /\ slot \in [0..(N - 1) -> 0..air]
    /\ queued \in Nat

(* Where the process is, and what it shares with the driver there.         *)
Shared ==
    /\ at \in {"app", "lend", "unlisten", "take"} => ~lent
    /\ at \in {"app", "lend", "listen", "take"} => ~listening /\ queued = 0
    /\ at \in {"lend", "listen", "wait"} => ~called

(* An upcall says that there is a frame, which nobody reads before the     *)
(* process has taken the ring back.                                        *)
Told ==
    /\ queued > 0 => Ring!HasFrame
    /\ at \in {"unlend", "unlisten"} /\ called => Ring!HasFrame
    /\ at = "take" => Ring!HasFrame
    /\ at = "lend" => ~Ring!HasFrame

(* A frame that no upcall told of came before the process listened.        *)
Untold ==
    /\ at = "listen" /\ Ring!HasFrame => early
    /\ Ring!SleepsOnlyOverEarly

RingInv == RingTyped /\ Shared /\ Told /\ Untold

(* The remainder of an index that has gone once round the ring at most.    *)
LEMMA ModSmall == ASSUME NEW n \in Nat, NEW x \in 0..(n - 1) PROVE x % n = x
OBVIOUS

LEMMA ModOnce ==
  ASSUME NEW n \in Nat \ {0}, NEW x \in n..(2 * n - 1) PROVE x % n = x - n
OBVIOUS

LEMMA RingSize == N \in Nat /\ N >= 2 /\ Byte \in Nat /\ N < Byte /\ N % Byte = N
<1>1. N \in Nat /\ N >= 2 /\ Byte \in Nat /\ N < Byte
  BY LibraryAssumption DEF Ring!RingAssumption
<1> QED BY <1>1, ModSmall

LEMMA Wraps ==
  ASSUME NEW x \in 0..(2 * N - 1)
  PROVE  x % N = IF x < N THEN x ELSE x - N
<1>1. CASE x < N
  <2>1. N \in Nat /\ x \in 0..(N - 1)
    BY <1>1, RingSize
  <2> QED BY <1>1, <2>1, ModSmall
<1>2. CASE x >= N
  <2>1. N \in Nat \ {0} /\ x \in N..(2 * N - 1)
    BY <1>2, RingSize
  <2>2. x % N = x - N
    BY <2>1, ModOnce
  <2> QED BY <1>2, <2>2, RingSize
<1> QED BY <1>1, <1>2, RingSize

(* Frames in the ring and the place of each, with the wrap spelt out.      *)
Count == IF write >= read THEN write - read ELSE write - read + N
Place(k) == IF read + k - 1 < N THEN read + k - 1 ELSE read + k - 1 - N

Laid ==
    /\ Count \in 0..(N - 1)
    /\ Count = 0 <=> ~Ring!HasFrame
    /\ \A k \in 1..N : Place(k) \in 0..(N - 1)
    /\ Ring!Pending = [k \in 1..Count |-> slot[Place(k)]]
    /\ Ring!Pending \in Seq(0..air)
    /\ Len(Ring!Pending) = Count

(* In every state the frames lie in the ring from the reader's place on.   *)
LEMMA PendingLaid == RingTyped => Laid
<1> SUFFICES ASSUME RingTyped PROVE Laid
  OBVIOUS
<1>1. /\ Count \in 0..(N - 1)
      /\ Count = 0 <=> ~Ring!HasFrame
      /\ \A k \in 1..N : Place(k) \in 0..(N - 1)
  BY RingSize DEF RingTyped, Count, Place, Ring!HasFrame
<1>2. (write - read + N) % N = Count
  <2>1. write - read + N \in 0..(2 * N - 1)
    BY RingSize DEF RingTyped
  <2>2. write - read + N < N <=> write < read
    BY RingSize DEF RingTyped
  <2>3. PICK x \in 0..(2 * N - 1) : x = write - read + N
    BY <2>1
  <2>4. x % N = IF x < N THEN x ELSE x - N
    BY Wraps
  <2> QED BY <2>2, <2>3, <2>4, RingSize DEF RingTyped, Count
<1>3. \A k \in 1..N : (read + k - 1) % N = Place(k)
  <2> TAKE k \in 1..N
  <2>1. read + k - 1 \in 0..(2 * N - 1)
    BY RingSize DEF RingTyped
  <2>2. PICK x \in 0..(2 * N - 1) : x = read + k - 1
    BY <2>1
  <2>3. x % N = IF x < N THEN x ELSE x - N
    BY Wraps
  <2> QED BY <2>2, <2>3, RingSize DEF RingTyped, Place
<1>4. \A k \in 1..Count : k \in 1..N
  BY <1>1, RingSize
<1>5. Ring!Pending = [k \in 1..Count |-> slot[Place(k)]]
  BY <1>2, <1>3, <1>4 DEF Ring!Pending
<1>6. [k \in 1..Count |-> slot[Place(k)]] \in [1..Count -> 0..air]
  BY <1>1, <1>4 DEF RingTyped
<1> HIDE DEF Count, Place
<1> QED BY <1>1, <1>5, <1>6 DEF Laid

LEMMA PendingLaidNext == RingTyped' => Laid'
BY PendingLaid, PTL

(* The next index, and the indices after a frame was read or put.          *)
LEMMA NextIndex ==
  ASSUME NEW i \in 0..(N - 1)
  PROVE  /\ (i + 1) % N = IF i = N - 1 THEN 0 ELSE i + 1
         /\ (i + 1) % (N % Byte) = (i + 1) % N
         /\ ((i + 1) % N) % Byte = (i + 1) % N
         /\ (i + 1) % N \in 0..(N - 1)
<1>1. PICK x \in 0..(2 * N - 1) : x = i + 1
  BY RingSize
<1>2. x % N = IF x < N THEN x ELSE x - N
  BY Wraps
<1>3. (i + 1) % N = IF i = N - 1 THEN 0 ELSE i + 1
  BY <1>1, <1>2, RingSize
<1>4. PICK y \in 0..(Byte - 1) : y = (i + 1) % N /\ y \in 0..(N - 1)
  BY <1>3, RingSize
<1>5. y % Byte = y
  BY RingSize, ModSmall
<1> QED BY <1>3, <1>4, <1>5, RingSize

(* Reading a frame takes it off the front.                                 *)
LEMMA ReadsHead ==
  ASSUME RingTyped, Ring!HasFrame, Ring!NextFrame, UNCHANGED <<air, queued>>
  PROVE  RingTyped' /\ Ring!Queue!Return
<1>1. /\ frame' = slot[read] /\ UNCHANGED <<write, slot>>
      /\ read' = IF read = N - 1 THEN 0 ELSE read + 1
  <2>1. /\ frame' = slot[read] /\ UNCHANGED <<write, slot>>
        /\ read' = (read + 1) % (N % Byte)
    BY DEF Ring!NextFrame
  <2>2. read \in 0..(N - 1)
    BY DEF RingTyped
  <2>3. (read + 1) % (N % Byte) = IF read = N - 1 THEN 0 ELSE read + 1
    BY <2>2, NextIndex
  <2> QED BY <2>1, <2>3
<1>2. RingTyped'
  BY <1>1, RingSize DEF RingTyped
<1>3. /\ Count \in 1..(N - 1) /\ Count' = Count - 1
      /\ Place(1) = read
      /\ \A k \in 1..(Count - 1) : Place(k)' = Place(k + 1)
  BY <1>1, RingSize DEF RingTyped, Count, Place, Ring!HasFrame
<1>4. /\ Ring!Pending = [k \in 1..Count |-> slot[Place(k)]]
      /\ Ring!Pending \in Seq(0..air)
      /\ Len(Ring!Pending) = Count
  BY PendingLaid DEF Laid
<1>5. Ring!Pending' = [k \in 1..Count' |-> slot'[Place(k)']]
  BY <1>2, PendingLaidNext DEF Laid
<1> HIDE DEF Count, Place
<1>6. Ring!Pending # << >> /\ Head(Ring!Pending) = slot[Place(1)]
  <2>1. \A s \in Seq(0..air) : Len(s) >= 1 => s # << >> /\ Head(s) = s[1]
    OBVIOUS
  <2>2. Len(Ring!Pending) >= 1 /\ 1 \in 1..Count
    BY <1>3, <1>4, RingSize
  <2>3. Ring!Pending[1] = slot[Place(1)]
    BY <1>4, <2>2
  <2> QED BY <1>4, <2>1, <2>2, <2>3
<1>7. Ring!Pending' = [k \in 1..(Count - 1) |-> slot[Place(k + 1)]]
  BY <1>1, <1>3, <1>5
<1>8. Tail(Ring!Pending) = [k \in 1..(Count - 1) |-> Ring!Pending[k + 1]]
  BY <1>3, <1>4
<1>9. \A k \in 1..(Count - 1) : Ring!Pending[k + 1] = slot[Place(k + 1)]
  BY <1>3, <1>4
<1>10. Ring!Pending' = Tail(Ring!Pending)
  BY <1>7, <1>8, <1>9
<1> QED BY <1>1, <1>2, <1>3, <1>6, <1>10 DEF Ring!Queue!Return

(* A frame that is put goes to the end, and in a full ring the front one   *)
(* gives way: the newest N - 1 remain.                                     *)
LEMMA PutsLast ==
  ASSUME RingTyped, air' = air + 1, Ring!Put(air'), UNCHANGED frame, queued' \in Nat
  PROVE  RingTyped' /\ Ring!HasFrame' /\ Ring!Queue!Arrive
<1> DEFINE f == air + 1
<1>1. PICK w \in 0..(N - 1) : w = IF write = N - 1 THEN 0 ELSE write + 1
  BY RingSize DEF RingTyped
<1>2. /\ slot' = [slot EXCEPT ![write] = f]
      /\ write' = w
      /\ read' = IF w # read THEN read
                 ELSE IF read = N - 1 THEN 0 ELSE read + 1
  <2>1. PICK i \in 0..(N - 1), j \in 0..(N - 1) : i = write /\ j = read
    BY DEF RingTyped
  <2>2. /\ (i + 1) % N = w /\ ((i + 1) % N) % Byte = w
        /\ ((j + 1) % N) % Byte = IF j = N - 1 THEN 0 ELSE j + 1
    BY <1>1, <2>1, NextIndex
  <2>3. /\ slot' = [slot EXCEPT ![write] = f]
        /\ write' = ((write + 1) % N) % Byte
        /\ read' = IF (write + 1) % N = read THEN ((read + 1) % N) % Byte ELSE read
    BY DEF Ring!Put
  <2> QED BY <2>1, <2>2, <2>3
<1>3. RingTyped'
  BY <1>1, <1>2, RingSize DEF RingTyped
<1>4. /\ Ring!Pending = [k \in 1..Count |-> slot[Place(k)]]
      /\ Ring!Pending \in Seq(0..air) /\ Len(Ring!Pending) = Count
      /\ Count \in 0..(N - 1)
      /\ \A k \in 1..N : Place(k) \in 0..(N - 1)
  BY PendingLaid DEF Laid
<1>5. /\ Ring!Pending' = [k \in 1..Count' |-> slot'[Place(k)']]
      /\ Count' \in 0..(N - 1)
      /\ Count' = 0 <=> ~Ring!HasFrame'
  BY <1>3, PendingLaidNext DEF Laid
<1>6. slot'[write] = f /\ \A i \in 0..(N - 1) : i # write => slot'[i] = slot[i]
  BY <1>2 DEF RingTyped
<1>7. Place(Count + 1) = write /\ \A k \in 1..Count : Place(k) # write
  BY RingSize DEF RingTyped, Count, Place
<1> DEFINE q == Append(Ring!Pending, f)
<1>8. /\ q \in Seq(Nat) /\ Len(q) = Count + 1
      /\ q[Count + 1] = f
      /\ \A k \in 1..Count : q[k] = slot[Place(k)]
  BY <1>4 DEF RingTyped
<1>9. \A k \in 1..(Count + 1) : q[k] = slot'[Place(k)]
  <2> HIDE DEF Count, Place, q
  <2>1. ASSUME NEW k \in 1..Count PROVE q[k] = slot'[Place(k)]
    <3>1. Place(k) \in 0..(N - 1) /\ Place(k) # write
      BY <1>4, <1>7, RingSize
    <3> QED BY <1>6, <1>8, <3>1
  <2>2. q[Count + 1] = slot'[Place(Count + 1)]
    BY <1>6, <1>7, <1>8
  <2>3. \A k \in 1..(Count + 1) : k \in 1..Count \/ k = Count + 1
    BY <1>4, RingSize
  <2> QED BY <2>1, <2>2, <2>3
<1>10. /\ \A g \in Ring!Queue!ToSet(Ring!Pending) \cup {frame} : f > g
       /\ Ring!Queue!ToSet(Ring!Pending) = {Ring!Pending[k] : k \in 1..Count}
  <2>1. Ring!Queue!ToSet(Ring!Pending) = {Ring!Pending[k] : k \in 1..Count}
    BY <1>4 DEF Ring!Queue!ToSet
  <2>2. \A k \in 1..Count : Ring!Pending[k] \in 0..air
    BY <1>4
  <2> QED BY <2>1, <2>2 DEF RingTyped
<1>11. CASE w # read
  <2>1. Count' = Count + 1 /\ \A k \in 1..(Count + 1) : Place(k)' = Place(k)
    BY <1>1, <1>2, <1>11, RingSize DEF RingTyped, Count, Place
  <2> HIDE DEF Count, Place, q
  <2>2. Ring!Pending' = [k \in 1..(Count + 1) |-> q[k]]
    BY <1>5, <1>9, <2>1
  <2>3. Ring!Pending' = q
    BY <1>4, <1>8, <2>2
  <2>4. Count + 1 \in 1..(N - 1)
    BY <1>4, <1>5, <2>1, RingSize
  <2>5. Ring!Queue!Newest(q) = q
    <3>1. Len(q) - (IF Len(q) < N - 1 THEN Len(q) ELSE N - 1) + 1 = 1
      BY <1>4, <1>8, <2>4, RingSize
    <3> QED BY <1>4, <1>8, <3>1 DEF Ring!Queue!Newest
  <2>6. Len(Ring!Pending') = Count + 1 /\ Ring!Queue!Last(Ring!Pending') = f
    BY <1>4, <1>8, <2>3 DEF Ring!Queue!Last
  <2>7. Ring!Pending' = Ring!Queue!Newest(Append(Ring!Pending, f))
    BY <2>3, <2>5 DEF q
  <2>8. Len(Ring!Pending') > 0 /\ Count' # 0
    BY <1>4, <2>1, <2>6
  <2> HIDE DEF f
  <2>9. Ring!Queue!Arrive
    BY <1>10, <2>6, <2>7, <2>8 DEF Ring!Queue!Arrive
  <2> QED BY <1>3, <1>5, <2>8, <2>9
<1>12. CASE w = read
  <2>1. /\ Count = N - 1 /\ Count' = Count
        /\ \A k \in 1..Count : Place(k)' = Place(k + 1)
    BY <1>1, <1>2, <1>12, RingSize DEF RingTyped, Count, Place
  <2> HIDE DEF Count, Place, q
  <2>2. Ring!Pending' = [k \in 1..Count |-> q[k + 1]]
    BY <1>4, <1>5, <1>9, <2>1
  <2>3. Len(q) = N /\ Len(q) - (IF Len(q) < N - 1 THEN Len(q) ELSE N - 1) + 1 = 2
    BY <1>4, <1>8, <2>1, RingSize
  <2>4. Ring!Queue!Newest(q) = SubSeq(q, 2, N)
    BY <2>3 DEF Ring!Queue!Newest
  <2>5. SubSeq(q, 2, N) = [k \in 1..(N - 1) |-> q[k + 1]]
    BY <1>8, <2>3, RingSize
  <2>6. Ring!Pending' = Ring!Queue!Newest(q)
    BY <2>1, <2>2, <2>4, <2>5
  <2>7. /\ Ring!Pending' = [k \in 1..(N - 1) |-> q[k + 1]]
        /\ Len(Ring!Pending') = N - 1
        /\ Ring!Pending'[N - 1] = q[N]
    BY <2>1, <2>2, RingSize
  <2>8. Len(Ring!Pending') > 0 /\ Ring!Queue!Last(Ring!Pending') = f
    BY <1>8, <2>1, <2>7, RingSize DEF Ring!Queue!Last
  <2>9. Ring!Pending' = Ring!Queue!Newest(Append(Ring!Pending, f)) /\ Count' # 0
    BY <2>1, <2>6, RingSize DEF q
  <2> HIDE DEF f
  <2>10. Ring!Queue!Arrive
    BY <1>10, <2>8, <2>9 DEF Ring!Queue!Arrive
  <2> QED BY <1>3, <1>5, <2>9, <2>10
<1> QED BY <1>11, <1>12

(* Nothing else moves a frame.                                             *)
LEMMA Still ==
  ASSUME UNCHANGED <<read, write, slot, frame>>
  PROVE  /\ UNCHANGED <<Ring!Pending, frame>>
         /\ Ring!HasFrame' <=> Ring!HasFrame
         /\ RingTyped /\ air' \in Nat /\ air' >= air /\ queued' \in Nat => RingTyped'
<1>1. UNCHANGED <<Ring!Pending, frame>>
  BY DEF Ring!Pending
<1>2. Ring!HasFrame' <=> Ring!HasFrame
  BY DEF Ring!HasFrame
<1>3. RingTyped /\ air' \in Nat /\ air' >= air /\ queued' \in Nat => RingTyped'
  <2> SUFFICES ASSUME RingTyped, air' \in Nat, air' >= air, queued' \in Nat
               PROVE  RingTyped'
    OBVIOUS
  <2>1. 0..air \subseteq 0..air'
    BY DEF RingTyped
  <2> QED BY <2>1 DEF RingTyped
<1> QED BY <1>1, <1>2, <1>3

(* The process, from its call of receive_frame until it waits.             *)
LEMMA CallKept ==
  ASSUME RingInv, Ring!ReceiveFrame \/ Ring!Lend \/ Ring!Listen
  PROVE  RingInv' /\ UNCHANGED <<Ring!Pending, frame>>
<1>0. /\ RingTyped /\ Shared /\ Told /\ Untold
      /\ UNCHANGED <<read, write, slot, frame, air, queued>>
  BY DEF RingInv, Ring!ReceiveFrame, Ring!Lend, Ring!Listen, Ring!ring
<1>1. /\ RingTyped' /\ UNCHANGED <<Ring!Pending, frame>>
      /\ Ring!HasFrame' <=> Ring!HasFrame
  BY <1>0, Still DEF RingTyped
<1>2. Shared'
  BY <1>0 DEF Shared, Ring!ReceiveFrame, Ring!Lend, Ring!Listen, Ring!ring
<1>3. Told'
  BY <1>0, <1>1 DEF Shared, Told, Ring!ReceiveFrame, Ring!Lend, Ring!Listen, Ring!ring
<1>4. Untold'
  <2>1. ASSUME at' = "listen" PROVE ~Ring!HasFrame
    BY <1>0, <2>1 DEF Told, Ring!ReceiveFrame, Ring!Lend, Ring!Listen
  <2>2. ASSUME at' = "wait" PROVE at = "listen" /\ early' = early
    BY <1>0, <2>2 DEF Ring!ReceiveFrame, Ring!Lend, Ring!Listen
  <2> QED BY <1>0, <1>1, <2>1, <2>2 DEF Untold, Ring!SleepsOnlyOverEarly
<1> QED BY <1>1, <1>2, <1>3, <1>4 DEF RingInv

(* The process, from the upcall on until it has left the scope.            *)
LEMMA ScopeKept ==
  ASSUME RingInv, Ring!YieldWait \/ Ring!Unlend \/ Ring!Unlisten
  PROVE  RingInv' /\ UNCHANGED <<Ring!Pending, frame>>
<1>0. /\ RingTyped /\ Shared /\ Told /\ Untold
      /\ UNCHANGED <<read, write, slot, frame, air>>
      /\ queued' \in Nat /\ (queued' > 0 => queued > 0)
  BY DEF RingInv, RingTyped, Ring!YieldWait, Ring!Unlend, Ring!Unlisten, Ring!ring
<1>1. /\ RingTyped' /\ UNCHANGED <<Ring!Pending, frame>>
      /\ Ring!HasFrame' <=> Ring!HasFrame
  BY <1>0, Still DEF RingTyped
<1>2. Shared'
  BY <1>0 DEF Shared, Ring!YieldWait, Ring!Unlend, Ring!Unlisten, Ring!ring
<1>3. Told'
  BY <1>0, <1>1 DEF Shared, Told, Ring!YieldWait, Ring!Unlend, Ring!Unlisten, Ring!ring
<1>4. at' \notin {"listen", "wait"}
  BY DEF Ring!YieldWait, Ring!Unlend, Ring!Unlisten
<1>5. Untold'
  BY <1>4 DEF Untold, Ring!SleepsOnlyOverEarly
<1> QED BY <1>1, <1>2, <1>3, <1>5 DEF RingInv

(* A frame is returned at once, or when the process was told of one.       *)
LEMMA ReturnKept ==
  ASSUME RingInv, Ring!ReceiveAtOnce \/ Ring!Take
  PROVE  RingInv' /\ Ring!Queue!Return
<1>0. /\ RingTyped /\ Shared /\ Told
      /\ Ring!HasFrame /\ Ring!NextFrame /\ at' = "app"
      /\ UNCHANGED <<lent, listening, queued, called, air>>
      /\ at \in {"app", "take"}
  BY DEF RingInv, Told, Ring!ReceiveAtOnce, Ring!Take, Ring!call
<1>1. RingTyped' /\ Ring!Queue!Return
  BY <1>0, ReadsHead
<1>2. Shared'
  BY <1>0 DEF Shared
<1>3. Told'
  BY <1>0 DEF Shared, Told, RingTyped
<1>4. Untold'
  BY <1>0 DEF Untold, Ring!SleepsOnlyOverEarly
<1> QED BY <1>1, <1>2, <1>3, <1>4 DEF RingInv

(* The radio: what it puts while the process listens it tells of.          *)
LEMMA RadioKept ==
  ASSUME RingInv, Ring!RadioReceive
  PROVE  RingInv' /\ (Ring!Queue!Arrive \/ UNCHANGED <<Ring!Pending, frame>>)
<1>0. /\ RingTyped /\ Shared /\ Told /\ Untold
      /\ air' = air + 1 /\ UNCHANGED <<lent, listening, called, at, frame>>
  BY DEF RingInv, Ring!RadioReceive
<1>1. CASE lent
  <2>1. /\ Ring!Put(air') /\ early' = (early \/ ~listening)
        /\ queued' = IF listening THEN queued + 1 ELSE queued
    BY <1>1 DEF Ring!RadioReceive
  <2>2. queued' \in Nat
    BY <1>0, <2>1 DEF RingTyped
  <2>3. RingTyped' /\ Ring!HasFrame' /\ Ring!Queue!Arrive
    BY <1>0, <2>1, <2>2, PutsLast
  <2>4. Shared'
    BY <1>0, <1>1, <2>1 DEF Shared
  <2>5. Told'
    BY <1>0, <1>1, <2>3 DEF Shared, Told
  <2>6. ASSUME at' = "listen" PROVE early'
    BY <1>0, <2>1, <2>6 DEF Shared
  <2>7. ASSUME at' = "wait", queued' = 0 PROVE early'
    <3>1. ~listening
      BY <1>0, <2>1, <2>7 DEF RingTyped
    <3> QED BY <2>1, <3>1
  <2>8. Untold'
    BY <2>6, <2>7 DEF Untold, Ring!SleepsOnlyOverEarly
  <2> QED BY <2>3, <2>4, <2>5, <2>8 DEF RingInv
<1>2. CASE ~lent
  <2>1. UNCHANGED <<read, write, slot, queued, early>>
    BY <1>2 DEF Ring!RadioReceive, Ring!ring
  <2>2. /\ RingTyped' /\ UNCHANGED <<Ring!Pending, frame>>
        /\ Ring!HasFrame' <=> Ring!HasFrame
    BY <1>0, <2>1, Still DEF RingTyped
  <2>3. Shared' /\ Told' /\ Untold'
    BY <1>0, <2>1, <2>2 DEF Shared, Told, Untold, Ring!SleepsOnlyOverEarly
  <2> QED BY <2>2, <2>3 DEF RingInv
<1> QED BY <1>1, <1>2

(* The two byte indices implement the queue of the N - 1 newest frames, in *)
(* the order of their arrival, whatever N below 256 is; and the process    *)
(* sleeps over a frame only when it came before it listened.               *)
THEOREM RingKeepsQueue == Spec => RingIsQueue
<1> DEFINE I == part = "ring" => RingInv
<1>1. Init => I /\ Ring!Queue!Init
  <2> SUFFICES ASSUME Init PROVE I /\ Ring!Queue!Init
    OBVIOUS
  <2>1. /\ read = 0 /\ write = 0 /\ slot = [i \in 0..(N - 1) |-> 0]
        /\ lent = FALSE /\ listening = FALSE /\ queued = 0 /\ called = FALSE
        /\ air = 0 /\ frame = 0
        /\ part = "ring" => at = "app"
    BY DEF Init
  <2>2. RingTyped
    BY <2>1, RingSize DEF RingTyped
  <2>3. Count = 0 /\ ~Ring!HasFrame
    BY <2>1, RingSize DEF Count, Ring!HasFrame
  <2>4. Ring!Pending = [k \in 1..Count |-> slot[Place(k)]]
    BY <2>2, PendingLaid DEF Laid
  <2>5. Ring!Pending = << >>
    BY <2>3, <2>4
  <2>6. part = "ring" => Shared /\ Told /\ Untold
    BY <2>1, <2>3 DEF Shared, Told, Untold, Ring!SleepsOnlyOverEarly
  <2> QED BY <2>1, <2>2, <2>5, <2>6 DEF RingInv, Ring!Queue!Init
<1>2. I /\ [Next]_vars => I' /\ [Ring!Queue!Next]_<<Ring!Pending, frame>>
  <2> SUFFICES ASSUME I, [Next]_vars
               PROVE  I' /\ [Ring!Queue!Next]_<<Ring!Pending, frame>>
    OBVIOUS
  <2>1. CASE RingNext
    <3>1. RingInv /\ Ring!Next
      BY <2>1 DEF RingNext
    <3>2. RingInv' /\ (Ring!Queue!Next \/ UNCHANGED <<Ring!Pending, frame>>)
      BY <3>1, CallKept, ScopeKept, ReturnKept, RadioKept
         DEF Ring!Next, Ring!Process, Ring!Queue!Next
    <3> QED BY <3>2
  <2>2. CASE ~RingNext
    <3>1. UNCHANGED <<part, ring>> /\ (part = "ring" => UNCHANGED at)
      BY <2>2 DEF Next, vars, PinsNext, StepperNext, FakeNext, FormatterNext, LinesNext,
                  SensorNext, DeviceNext
    <3>2. UNCHANGED <<Ring!Pending, frame>>
      BY <3>1, Still DEF ring
    <3>3. part = "ring" => RingInv'
      BY <3>1 DEF ring, RingInv, RingTyped, Shared, Told, Untold, Ring!HasFrame,
                  Ring!SleepsOnlyOverEarly
    <3> QED BY <3>1, <3>2, <3>3
  <2> QED BY <2>1, <2>2
<1>3. I => (part = "ring" => Ring!SleepsOnlyOverEarly)
  BY DEF RingInv, Untold
<1> QED BY <1>1, <1>2, <1>3, PTL DEF Spec, RingIsQueue, Ring!RingIsQueue, Ring!Queue!Spec

-----------------------------------------------------------------------------
(* GPIO.  What pins and handles are, and that of handles of one program    *)
(* each has its own pin when it takes each only once.                      *)
Views == Pins!Pull \cup {"pin", "output"}

PinsTyped ==
    /\ pins \in [Pin -> [mode : Pins!Mode, level : BOOLEAN,
                         edge : Pins!Edge \cup {"off"}]]
    /\ holds \in [Handle -> [pin : Pin, view : Views] \cup {Pins!Free}]

OwnPins ==
    exclusive => \A g, h \in Handle :
        holds[g] # Pins!Free /\ holds[h] # Pins!Free /\ holds[g].pin = holds[h].pin
            => g = h

PinsInv == PinsTyped /\ OwnPins /\ Pins!ViewIsTrue /\ Pins!NoOrphanOutput

(* A handle that is not free has a pin and a view, and a free one neither. *)
LEMMA Holding ==
  ASSUME PinsTyped
  PROVE  \A h \in Handle :
            /\ holds[h].view = "free" <=> holds[h] = Pins!Free
            /\ holds[h] # Pins!Free => holds[h] \in [pin : Pin, view : Views]
<1> SUFFICES ASSUME NEW h \in Handle
             PROVE  /\ holds[h].view = "free" <=> holds[h] = Pins!Free
                    /\ holds[h] # Pins!Free => holds[h] \in [pin : Pin, view : Views]
  OBVIOUS
<1>0. Pins!Free.view = "free"
  BY DEF Pins!Free
<1>1. holds[h] \in [pin : Pin, view : Views] \/ holds[h] = Pins!Free
  BY DEF PinsTyped
<1>2. CASE holds[h] = Pins!Free
  BY <1>0, <1>2
<1>3. CASE holds[h] \in [pin : Pin, view : Views]
  BY <1>0, <1>3 DEF Views, Pins!Pull
<1> QED BY <1>1, <1>2, <1>3

(* A step that sets the mode of one pin, and makes one handle a view of it,*)
(* of that mode unless it is the plain pin, keeps them in agreement: that  *)
(* handle held the pin before, or was free and no other holds it.          *)
LEMMA HandleSet ==
  ASSUME PinsInv, UNCHANGED exclusive,
         NEW h \in Handle, NEW p \in Pin, NEW m \in Pins!Mode, NEW view \in Views,
         pins' = [pins EXCEPT ![p].mode = m],
         holds' = [holds EXCEPT ![h] = [pin |-> p, view |-> view]],
         m = "output" => view = "output",
         view # "pin" => m = view,
         \/ holds[h] # Pins!Free /\ holds[h].pin = p
         \/ /\ holds[h] = Pins!Free
            /\ exclusive => \A g \in Handle : holds[g].pin # p
  PROVE  PinsInv'
<1> DEFINE r == [pin |-> p, view |-> view]
<1>0. PinsTyped /\ OwnPins /\ Pins!ViewIsTrue /\ Pins!NoOrphanOutput
  BY DEF PinsInv
<1>1. /\ r \in [pin : Pin, view : Views] /\ r.pin = p /\ r.view = view
      /\ r # Pins!Free
  BY DEF Views, Pins!Pull, Pins!Free
<1> HIDE DEF r
<1>2. /\ holds'[h] = r
      /\ \A g \in Handle : g # h => holds'[g] = holds[g]
  BY <1>0 DEF PinsTyped, r
<1>3. /\ pins'[p].mode = m
      /\ \A q \in Pin : q # p => pins'[q] = pins[q]
  BY <1>0 DEF PinsTyped
<1>4. PinsTyped'
  <2>1. pins' \in [Pin -> [mode : Pins!Mode, level : BOOLEAN,
                           edge : Pins!Edge \cup {"off"}]]
    BY <1>0 DEF PinsTyped
  <2>2. holds' \in [Handle -> [pin : Pin, view : Views] \cup {Pins!Free}]
    BY <1>0, <1>1 DEF PinsTyped, r
  <2> QED BY <2>1, <2>2 DEF PinsTyped
<1>5. OwnPins'
  <2> SUFFICES ASSUME exclusive, NEW f \in Handle, NEW g \in Handle,
                      holds'[f] # Pins!Free, holds'[g] # Pins!Free,
                      holds'[f].pin = holds'[g].pin
               PROVE  f = g
    BY DEF OwnPins
  <2>1. \A k \in Handle : k # h => holds[k] = Pins!Free \/ holds[k].pin # p
    BY <1>0 DEF OwnPins
  <2> QED BY <1>0, <1>1, <1>2, <2>1 DEF OwnPins
<1>6. Pins!ViewIsTrue'
  <2> SUFFICES ASSUME exclusive, NEW g \in Handle,
                      holds'[g].view \in Pins!Pull \cup {"output"}
               PROVE  pins'[holds'[g].pin].mode = holds'[g].view
    BY DEF Pins!ViewIsTrue
  <2>1. CASE g = h
    BY <1>1, <1>2, <1>3, <2>1 DEF Pins!Pull
  <2>2. CASE g # h
    <3>1. holds'[g] = holds[g] /\ holds[g] # Pins!Free
      BY <1>0, <1>2, <2>2, Holding DEF Pins!Pull
    <3>2. holds[g].pin \in Pin /\ holds[g].pin # p
      BY <1>0, <2>2, <3>1, Holding DEF OwnPins
    <3> QED BY <1>0, <1>3, <3>1, <3>2 DEF Pins!ViewIsTrue
  <2> QED BY <2>1, <2>2
<1>7. Pins!NoOrphanOutput'
  <2> SUFFICES ASSUME NEW q \in Pin, pins'[q].mode = "output"
               PROVE  \E g \in Handle : holds'[g] = [pin |-> q, view |-> "output"]
    BY DEF Pins!NoOrphanOutput
  <2>1. CASE q = p
    BY <1>2, <1>3, <2>1 DEF r
  <2>2. CASE q # p
    <3>1. PICK g \in Handle : holds[g] = [pin |-> q, view |-> "output"]
      BY <1>0, <1>3, <2>2 DEF Pins!NoOrphanOutput
    <3>2. [pin |-> q, view |-> "output"].pin = q
          /\ [pin |-> q, view |-> "output"] # Pins!Free
      BY DEF Pins!Free
    <3>3. g # h
      BY <2>2, <3>1, <3>2
    <3> QED BY <1>2, <3>1, <3>3
  <2> QED BY <2>1, <2>2
<1> QED BY <1>4, <1>5, <1>6, <1>7 DEF PinsInv

(* Levels, edges and the listener are no business of the views'.           *)
LEMMA ModesKept ==
  ASSUME PinsInv, UNCHANGED <<exclusive, holds>>,
         pins' \in [Pin -> [mode : Pins!Mode, level : BOOLEAN,
                            edge : Pins!Edge \cup {"off"}]],
         \A p \in Pin : pins'[p].mode = pins[p].mode
  PROVE  PinsInv'
<1>1. PinsTyped' /\ OwnPins'
  BY DEF PinsInv, PinsTyped, OwnPins
<1>2. Pins!ViewIsTrue'
  <2> SUFFICES ASSUME exclusive, NEW h \in Handle,
                      holds[h].view \in Pins!Pull \cup {"output"}
               PROVE  pins'[holds[h].pin].mode = holds[h].view
    BY DEF Pins!ViewIsTrue
  <2>1. holds[h].pin \in Pin
    BY Holding DEF PinsInv, Pins!Pull
  <2> QED BY <2>1 DEF PinsInv, Pins!ViewIsTrue
<1>3. Pins!NoOrphanOutput'
  BY DEF PinsInv, Pins!NoOrphanOutput
<1> QED BY <1>1, <1>2, <1>3 DEF PinsInv

(* A Pin that drops had no view.                                           *)
LEMMA DropPinKept ==
  ASSUME PinsInv, NEW h \in Handle, Pins!DropPin(h)
  PROVE  PinsInv'
<1>0. PinsTyped /\ OwnPins /\ Pins!ViewIsTrue /\ Pins!NoOrphanOutput
  BY DEF PinsInv
<1>1. /\ UNCHANGED <<exclusive, pins>>
      /\ holds[h].view = "pin"
      /\ holds' = [holds EXCEPT ![h] = Pins!Free]
  BY DEF Pins!DropPin
<1>2. Pins!Free.view = "free"
  BY DEF Pins!Free
<1>3. holds'[h] = Pins!Free /\ \A g \in Handle : g # h => holds'[g] = holds[g]
  BY <1>0, <1>1 DEF PinsTyped
<1>4. PinsTyped'
  BY <1>0, <1>1 DEF PinsTyped
<1>5. OwnPins'
  BY <1>0, <1>1, <1>3 DEF OwnPins
<1>6. Pins!ViewIsTrue'
  <2> SUFFICES ASSUME exclusive, NEW g \in Handle,
                      holds'[g].view \in Pins!Pull \cup {"output"}
               PROVE  pins[holds'[g].pin].mode = holds'[g].view
    BY <1>1 DEF Pins!ViewIsTrue
  <2>1. g # h
    BY <1>2, <1>3 DEF Pins!Pull
  <2> QED BY <1>0, <1>1, <1>3, <2>1 DEF Pins!ViewIsTrue
<1>7. Pins!NoOrphanOutput'
  <2> SUFFICES ASSUME NEW q \in Pin, pins[q].mode = "output"
               PROVE  \E g \in Handle : holds'[g] = [pin |-> q, view |-> "output"]
    BY <1>1 DEF Pins!NoOrphanOutput
  <2>1. PICK g \in Handle : holds[g] = [pin |-> q, view |-> "output"]
    BY <1>0 DEF Pins!NoOrphanOutput
  <2>2. [pin |-> q, view |-> "output"].view = "output"
    OBVIOUS
  <2>3. g # h
    BY <1>1, <2>1, <2>2
  <2> QED BY <1>3, <2>1, <2>3
<1> QED BY <1>4, <1>5, <1>6, <1>7 DEF PinsInv

(* What a handle is after its view has changed.                            *)
LEMMA ViewSet ==
  ASSUME PinsTyped, NEW h \in Handle, holds[h] # Pins!Free, NEW v
  PROVE  [holds EXCEPT ![h].view = v] =
            [holds EXCEPT ![h] = [pin |-> holds[h].pin, view |-> v]]
<1>1. holds[h] \in [pin : Pin, view : Views]
  BY Holding
<1>2. [holds[h] EXCEPT !.view = v] = [pin |-> holds[h].pin, view |-> v]
  BY <1>1
<1> QED BY <1>2

(* Every step of the pins and handles.                                     *)
LEMMA PinsKept ==
  ASSUME PinsInv, Pins!Next
  PROVE  PinsInv'
<1>0. PinsTyped /\ Missing \subseteq Pin
  BY LibraryAssumption DEF PinsInv, Pins!GpioAssumption
<1>a. ASSUME NEW h \in Handle, holds[h].view \in Views
      PROVE  holds[h] # Pins!Free /\ holds[h].pin \in Pin
  <2>1. Pins!Free.view \notin Views
    BY DEF Pins!Free, Views, Pins!Pull
  <2>2. holds[h] # Pins!Free
    BY <1>a, <2>1
  <2> QED BY <1>0, <2>2, Holding
<1>1. CASE \E p \in Pin, v \in BOOLEAN : Pins!SetValue(p, v)
  <2>1. /\ UNCHANGED <<exclusive, holds>>
        /\ \E p \in Pin, v \in BOOLEAN : pins' = [pins EXCEPT ![p].level = v]
    BY <1>1 DEF Pins!SetValue
  <2> QED BY <1>0, <2>1, ModesKept DEF PinsTyped
<1>2. ASSUME NEW h \in Handle, NEW p \in Pin, Pins!GetPin(h, p) PROVE PinsInv'
  <2>1. /\ UNCHANGED exclusive /\ holds[h] = Pins!Free
        /\ exclusive => \A g \in Handle : holds[g].pin # p
        /\ pins' = [pins EXCEPT ![p].mode = "disabled"]
        /\ holds' = [holds EXCEPT ![h] = [pin |-> p, view |-> "pin"]]
        /\ "disabled" \in Pins!Mode /\ "pin" \in Views
    BY <1>2 DEF Pins!GetPin, Pins!SetMode, Pins!Mode, Views
  <2> QED BY <2>1, HandleSet
<1>3. ASSUME NEW h \in Handle, NEW m \in Pins!Mode, NEW v \in Views,
             holds[h].view \in Views, m = "output" => v = "output",
             v # "pin" => m = v, UNCHANGED exclusive,
             pins' = [pins EXCEPT ![holds[h].pin].mode = m],
             holds' = [holds EXCEPT ![h].view = v]
      PROVE  PinsInv'
  <2>1. holds' = [holds EXCEPT ![h] = [pin |-> holds[h].pin, view |-> v]]
    BY <1>0, <1>3, <1>a, ViewSet
  <2>2. PICK p \in Pin : p = holds[h].pin
    BY <1>3, <1>a
  <2>3. /\ pins' = [pins EXCEPT ![p].mode = m]
        /\ holds' = [holds EXCEPT ![h] = [pin |-> p, view |-> v]]
    BY <1>3, <2>1, <2>2
  <2>4. holds[h] # Pins!Free /\ holds[h].pin = p
    BY <1>3, <1>a, <2>2
  <2>5. /\ UNCHANGED exclusive
        /\ m \in Pins!Mode /\ v \in Views
        /\ m = "output" => v = "output"
        /\ v # "pin" => m = v
    BY <1>3
  <2> QED BY <2>2, <2>3, <2>4, <2>5, HandleSet
<1>4. ASSUME NEW h \in Handle, Pins!MakeOutput(h) PROVE PinsInv'
  BY <1>3, <1>4 DEF Pins!MakeOutput, Pins!SetMode, Pins!Mode, Views
<1>5. ASSUME NEW h \in Handle, NEW pull \in Pins!Pull, Pins!MakeInput(h, pull)
      PROVE  PinsInv'
  BY <1>3, <1>5 DEF Pins!MakeInput, Pins!SetMode, Pins!Mode, Pins!Pull, Views
<1>6. ASSUME NEW h \in Handle, NEW g \in Handle, NEW pull \in Pins!Pull,
             Pins!MakeSecondInput(h, g, pull)
      PROVE  PinsInv'
  <2>1. /\ ~exclusive /\ UNCHANGED exclusive /\ holds[g] = Pins!Free
        /\ holds[h].view \in Views
        /\ pull \in Pins!Mode /\ pull \in Views /\ pull # "output"
        /\ pins' = [pins EXCEPT ![holds[h].pin].mode = pull]
        /\ holds' = [holds EXCEPT ![g] = [pin |-> holds[h].pin, view |-> pull]]
    BY <1>6 DEF Pins!MakeSecondInput, Pins!SetMode, Pins!Mode, Pins!Pull, Views
  <2> QED BY <1>a, <2>1, HandleSet
<1>7. ASSUME NEW h \in Handle, NEW v \in BOOLEAN, Pins!Drive(h, v) PROVE PinsInv'
  <2>1. /\ UNCHANGED <<exclusive, holds>> /\ holds[h].view \in Views
        /\ \E l \in BOOLEAN : pins' = [pins EXCEPT ![holds[h].pin].level = l]
    <3>1. holds[h].view = "output" /\ holds[h].view \in Views
      BY <1>7 DEF Pins!Drive, Views
    <3>2. pins[holds[h].pin].level \in BOOLEAN
      BY <1>0, <1>a, <3>1 DEF PinsTyped
    <3> QED BY <1>7, <3>1, <3>2 DEF Pins!Drive, Pins!Write
  <2> QED BY <1>0, <1>a, <2>1, ModesKept DEF PinsTyped
<1>8. ASSUME NEW h \in Handle,
             (\E e \in Pins!Edge : Pins!EnableInterrupts(h, e)) \/ Pins!DisableInterrupts(h)
      PROVE  PinsInv'
  <2>1. /\ UNCHANGED <<exclusive, holds>> /\ holds[h].view \in Views
        /\ \E e \in Pins!Edge \cup {"off"} :
              pins' = [pins EXCEPT ![holds[h].pin].edge = e]
    BY <1>8 DEF Pins!EnableInterrupts, Pins!DisableInterrupts, Pins!SetEdge, Views
  <2> QED BY <1>0, <1>a, <2>1, ModesKept DEF PinsTyped
<1>9. ASSUME NEW h \in Handle, Pins!DropView(h) PROVE PinsInv'
  <2>1. /\ UNCHANGED exclusive /\ holds[h].view \in Views
        /\ "disabled" \in Pins!Mode /\ "pin" \in Views
        /\ pins' = [pins EXCEPT ![holds[h].pin].mode = "disabled"]
        /\ holds' = [holds EXCEPT ![h].view = "pin"]
    BY <1>9 DEF Pins!DropView, Pins!SetMode, Pins!Mode, Views
  <2> QED BY <1>3, <2>1
<1>10. CASE (\E on \in BOOLEAN : Pins!Listen(on)) \/ Pins!Deliver
  <2>1. UNCHANGED <<exclusive, holds, pins>>
    BY <1>10 DEF Pins!Listen, Pins!Deliver
  <2> QED BY <1>0, <2>1, ModesKept DEF PinsTyped
<1> QED BY <1>1, <1>2, <1>4, <1>5, <1>6, <1>7, <1>8, <1>9, <1>10, DropPinKept
        DEF Pins!Next

(* Nobody holds a pin at first.                                            *)
LEMMA PinsFirst ==
  ASSUME Pins!Init
  PROVE  PinsInv
<1>1. PinsTyped
  BY DEF Pins!Init, PinsTyped, Pins!Mode, Pins!Pull
<1>2. \A h \in Handle : holds[h] = Pins!Free
  BY DEF Pins!Init
<1>3. Pins!Free.view = "free"
  BY DEF Pins!Free
<1>4. \A p \in Pin : pins[p].mode = "none"
  BY DEF Pins!Init
<1> QED BY <1>1, <1>2, <1>3, <1>4
        DEF PinsInv, OwnPins, Pins!ViewIsTrue, Pins!NoOrphanOutput, Pins!Pull

(* While a process keeps one view of a pin the pin is what the view says,  *)
(* and no output outlives its view, for any pins, handles and queue.       *)
THEOREM PinsStayTrue == Spec => []PinsAreTrue
<1> DEFINE I == part = "gpio" => PinsInv
<1>1. Init => I
  BY PinsFirst DEF Init
<1>2. I /\ [Next]_vars => I'
  <2>1. ASSUME I, PinsNext PROVE I'
    BY <2>1, PinsKept DEF PinsNext
  <2>2. ASSUME I, [Next]_vars, ~PinsNext PROVE I'
    <3>1. ASSUME part' = "gpio", part' = part, UNCHANGED gpio PROVE I'
      <4>1. PinsInv /\ UNCHANGED <<exclusive, pins, holds>>
        BY <2>2, <3>1 DEF gpio
      <4>2. PinsInv'
        BY <4>1, ModesKept DEF PinsInv, PinsTyped
      <4> QED BY <4>2
    <3>2. part' = part
      BY <2>2 DEF Next, vars, RingNext, StepperNext, FakeNext, FormatterNext, LinesNext,
            SensorNext, DeviceNext
    <3>3. part = "gpio" => UNCHANGED gpio
      BY <2>2 DEF Next, vars, RingNext, StepperNext, FakeNext, FormatterNext, LinesNext,
            SensorNext, DeviceNext
    <3> QED BY <3>1, <3>2, <3>3
  <2> QED BY <2>1, <2>2
<1>3. I => PinsAreTrue
  BY DEF PinsAreTrue, PinsInv
<1> QED BY <1>1, <1>2, <1>3, PTL DEF Spec

-----------------------------------------------------------------------------
(***************************************************************************)
(* The fake kernel's AllowDb.  It looks at one neighbour of a new buffer   *)
(* and that is enough, because what is recorded is disjoint; and what two  *)
(* drivers hold is disjoint because all of it is recorded.                 *)
(***************************************************************************)
Recorded ==
    /\ \A a \in DOMAIN db : a \in Nat \ {0} /\ db[a] \in Nat \ {0}
    /\ \A a, c \in DOMAIN db : a < c => a + db[a] <= c

HeldTyped == held \in [Driver -> Buffer \cup {Fake!None}]

HeldRecorded ==
    /\ \A d \in Driver : held[d].len > 0 =>
          held[d].at \in DOMAIN db /\ db[held[d].at] = held[d].len
    /\ \A c, d \in Driver : c # d /\ held[c].len > 0 /\ held[d].len > 0
          => held[c].at # held[d].at

DbInv == Recorded /\ HeldTyped /\ HeldRecorded

(* A set of naturals with an element and a bound has a greatest element.   *)
LEMMA Greatest ==
  ASSUME NEW m \in Nat, NEW S \in SUBSET Nat, \A x \in S : x <= m, S # {}
  PROVE  \E a \in S : \A x \in S : x <= a
<1> DEFINE T == {m - x : x \in S}
<1>0. \A x \in S : x \in Nat /\ m - x \in Nat
  OBVIOUS
<1>1. T \in SUBSET Nat /\ T # {}
  BY <1>0
<1>2. PICK t \in T : \A u \in T : ~(<<u, t>> \in OpToRel(<, Nat))
  BY <1>1, NatLessThanWellFounded, WFMin
<1>3. \A u \in T : ~(u < t)
  BY <1>1, <1>2 DEF OpToRel
<1>4. PICK a \in S : t = m - a
  BY <1>2
<1>5. \A x \in S : ~(m - x < m - a)
  BY <1>3, <1>4
<1> QED BY <1>0, <1>5

(* Buffers of drivers and of tests are of natural numbers, and only an     *)
(* empty one is at address 0.                                              *)
LEMMA BufferNumbers ==
  /\ \A b \in Buffer \cup {Fake!None} : b.at \in Nat /\ b.len \in Nat
  /\ \A b \in Buffer \cup {Fake!None} : b.len > 0 => b.at > 0
  /\ Fake!None.len = 0 /\ Fake!None.at = 0
  /\ Fake!Null.len = 0 /\ Fake!Null.at = 0
<1>1. /\ Fake!None.len = 0 /\ Fake!None.at = 0
      /\ Fake!Null.len = 0 /\ Fake!Null.at = 0
  BY DEF Fake!None, Fake!Null
<1>2. \A b \in Buffer : b.at \in Nat /\ b.len \in Nat /\ (b.len > 0 => b.at > 0)
  BY LibraryAssumption DEF Fake!FakeAssumption
<1> QED BY <1>1, <1>2

(* The one neighbour tells of all: a buffer that insert_raw admits is      *)
(* disjoint from every recorded one.                                       *)
LEMMA Admitted ==
  ASSUME Recorded, NEW b \in Buffer, b.len > 0, ~Fake!Overlaps(b)
  PROVE  \A a \in DOMAIN db : a + db[a] <= b.at \/ b.at + b.len <= a
<1> DEFINE Below == {a \in DOMAIN db : a < b.at + b.len}
<1>0. b.at \in Nat /\ b.len \in Nat /\ b.at + b.len \in Nat
  BY BufferNumbers
<1>1. CASE Below = {}
  BY <1>0, <1>1 DEF Recorded
<1>2. CASE Below # {}
  <2>1. Below \in SUBSET Nat /\ \A x \in Below : x <= b.at + b.len
    BY <1>0 DEF Recorded
  <2>2. \E a \in Below : \A x \in Below : x <= a
    <3> HIDE DEF Below
    <3> QED BY <1>0, <1>2, <2>1, Greatest
  <2>3. PICK last : last = CHOOSE a \in Below : \A x \in Below : x <= a
    OBVIOUS
  <2>4. last \in Below /\ \A x \in Below : x <= last
    <3> HIDE DEF Below
    <3> QED BY <2>2, <2>3
  <2>5. last + db[last] <= b.at
    <3>1. ~(last + db[last] > b.at)
      BY <1>2, <2>3 DEF Fake!Overlaps
    <3> QED BY <1>0, <2>4, <3>1 DEF Recorded
  <2>6. ASSUME NEW a \in Below PROVE a + db[a] <= b.at
    <3>1. a = last \/ (a < last /\ a + db[a] <= last)
      BY <2>1, <2>4 DEF Recorded
    <3> QED BY <1>0, <2>4, <2>5, <3>1 DEF Recorded
  <2> QED BY <1>0, <2>6 DEF Recorded
<1> QED BY <1>1, <1>2

(* What a step leaves on record is a part of what was there, or that and a *)
(* buffer that was admitted.                                               *)
LEMMA RecordedKept ==
  ASSUME Recorded,
         \/ \A a \in DOMAIN db' : a \in DOMAIN db /\ db'[a] = db[a]
         \/ \E b \in Buffer :
               /\ b.len > 0 /\ ~Fake!Overlaps(b)
               /\ \A a \in DOMAIN db' :
                     \/ a \in DOMAIN db /\ db'[a] = db[a]
                     \/ a = b.at /\ db'[a] = b.len
  PROVE  Recorded'
<1>1. CASE \A a \in DOMAIN db' : a \in DOMAIN db /\ db'[a] = db[a]
  BY <1>1 DEF Recorded
<1>2. ASSUME NEW b \in Buffer, b.len > 0, ~Fake!Overlaps(b),
             \A a \in DOMAIN db' :
                \/ a \in DOMAIN db /\ db'[a] = db[a]
                \/ a = b.at /\ db'[a] = b.len
      PROVE  Recorded'
  <2>1. /\ b.at \in Nat \ {0} /\ b.len \in Nat \ {0}
    BY <1>2, BufferNumbers
  <2>2. \A a \in DOMAIN db : a + db[a] <= b.at \/ b.at + b.len <= a
    BY <1>2, Admitted
  <2> QED BY <1>2, <2>1, <2>2 DEF Recorded
<1> QED BY <1>1, <1>2

(* Allow exchanges a buffer for the one the driver held, on record as well.*)
LEMMA AllowKept ==
  ASSUME Fake!OneEmpty, DbInv,
         NEW d \in Driver, NEW b \in Buffer, ~Fake!Overlaps(b),
         held' = [held EXCEPT ![d] = b],
         db' = Fake!Remove(Fake!Insert(b), held[d])
  PROVE  DbInv'
<1>0. Recorded /\ HeldTyped /\ HeldRecorded
  BY DEF DbInv
<1>1. held[d] \in Buffer \cup {Fake!None}
  BY <1>0 DEF HeldTyped
<1>2. /\ b.at \in Nat /\ b.len \in Nat /\ (b.len > 0 => b.at > 0)
      /\ held[d].at \in Nat /\ held[d].len \in Nat
      /\ held[d].len = 0 => held[d].at = 0
  BY <1>1, BufferNumbers DEF Fake!OneEmpty
<1>3. held[d].at \in DOMAIN db \/ held[d].at = 0
  BY <1>0, <1>2 DEF HeldRecorded
<1>4. b.len > 0 => b.at \notin DOMAIN db /\ b.at # held[d].at
  <2> SUFFICES ASSUME b.len > 0 PROVE b.at \notin DOMAIN db
    BY <1>2, <1>3
  <2>1. \A a \in DOMAIN db : a + db[a] <= b.at \/ b.at + b.len <= a
    BY <1>0, Admitted
  <2> QED BY <1>0, <1>2, <2>1 DEF Recorded
<1>5. \A a : a \in DOMAIN db' <=>
            (a \in DOMAIN db \/ (b.len > 0 /\ a = b.at)) /\ a # held[d].at
  BY <1>2 DEF Fake!Remove, Fake!Insert
<1>6. /\ b.len > 0 => db'[b.at] = b.len
      /\ \A a \in DOMAIN db' : a \in DOMAIN db => db'[a] = db[a]
  BY <1>2, <1>4, <1>5 DEF Fake!Remove, Fake!Insert
<1>7. Recorded'
  <2>1. CASE b.len > 0
    BY <1>0, <1>5, <1>6, <2>1, RecordedKept
  <2>2. CASE ~(b.len > 0)
    BY <1>0, <1>5, <1>6, <2>2, RecordedKept
  <2> QED BY <2>1, <2>2
<1>8. /\ HeldTyped' /\ held'[d] = b
      /\ \A c \in Driver : c # d => held'[c] = held[c]
  BY <1>0 DEF HeldTyped
<1>9. HeldRecorded'
  <2>1. ASSUME NEW c \in Driver, c # d, held[c].len > 0
        PROVE  /\ held[c].at \in DOMAIN db' /\ db'[held[c].at] = held[c].len
               /\ b.len > 0 => held[c].at # b.at
    <3>1. held[c].at \in DOMAIN db /\ db[held[c].at] = held[c].len
      BY <1>0, <2>1 DEF HeldRecorded
    <3>2. held[c].at # held[d].at
      <4>1. CASE held[d].len > 0
        BY <1>0, <2>1, <4>1 DEF HeldRecorded
      <4>2. CASE held[d].len = 0
        BY <1>0, <1>2, <3>1, <4>2 DEF Recorded
      <4> QED BY <1>2, <4>1, <4>2
    <3> QED BY <1>4, <1>5, <1>6, <3>1, <3>2
  <2>2. b.len > 0 => b.at \in DOMAIN db'
    BY <1>4, <1>5
  <2> QED BY <1>0, <1>6, <1>8, <2>1, <2>2 DEF HeldRecorded
<1> QED BY <1>7, <1>8, <1>9 DEF DbInv

(* A buffer that the driver hands straight back leaves the record as it    *)
(* was.                                                                    *)
LEMMA HandBackKept ==
  ASSUME Fake!OneEmpty, DbInv, NEW b \in Buffer, ~Fake!Overlaps(b),
         UNCHANGED held,
         db' = Fake!Remove(Fake!Insert(b), b)
  PROVE  DbInv'
<1>0. Recorded /\ HeldTyped /\ HeldRecorded
  BY DEF DbInv
<1>1. b.at \in Nat /\ b.len \in Nat /\ (b.len = 0 => b.at = 0)
  BY BufferNumbers DEF Fake!OneEmpty
<1>2. b.at \notin DOMAIN db
  <2>1. CASE b.len > 0
    <3>1. \A a \in DOMAIN db : a + db[a] <= b.at \/ b.at + b.len <= a
      BY <1>0, <2>1, Admitted
    <3> QED BY <1>0, <1>1, <2>1, <3>1 DEF Recorded
  <2>2. CASE b.len = 0
    BY <1>0, <1>1, <2>2 DEF Recorded
  <2> QED BY <1>1, <2>1, <2>2
<1>3. \A a : a \in DOMAIN db' <=> a \in DOMAIN db
  BY <1>1, <1>2 DEF Fake!Remove, Fake!Insert
<1>4. \A a \in DOMAIN db' : db'[a] = db[a]
  BY <1>1, <1>2 DEF Fake!Remove, Fake!Insert
<1>5. Recorded'
  BY <1>0, <1>3, <1>4, RecordedKept
<1> QED BY <1>0, <1>3, <1>4, <1>5 DEF DbInv, HeldTyped, HeldRecorded

(* A test begins or ends with nothing lent.                                *)
LEMMA FreshHolds ==
  /\ DOMAIN << >> = {}
  /\ \A d \in Driver : [c \in Driver |-> Fake!None][d] = Fake!None
OBVIOUS

(* Every step of a test and its fake kernel.                               *)
LEMMA FakeKept ==
  ASSUME Fake!OneEmpty, DbInv, Fake!Next
  PROVE  DbInv'
<1>0. Recorded /\ HeldTyped /\ HeldRecorded
  BY DEF DbInv
<1>1. ASSUME UNCHANGED <<db, held>> PROVE DbInv'
  BY <1>0, <1>1 DEF DbInv, Recorded, HeldTyped, HeldRecorded
<1>2. ASSUME Fake!Fresh PROVE DbInv'
  <2>1. /\ DOMAIN db' = {} /\ held' = [d \in Driver |-> Fake!None]
        /\ \A d \in Driver : held'[d] = Fake!None
    BY <1>2, FreshHolds DEF Fake!Fresh
  <2> QED BY <2>1, BufferNumbers DEF DbInv, Recorded, HeldTyped, HeldRecorded
<1>3. ASSUME NEW d \in Driver, NEW b \in Buffer, NEW known \in BOOLEAN,
             Fake!Allow(d, b, known)
      PROVE  DbInv'
  <2>1. CASE UNCHANGED <<db, held>>
    BY <1>1, <2>1
  <2>2. CASE /\ ~Fake!Overlaps(b)
             /\ held' = [held EXCEPT ![d] = b]
             /\ db' = Fake!Remove(Fake!Insert(b), held[d])
    BY <2>2, AllowKept
  <2>3. CASE /\ ~Fake!Overlaps(b) /\ UNCHANGED held
             /\ db' = Fake!Remove(Fake!Insert(b), b)
    BY <2>3, HandBackKept
  <2> QED BY <1>3, <2>1, <2>2, <2>3
          DEF Fake!Allow, Fake!Refused, Fake!Panic, Fake!Skipped, Fake!lent
<1>4. ASSUME NEW d \in Driver, NEW valid \in BOOLEAN, Fake!Command(d, valid)
      PROVE  DbInv'
  <2>1. /\ UNCHANGED db
        /\ UNCHANGED held \/ held' = [held EXCEPT ![d] = Fake!None]
    BY <1>4 DEF Fake!Command, Fake!Refused, Fake!Panic, Fake!lent
  <2>2. CASE held' = [held EXCEPT ![d] = Fake!None]
    <3>1. /\ HeldTyped' /\ held'[d] = Fake!None
          /\ \A c \in Driver : c # d => held'[c] = held[c]
      BY <1>0, <2>2 DEF HeldTyped
    <3>2. Recorded'
      BY <1>0, <2>1 DEF Recorded
    <3>3. \A c \in Driver : held'[c].len > 0 => c # d /\ held'[c] = held[c]
      BY <3>1, BufferNumbers
    <3>4. HeldRecorded'
      BY <1>0, <2>1, <3>3 DEF HeldRecorded
    <3> QED BY <3>1, <3>2, <3>4 DEF DbInv
  <2> QED BY <1>1, <2>1, <2>2
<1>5. ASSUME NEW d \in Driver, NEW on \in BOOLEAN, Fake!Subscribe(d, on)
      PROVE  DbInv'
  BY <1>1, <1>5 DEF Fake!Subscribe, Fake!Refused, Fake!Panic, Fake!Skipped, Fake!lent
<1>6. CASE Fake!YieldWait \/ Fake!YieldNoWait
  BY <1>1, <1>6 DEF Fake!YieldWait, Fake!YieldNoWait, Fake!Refused, Fake!Panic, Fake!lent
<1>7. ASSUME NEW d \in Driver, Fake!AddDriver(d) PROVE DbInv'
  BY <1>1, <1>7 DEF Fake!AddDriver, Fake!lent
<1>8. ASSUME NEW e \in Fake!Expectation, Fake!AddExpected(e) PROVE DbInv'
  BY <1>1, <1>8 DEF Fake!AddExpected, Fake!lent
<1>9. CASE Fake!New \/ Fake!DropKernel
  BY <1>2, <1>9 DEF Fake!New, Fake!DropKernel
<1> QED BY <1>3, <1>4, <1>5, <1>6, <1>7, <1>8, <1>9 DEF Fake!Next

(* Two drivers of the fake kernel never hold memory in common, whatever    *)
(* test runs over it, failing drivers and those that keep a buffer         *)
(* included, unless it lends empty slices out of the middle of others.     *)
THEOREM DriversHoldApart ==
  ASSUME Fake!OneEmpty
  PROVE  Spec => []NoOverlap
<1>1. Init => DbInv
  <2> SUFFICES ASSUME Init PROVE DbInv
    OBVIOUS
  <2>1. db = << >> /\ held = [d \in Driver |-> Fake!None]
    BY DEF Init, Fake!Init
  <2>2. DOMAIN db = {} /\ \A d \in Driver : held[d] = Fake!None
    BY <2>1, FreshHolds
  <2> QED BY <2>1, <2>2, BufferNumbers DEF DbInv, Recorded, HeldTyped, HeldRecorded
<1>2. DbInv /\ [Next]_vars => DbInv'
  <2> SUFFICES ASSUME DbInv, [Next]_vars PROVE DbInv'
    OBVIOUS
  <2>1. CASE Fake!Next
    BY <2>1, FakeKept
  <2>2. CASE UNCHANGED <<db, held>>
    BY <2>2 DEF DbInv, Recorded, HeldTyped, HeldRecorded
  <2> QED BY <2>1, <2>2 DEF Next, vars, fake, RingNext, PinsNext, StepperNext, FakeNext,
          FormatterNext, LinesNext, SensorNext, DeviceNext
<1>3. DbInv => NoOverlap
  <2> SUFFICES ASSUME DbInv, NEW c \in Driver, NEW d \in Driver, c # d,
                      held[c].len > 0, held[d].len > 0
               PROVE  ~Fake!Overlap(held[c], held[d])
    BY DEF NoOverlap, Fake!NoOverlap
  <2>1. /\ held[c].at \in DOMAIN db /\ db[held[c].at] = held[c].len
        /\ held[d].at \in DOMAIN db /\ db[held[d].at] = held[d].len
        /\ held[c].at # held[d].at
    BY DEF DbInv, HeldRecorded
  <2> QED BY <2>1 DEF DbInv, Recorded, Fake!Overlap
<1> QED BY <1>1, <1>2, <1>3, PTL DEF Spec

-----------------------------------------------------------------------------
(***************************************************************************)
(* The rest of the fake kernel's records.  What is on record is held, as   *)
(* what is held is on record, or was let go of by a driver that took it,   *)
(* which nobody can be lent again; and what is queued belongs to a driver  *)
(* that is subscribed.                                                     *)
(***************************************************************************)
Counting == INSTANCE TockKernel_proofs WITH
    Slot <- {}, Target <- {}, Null <- 0, EventSlot <- {}, MaxQueue <- 0,
    upcall <- << >>, queue <- << >>, allowed <- << >>, outstanding <- << >>, bytes <- << >>

LEMMA SameCount ==
  \A S : Counting!Cardinality(S) = Cardinality(S) /\ Fake!Cardinality(S) = Cardinality(S)
BY Zenon DEF Counting!Cardinality, Cardinality, Fake!Cardinality

RecordedHeld ==
    \A a \in DOMAIN db :
       \/ \E d \in Driver : held[d].at = a /\ held[d].len = db[a]
       \/ \E b \in lost : b.at = a /\ b.len = db[a]

LostRecorded ==
    /\ lost \subseteq Buffer
    /\ \A b \in lost : b.len > 0 /\ b.at \in DOMAIN db /\ db[b.at] = b.len
    /\ \A b \in lost, d \in Driver : held[d].len > 0 => held[d].at # b.at

CallsTyped ==
    /\ expected \in Seq(Fake!Expectation)
    /\ kernel \in BOOLEAN /\ (~kernel => expected = << >>)

QueueTyped == queue \in Seq(Driver) /\ Fake!QueueIsLive

(* What retain leaves of the queue was in it, and is of another driver.    *)
LEMMA RetainedOthers ==
  ASSUME queue \in Seq(Driver), NEW d
  PROVE  /\ Fake!Retained(d) \in Seq(Driver)
         /\ \A j \in 1..Len(Fake!Retained(d)) :
               \E i \in 1..Len(queue) : Fake!Retained(d)[j] = queue[i] /\ queue[i] # d
<1> DEFINE K == Fake!Others(d)
           n == Fake!Cardinality(K)
<1>1. Len(queue) \in Nat /\ K \in SUBSET (1..Len(queue)) /\ \A i \in K : queue[i] # d
  BY DEF Fake!Others
<1>2. n \in Nat /\ n = Cardinality(K)
  <2> HIDE DEF K
  <2>1. IsFiniteSet(1..Len(queue))
    BY <1>1, FS_Interval
  <2>2. IsFiniteSet(K)
    BY <1>1, <2>1, FS_Subset
  <2> QED BY <2>2, SameCount, FS_CardinalityType
<1>3. \A j \in 1..n : Fake!Nth(K, j) \in K
  <2> HIDE DEF K
  <2> TAKE j \in 1..n
  <2>0. Counting!KernelAssumption
    BY DEF Counting!KernelAssumption
  <2>1. j \in 1..Counting!Cardinality(K)
    BY <1>2, SameCount
  <2>2. \E i \in K : Counting!Cardinality({k \in K : k <= i}) = j
    BY <1>1, <2>0, <2>1, Counting!NthExists
  <2>3. \E i \in K : Fake!Cardinality({k \in K : k <= i}) = j
    BY <2>2, SameCount
  <2> QED BY <2>3 DEF Fake!Nth
<1>4. Fake!Retained(d) = [j \in 1..n |-> queue[Fake!Nth(K, j)]]
  BY DEF Fake!Retained
<1> HIDE DEF K, n
<1>5. \A j \in 1..n : queue[Fake!Nth(K, j)] \in Driver
  <2>1. \A i \in 1..Len(queue) : queue[i] \in Driver
    OBVIOUS
  <2> QED BY <1>1, <1>3, <2>1
<1>6. Fake!Retained(d) \in Seq(Driver) /\ Len(Fake!Retained(d)) = n
  BY <1>2, <1>4, <1>5
<1> QED BY <1>1, <1>3, <1>4, <1>6

(* A queue of which only subscribed drivers' upcalls are left stays so.    *)
LEMMA QueuePart ==
  ASSUME QueueTyped, queue' \in Seq(Driver),
         \A j \in 1..Len(queue') :
            \/ queue'[j] \in upcalls'
            \/ \E i \in 1..Len(queue) : queue'[j] = queue[i] /\ queue[i] \in upcalls'
  PROVE  QueueTyped'
BY DEF QueueTyped, Fake!QueueIsLive

(* The steps that queue, deliver and drop upcalls.                         *)
LEMMA QueueKept ==
  ASSUME QueueTyped, Fake!Next
  PROVE  QueueTyped'
<1>0. queue \in Seq(Driver) /\ \A i \in 1..Len(queue) : queue[i] \in upcalls
  BY DEF QueueTyped, Fake!QueueIsLive
<1>1. ASSUME UNCHANGED <<upcalls, queue>> PROVE QueueTyped'
  BY <1>1 DEF QueueTyped, Fake!QueueIsLive
<1>2. ASSUME queue' = << >> PROVE QueueTyped'
  BY <1>2 DEF QueueTyped, Fake!QueueIsLive
<1>3. ASSUME NEW d \in Driver, NEW on \in BOOLEAN,
             upcalls' = IF on THEN upcalls \cup {d} ELSE upcalls \ {d},
             queue' = Fake!Retained(d)
      PROVE  QueueTyped'
  <2>1. /\ queue' \in Seq(Driver)
        /\ \A j \in 1..Len(queue') :
              \E i \in 1..Len(queue) : queue'[j] = queue[i] /\ queue[i] # d
    BY <1>0, <1>3, RetainedOthers
  <2>2. \A i \in 1..Len(queue) : queue[i] # d => queue[i] \in upcalls'
    BY <1>0, <1>3
  <2> QED BY <2>1, <2>2, QueuePart
<1>4. ASSUME NEW d \in Driver, d \in upcalls, UNCHANGED upcalls, queue' = Append(queue, d)
      PROVE  QueueTyped'
  <2>1. queue' \in Seq(Driver) /\ Len(queue') = Len(queue) + 1
    BY <1>0, <1>4
  <2>2. \A j \in 1..Len(queue') : queue'[j] = IF j = Len(queue) + 1 THEN d ELSE queue[j]
    BY <1>0, <1>4
  <2>3. \A j \in 1..Len(queue') : queue'[j] \in upcalls'
    BY <1>0, <1>4, <2>1, <2>2
  <2> QED BY <2>1, <2>3, QueuePart
<1>5. ASSUME UNCHANGED upcalls, queue # << >>, queue' = Tail(queue) PROVE QueueTyped'
  <2>1. queue' \in Seq(Driver) /\ Len(queue') = Len(queue) - 1 /\ Len(queue) \in Nat
    BY <1>0, <1>5
  <2>2. \A j \in 1..Len(queue') : j + 1 \in 1..Len(queue) /\ queue'[j] = queue[j + 1]
    BY <1>0, <1>5, <2>1
  <2>3. \A j \in 1..Len(queue') : queue'[j] \in upcalls'
    BY <1>0, <1>5, <2>2
  <2> QED BY <2>1, <2>3, QueuePart
<1>6. ASSUME NEW d \in Driver, NEW on \in BOOLEAN, Fake!Subscribe(d, on) PROVE QueueTyped'
  <2>1. \/ UNCHANGED <<upcalls, queue>>
        \/ /\ upcalls' = IF on THEN upcalls \cup {d} ELSE upcalls \ {d}
           /\ queue' = Fake!Retained(d)
    BY <1>6 DEF Fake!Subscribe, Fake!Refused, Fake!Panic, Fake!Skipped, Fake!events
  <2> QED BY <1>1, <1>3, <2>1
<1>7. ASSUME NEW d \in Driver, NEW valid \in BOOLEAN, Fake!Command(d, valid) PROVE QueueTyped'
  <2>1. /\ UNCHANGED upcalls
        /\ UNCHANGED queue \/ (d \in upcalls /\ queue' = Append(queue, d))
    BY <1>7 DEF Fake!Command, Fake!Refused, Fake!Panic, Fake!events
  <2> QED BY <1>1, <1>4, <2>1
<1>8. ASSUME NEW d \in Driver, NEW b \in Buffer, NEW known \in BOOLEAN, Fake!Allow(d, b, known)
      PROVE  QueueTyped'
  BY <1>1, <1>8 DEF Fake!Allow, Fake!Refused, Fake!Panic, Fake!Skipped, Fake!events
<1>9. CASE Fake!YieldWait \/ Fake!YieldNoWait
  <2>1. /\ UNCHANGED upcalls
        /\ UNCHANGED queue \/ queue' = << >> \/ (queue # << >> /\ queue' = Tail(queue))
    BY <1>9 DEF Fake!YieldWait, Fake!YieldNoWait, Fake!Refused, Fake!Panic, Fake!events
  <2> QED BY <1>1, <1>2, <1>5, <2>1
<1>10. ASSUME NEW d \in Driver, Fake!AddDriver(d) PROVE QueueTyped'
  BY <1>1, <1>10 DEF Fake!AddDriver, Fake!events
<1>11. ASSUME NEW e \in Fake!Expectation, Fake!AddExpected(e) PROVE QueueTyped'
  BY <1>1, <1>11 DEF Fake!AddExpected, Fake!events
<1>12. CASE Fake!New \/ Fake!DropKernel
  BY <1>2, <1>12 DEF Fake!New, Fake!DropKernel, Fake!Fresh
<1> QED BY <1>6, <1>7, <1>8, <1>9, <1>10, <1>11, <1>12 DEF Fake!Next

(* The expected calls are taken from the front, and go with their kernel.  *)
LEMMA CallsKept ==
  ASSUME CallsTyped, Fake!Next
  PROVE  CallsTyped'
<1>0. /\ expected \in Seq(Fake!Expectation)
      /\ kernel \in BOOLEAN /\ (~kernel => expected = << >>)
  BY DEF CallsTyped
<1>1. expected # << >> => Tail(expected) \in Seq(Fake!Expectation)
  BY <1>0
<1>2. ASSUME NEW call, NEW d, Fake!Enter(call, d) PROVE CallsTyped'
  BY <1>0, <1>1, <1>2 DEF CallsTyped, Fake!Enter
<1>3. ASSUME NEW call, NEW d, Fake!Refused(call, d) PROVE CallsTyped'
  <2>1. kernel => expected # << >>
    BY <1>3 DEF Fake!Refused, Fake!Meets
  <2> QED BY <1>0, <1>1, <1>3, <2>1 DEF CallsTyped, Fake!Refused, Fake!Panic
<1>4. ASSUME NEW d \in Driver, Fake!AddDriver(d) PROVE CallsTyped'
  BY <1>0, <1>4 DEF CallsTyped, Fake!AddDriver
<1>5. ASSUME NEW e \in Fake!Expectation, Fake!AddExpected(e) PROVE CallsTyped'
  BY <1>0, <1>5 DEF CallsTyped, Fake!AddExpected
<1>6. CASE Fake!New \/ Fake!DropKernel
  <2>1. kernel' \in BOOLEAN
    BY Zenon, <1>6 DEF Fake!New, Fake!DropKernel
  <2>2. expected' = << >>
    BY Zenon, <1>6 DEF Fake!New, Fake!DropKernel, Fake!Fresh
  <2>3. << >> \in Seq(Fake!Expectation)
    OBVIOUS
  <2> QED BY <2>1, <2>2, <2>3 DEF CallsTyped
<1>7. CASE \E d \in Driver :
              \/ \E valid \in BOOLEAN : Fake!Command(d, valid)
              \/ \E on \in BOOLEAN : Fake!Subscribe(d, on)
              \/ \E b \in Buffer, known \in BOOLEAN : Fake!Allow(d, b, known)
  BY <1>2, <1>3, <1>7 DEF Fake!Command, Fake!Subscribe, Fake!Allow
<1>8. CASE Fake!YieldWait \/ Fake!YieldNoWait
  BY <1>2, <1>3, <1>8 DEF Fake!YieldWait, Fake!YieldNoWait
<1> QED BY <1>4, <1>5, <1>6, <1>7, <1>8 DEF Fake!Next

(* A call told to fail says so only after it has taken its expectation.    *)
LEMMA SkippedApart ==
  ASSUME CallsTyped, Fake!Next
  PROVE  Fake!SkippedTouchesNothing
<1> SUFFICES ASSUME kernel', panic' = "no", reply' = "skipped", Len(expected') < Len(expected)
             PROVE  UNCHANGED <<upcalls, queue, db, held, lost>>
  BY DEF Fake!SkippedTouchesNothing, Fake!events, Fake!lent
<1>0. /\ expected \in Seq(Fake!Expectation) /\ Len(expected) \in Nat
      /\ kernel \in BOOLEAN /\ (~kernel => Len(expected) = 0)
  BY DEF CallsTyped
<1>1. ~(Len(expected) < Len(expected)) /\ Len(<< >>) = 0
  BY <1>0
<1>2. ~\E call, d : Fake!Refused(call, d)
  BY DEF Fake!Refused, Fake!Panic
<1>3. ~Fake!New /\ ~Fake!DropKernel
  <2>1. ~Fake!DropKernel
    BY Zenon DEF Fake!DropKernel
  <2>2. SUFFICES ASSUME Fake!New PROVE FALSE
    BY <2>1
  <2>3. expected' = << >>
    BY Zenon, <2>2 DEF Fake!New, Fake!Fresh
  <2>4. kernel
    BY <1>0, <1>1, <2>3
  <2>5. "second kernel" # "no"
    OBVIOUS
  <2> QED BY Zenon, <2>2, <2>4, <2>5 DEF Fake!New
<1>4. ~\E d \in Driver : Fake!AddDriver(d)
  BY <1>1 DEF Fake!AddDriver
<1>5. ~\E e \in Fake!Expectation : Fake!AddExpected(e)
  <2> SUFFICES ASSUME NEW e \in Fake!Expectation, Fake!AddExpected(e) PROVE FALSE
    OBVIOUS
  <2>1. expected' = Append(expected, e)
    BY DEF Fake!AddExpected
  <2>2. Len(Append(expected, e)) = Len(expected) + 1
    BY <1>0
  <2> QED BY <1>0, <2>1, <2>2
<1>6. ~\E d \in Driver, valid \in BOOLEAN : Fake!Command(d, valid)
  BY <1>2 DEF Fake!Command, Fake!Returns
<1>7. ASSUME NEW d \in Driver, NEW on \in BOOLEAN, Fake!Subscribe(d, on)
      PROVE  UNCHANGED <<upcalls, queue, db, held, lost>>
  BY <1>2, <1>7 DEF Fake!Subscribe, Fake!Returns, Fake!Skipped, Fake!events, Fake!lent
<1>8. ASSUME NEW d \in Driver, NEW b \in Buffer, NEW known \in BOOLEAN, Fake!Allow(d, b, known)
      PROVE  UNCHANGED <<upcalls, queue, db, held, lost>>
  BY <1>2, <1>8 DEF Fake!Allow, Fake!Returns, Fake!Skipped, Fake!events, Fake!lent
<1>9. ASSUME Fake!YieldWait \/ Fake!YieldNoWait
      PROVE  UNCHANGED <<upcalls, queue, db, held, lost>>
  BY <1>2, <1>9 DEF Fake!YieldWait, Fake!YieldNoWait, Fake!Returns, Fake!lent
<1> QED BY <1>3, <1>4, <1>5, <1>6, <1>7, <1>8, <1>9 DEF Fake!Next
(* A buffer that insert_raw admits begins where nothing on record does.    *)
LEMMA AdmittedApart ==
  ASSUME DbInv, NEW b \in Buffer, b.len > 0, ~Fake!Overlaps(b)
  PROVE  b.at \notin DOMAIN db
<1>1. Recorded /\ b.at \in Nat /\ b.len \in Nat
  BY BufferNumbers DEF DbInv
<1>2. \A a \in DOMAIN db : a + db[a] <= b.at \/ b.at + b.len <= a
  BY <1>1, Admitted
<1> QED BY <1>1, <1>2 DEF Recorded

(* What a driver has let go of stays on record, and away from what others  *)
(* are lent.                                                               *)
LEMMA LostKept ==
  ASSUME Fake!OneEmpty, DbInv, LostRecorded, Fake!Next
  PROVE  LostRecorded'
<1>0. Recorded /\ HeldTyped /\ HeldRecorded
  BY DEF DbInv
<1>1. ASSUME UNCHANGED <<db, held, lost>> PROVE LostRecorded'
  BY <1>1 DEF LostRecorded
<1>2. ASSUME lost' = {} PROVE LostRecorded'
  BY <1>2 DEF LostRecorded
<1>3. ASSUME NEW d \in Driver, NEW b \in Buffer, ~Fake!Overlaps(b), UNCHANGED lost,
             held' = [held EXCEPT ![d] = b],
             db' = Fake!Remove(Fake!Insert(b), held[d])
      PROVE  LostRecorded'
  <2>1. /\ held'[d] = b
        /\ \A c \in Driver : c # d => held'[c] = held[c]
    BY <1>0, <1>3 DEF HeldTyped
  <2>2. /\ b.len \in Nat
        /\ held[d].len \in Nat /\ (held[d].len = 0 => held[d].at = 0)
    <3>1. held[d] \in Buffer \cup {Fake!None}
      BY <1>0 DEF HeldTyped
    <3> QED BY <3>1, BufferNumbers DEF Fake!OneEmpty
  <2>3. b.len > 0 => b.at \notin DOMAIN db
    BY <1>3, AdmittedApart
  <2>4. ASSUME NEW x \in lost PROVE x.at \in DOMAIN db' /\ db'[x.at] = db[x.at]
    <3>1. x.at \in DOMAIN db /\ x.at # 0
      BY <1>0 DEF LostRecorded, Recorded
    <3>2. x.at # held[d].at
      <4>1. CASE held[d].len > 0
        BY <4>1 DEF LostRecorded
      <4>2. CASE held[d].len = 0
        BY <2>2, <3>1, <4>2
      <4> QED BY <2>2, <4>1, <4>2
    <3>3. CASE b.len = 0
      BY <1>3, <3>1, <3>2, <3>3 DEF Fake!Remove, Fake!Insert
    <3>4. CASE b.len > 0
      <4>1. x.at # b.at /\ b.len # 0
        BY <2>2, <2>3, <3>1, <3>4
      <4> QED BY <1>3, <3>1, <3>2, <4>1 DEF Fake!Remove, Fake!Insert
    <3> QED BY <2>2, <3>3, <3>4
  <2>5. ASSUME NEW x \in lost, NEW c \in Driver, held'[c].len > 0
        PROVE  held'[c].at # x.at
    <3>1. CASE c = d
      BY <2>1, <2>3, <2>5, <3>1 DEF LostRecorded
    <3>2. CASE c # d
      BY <2>1, <2>5, <3>2 DEF LostRecorded
    <3> QED BY <3>1, <3>2
  <2> QED BY <1>3, <2>4, <2>5 DEF LostRecorded
<1>4. ASSUME NEW b \in Buffer, ~Fake!Overlaps(b), UNCHANGED <<held, lost>>,
             db' = Fake!Remove(Fake!Insert(b), b)
      PROVE  LostRecorded'
  <2>1. b.at \notin DOMAIN db
    <3>1. CASE b.len > 0
      BY <1>4, <3>1, AdmittedApart
    <3>2. CASE ~(b.len > 0)
      <4>1. b.at = 0
        BY <3>2, BufferNumbers DEF Fake!OneEmpty
      <4> QED BY <1>0, <4>1 DEF Recorded
    <3> QED BY <3>1, <3>2
  <2>2. ASSUME NEW x \in lost PROVE x.at \in DOMAIN db' /\ db'[x.at] = db[x.at]
    <3>1. x.at \in DOMAIN db /\ x.at # b.at
      BY <2>1 DEF LostRecorded
    <3> QED BY <1>4, <3>1 DEF Fake!Remove, Fake!Insert
  <2> QED BY <1>4, <2>2 DEF LostRecorded
<1>5. ASSUME NEW d \in Driver, held[d] # Fake!None, UNCHANGED db,
             held' = [held EXCEPT ![d] = Fake!None],
             lost' = lost \cup ({held[d]} \ {Fake!Null})
      PROVE  LostRecorded'
  <2>1. /\ held'[d].len = 0
        /\ \A c \in Driver : c # d => held'[c] = held[c]
    BY <1>0, <1>5, BufferNumbers DEF HeldTyped
  <2>2. held[d] \in Buffer /\ (held[d] # Fake!Null => held[d].len > 0)
    <3>1. held[d] \in Buffer
      BY <1>0, <1>5 DEF HeldTyped
    <3> QED BY <3>1, BufferNumbers DEF Fake!OneEmpty
  <2>3. ASSUME NEW x \in lost'
        PROVE  /\ x \in Buffer /\ x.len > 0 /\ x.at \in DOMAIN db' /\ db'[x.at] = x.len
               /\ \A c \in Driver : held'[c].len > 0 => held'[c].at # x.at
    <3>1. CASE x \in lost
      BY <1>5, <2>1, <3>1 DEF LostRecorded
    <3>2. CASE x = held[d] /\ x # Fake!Null
      BY <1>0, <1>5, <2>1, <2>2, <3>2 DEF HeldRecorded
    <3> QED BY <1>5, <3>1, <3>2
  <2> QED BY <2>3 DEF LostRecorded
<1>6. ASSUME NEW d \in Driver, NEW b \in Buffer, NEW known \in BOOLEAN, Fake!Allow(d, b, known)
      PROVE  LostRecorded'
  <2>1. CASE UNCHANGED <<db, held, lost>>
    BY <1>1, <2>1
  <2>2. CASE /\ ~Fake!Overlaps(b) /\ UNCHANGED lost
             /\ held' = [held EXCEPT ![d] = b]
             /\ db' = Fake!Remove(Fake!Insert(b), held[d])
    BY <1>3, <2>2
  <2>3. CASE /\ ~Fake!Overlaps(b) /\ UNCHANGED <<held, lost>>
             /\ db' = Fake!Remove(Fake!Insert(b), b)
    BY <1>4, <2>3
  <2> QED BY <1>6, <2>1, <2>2, <2>3
          DEF Fake!Allow, Fake!Refused, Fake!Panic, Fake!Skipped, Fake!lent
<1>7. ASSUME NEW d \in Driver, NEW valid \in BOOLEAN, Fake!Command(d, valid)
      PROVE  LostRecorded'
  <2>1. \/ UNCHANGED <<db, held, lost>>
        \/ /\ held[d] # Fake!None /\ UNCHANGED db
           /\ held' = [held EXCEPT ![d] = Fake!None]
           /\ lost' = lost \cup ({held[d]} \ {Fake!Null})
    BY <1>7 DEF Fake!Command, Fake!Refused, Fake!Panic, Fake!lent
  <2> QED BY <1>1, <1>5, <2>1
<1>8. ASSUME NEW d \in Driver, NEW on \in BOOLEAN, Fake!Subscribe(d, on)
      PROVE  LostRecorded'
  BY <1>1, <1>8 DEF Fake!Subscribe, Fake!Refused, Fake!Panic, Fake!Skipped, Fake!lent
<1>9. CASE Fake!YieldWait \/ Fake!YieldNoWait
  BY <1>1, <1>9 DEF Fake!YieldWait, Fake!YieldNoWait, Fake!Refused, Fake!Panic, Fake!lent
<1>10. ASSUME NEW d \in Driver, Fake!AddDriver(d) PROVE LostRecorded'
  BY <1>1, <1>10 DEF Fake!AddDriver, Fake!lent
<1>11. ASSUME NEW e \in Fake!Expectation, Fake!AddExpected(e) PROVE LostRecorded'
  BY <1>1, <1>11 DEF Fake!AddExpected, Fake!lent
<1>12. CASE Fake!New \/ Fake!DropKernel
  BY <1>2, <1>12 DEF Fake!New, Fake!DropKernel, Fake!Fresh
<1> QED BY <1>6, <1>7, <1>8, <1>9, <1>10, <1>11, <1>12 DEF Fake!Next

(* Nothing is on record that no driver holds or has let go of.             *)
LEMMA RecordedHeldKept ==
  ASSUME Fake!OneEmpty, DbInv, RecordedHeld, Fake!Next
  PROVE  RecordedHeld'
<1>0. Recorded /\ HeldTyped /\ HeldRecorded
  BY DEF DbInv
<1>1. ASSUME UNCHANGED <<db, held, lost>> PROVE RecordedHeld'
  BY <1>1 DEF RecordedHeld
<1>2. ASSUME db' = << >> PROVE RecordedHeld'
  BY <1>2, FreshHolds DEF RecordedHeld
<1>3. ASSUME NEW d \in Driver, NEW b \in Buffer, ~Fake!Overlaps(b), UNCHANGED lost,
             held' = [held EXCEPT ![d] = b],
             db' = Fake!Remove(Fake!Insert(b), held[d])
      PROVE  RecordedHeld'
  <2>1. /\ held'[d] = b
        /\ \A c \in Driver : c # d => held'[c] = held[c]
    BY <1>0, <1>3 DEF HeldTyped
  <2>2. ASSUME NEW a \in DOMAIN db'
        PROVE  \/ \E c \in Driver : held'[c].at = a /\ held'[c].len = db'[a]
               \/ \E x \in lost : x.at = a /\ x.len = db'[a]
    <3>1. /\ a # held[d].at
          /\ \/ b.len > 0 /\ a = b.at /\ db'[a] = b.len
             \/ a \in DOMAIN db /\ db'[a] = db[a]
      <4>1. CASE b.len = 0
        BY <1>3, <2>2, <4>1 DEF Fake!Remove, Fake!Insert
      <4>2. CASE b.len # 0
        <5>1. b.len > 0
          BY <4>2, BufferNumbers
        <5> QED BY <1>3, <2>2, <4>2, <5>1 DEF Fake!Remove, Fake!Insert
      <4> QED BY <4>1, <4>2
    <3>2. CASE b.len > 0 /\ a = b.at /\ db'[a] = b.len
      BY <2>1, <3>2
    <3>3. CASE a \in DOMAIN db /\ db'[a] = db[a]
      <4>1. CASE \E x \in lost : x.at = a /\ x.len = db[a]
        BY <3>3, <4>1
      <4>2. CASE \E c \in Driver : held[c].at = a /\ held[c].len = db[a]
        <5>1. PICK c \in Driver : held[c].at = a /\ held[c].len = db[a]
          BY <4>2
        <5> QED BY <2>1, <3>1, <3>3, <5>1
      <4> QED BY <3>3, <4>1, <4>2 DEF RecordedHeld
    <3> QED BY <3>1, <3>2, <3>3
  <2> QED BY <1>3, <2>2 DEF RecordedHeld
<1>4. ASSUME NEW b \in Buffer, ~Fake!Overlaps(b), UNCHANGED <<held, lost>>,
             db' = Fake!Remove(Fake!Insert(b), b)
      PROVE  RecordedHeld'
  <2>1. \A a \in DOMAIN db' : a \in DOMAIN db /\ db'[a] = db[a]
    BY <1>4 DEF Fake!Remove, Fake!Insert
  <2> QED BY <1>4, <2>1 DEF RecordedHeld
<1>5. ASSUME NEW d \in Driver, NEW b \in Buffer, NEW known \in BOOLEAN, Fake!Allow(d, b, known)
      PROVE  RecordedHeld'
  <2>1. CASE UNCHANGED <<db, held, lost>>
    BY <1>1, <2>1
  <2>2. CASE /\ ~Fake!Overlaps(b) /\ UNCHANGED lost
             /\ held' = [held EXCEPT ![d] = b]
             /\ db' = Fake!Remove(Fake!Insert(b), held[d])
    BY <1>3, <2>2
  <2>3. CASE /\ ~Fake!Overlaps(b) /\ UNCHANGED <<held, lost>>
             /\ db' = Fake!Remove(Fake!Insert(b), b)
    BY <1>4, <2>3
  <2> QED BY <1>5, <2>1, <2>2, <2>3
          DEF Fake!Allow, Fake!Refused, Fake!Panic, Fake!Skipped, Fake!lent
<1>6. ASSUME NEW d \in Driver, NEW valid \in BOOLEAN, Fake!Command(d, valid)
      PROVE  RecordedHeld'
  <2>1. \/ UNCHANGED <<db, held, lost>>
        \/ /\ UNCHANGED db
           /\ held' = [held EXCEPT ![d] = Fake!None]
           /\ lost' = lost \cup ({held[d]} \ {Fake!Null})
    BY <1>6 DEF Fake!Command, Fake!Refused, Fake!Panic, Fake!lent
  <2>2. CASE /\ UNCHANGED db
             /\ held' = [held EXCEPT ![d] = Fake!None]
             /\ lost' = lost \cup ({held[d]} \ {Fake!Null})
    <3>1. \A c \in Driver : c # d => held'[c] = held[c]
      BY <1>0, <2>2 DEF HeldTyped
    <3>2. ASSUME NEW a \in DOMAIN db
          PROVE  \/ \E c \in Driver : held'[c].at = a /\ held'[c].len = db[a]
                 \/ \E x \in lost' : x.at = a /\ x.len = db[a]
      <4>1. CASE held[d].at = a /\ held[d].len = db[a]
        <5>1. held[d] # Fake!Null
          BY <1>0, <4>1, BufferNumbers DEF Recorded
        <5> QED BY <2>2, <4>1, <5>1
      <4>2. CASE ~(held[d].at = a /\ held[d].len = db[a])
        BY <2>2, <3>1, <4>2 DEF RecordedHeld
      <4> QED BY <4>1, <4>2
    <3> QED BY <2>2, <3>2 DEF RecordedHeld
  <2> QED BY <1>1, <2>1, <2>2
<1>7. ASSUME NEW d \in Driver, NEW on \in BOOLEAN, Fake!Subscribe(d, on)
      PROVE  RecordedHeld'
  BY <1>1, <1>7 DEF Fake!Subscribe, Fake!Refused, Fake!Panic, Fake!Skipped, Fake!lent
<1>8. CASE Fake!YieldWait \/ Fake!YieldNoWait
  BY <1>1, <1>8 DEF Fake!YieldWait, Fake!YieldNoWait, Fake!Refused, Fake!Panic, Fake!lent
<1>9. ASSUME NEW d \in Driver, Fake!AddDriver(d) PROVE RecordedHeld'
  BY <1>1, <1>9 DEF Fake!AddDriver, Fake!lent
<1>10. ASSUME NEW e \in Fake!Expectation, Fake!AddExpected(e) PROVE RecordedHeld'
  BY <1>1, <1>10 DEF Fake!AddExpected, Fake!lent
<1>11. CASE Fake!New \/ Fake!DropKernel
  BY <1>2, <1>11 DEF Fake!New, Fake!DropKernel, Fake!Fresh
<1> QED BY <1>5, <1>6, <1>7, <1>8, <1>9, <1>10, <1>11 DEF Fake!Next

(* Both ways together are that the two sets of buffers are the same.       *)
LEMMA RecordsAgree ==
  ASSUME Fake!OneEmpty, DbInv, RecordedHeld, LostRecorded
  PROVE  Fake!DbIsHeld
<1> DEFINE R == {[at |-> a, len |-> db[a]] : a \in DOMAIN db}
           H == ({held[d] : d \in Driver} \ {Fake!Null, Fake!None}) \cup lost
<1>0. Recorded /\ HeldTyped /\ HeldRecorded
  BY DEF DbInv
<1>1. ASSUME NEW d \in Driver, held[d].len > 0
      PROVE  /\ held[d] = [at |-> held[d].at, len |-> held[d].len]
             /\ held[d] # Fake!Null /\ held[d] # Fake!None
  <2>1. held[d] # Fake!Null /\ held[d] # Fake!None
    BY <1>1, BufferNumbers
  <2>2. held[d] \in [at : Nat, len : Nat]
    BY <1>0, <2>1, LibraryAssumption DEF HeldTyped, Fake!FakeAssumption
  <2> QED BY <2>1, <2>2
<1>2. ASSUME NEW d \in Driver, held[d] \notin {Fake!Null, Fake!None} PROVE held[d].len > 0
  <2>1. held[d] \in Buffer
    BY <1>0, <1>2 DEF HeldTyped
  <2> QED BY <1>2, <2>1, BufferNumbers DEF Fake!OneEmpty
<1>a. ASSUME NEW b \in lost PROVE b = [at |-> b.at, len |-> b.len]
  BY LibraryAssumption DEF LostRecorded, Fake!FakeAssumption
<1>3. ASSUME NEW x \in R PROVE x \in H
  <2>1. PICK a \in DOMAIN db : x = [at |-> a, len |-> db[a]]
    OBVIOUS
  <2>2. CASE \E d \in Driver : held[d].at = a /\ held[d].len = db[a]
    <3>1. PICK d \in Driver : held[d].at = a /\ held[d].len = db[a]
      BY <2>2
    <3>2. held[d].len > 0
      BY <1>0, <3>1 DEF Recorded
    <3>3. x = held[d]
      BY <1>1, <2>1, <3>1, <3>2
    <3> QED BY <1>1, <3>2, <3>3
  <2>3. CASE \E b \in lost : b.at = a /\ b.len = db[a]
    BY <1>a, <2>1, <2>3
  <2> QED BY <2>2, <2>3 DEF RecordedHeld
<1>4. ASSUME NEW x \in H PROVE x \in R
  <2>1. CASE x \in lost
    BY <1>a, <2>1 DEF LostRecorded
  <2>2. CASE x \notin lost
    <3>1. PICK d \in Driver : x = held[d] /\ x \notin {Fake!Null, Fake!None}
      BY <2>2
    <3>2. held[d].len > 0
      BY <1>2, <3>1
    <3>3. held[d].at \in DOMAIN db /\ db[held[d].at] = held[d].len
      BY <1>0, <3>2 DEF HeldRecorded
    <3>4. x = [at |-> held[d].at, len |-> db[held[d].at]]
      BY <1>1, <3>1, <3>2, <3>3
    <3> QED BY <3>3, <3>4
  <2> QED BY <2>1, <2>2
<1>5. R = H
  <2> HIDE DEF R, H
  <2> QED BY <1>3, <1>4
<1> QED BY <1>5 DEF Fake!DbIsHeld

(* What AllowDb has on record is what drivers hold and what one that takes *)
(* its buffer has let go of, what waits in the queue is for a driver that  *)
(* is still subscribed, and a call that a test makes fail changes nothing: *)
(* whatever the test and its drivers do, if it lends one empty slice only. *)
THEOREM RecordsStayTrue ==
  ASSUME Fake!OneEmpty
  PROVE  Spec => RecordIsTrue
<1> DEFINE RecordInv == DbInv /\ RecordedHeld /\ LostRecorded /\ QueueTyped /\ CallsTyped
<1>1. Init => RecordInv
  <2> SUFFICES ASSUME Init PROVE RecordInv
    OBVIOUS
  <2>1. /\ db = << >> /\ held = [d \in Driver |-> Fake!None] /\ lost = {}
        /\ queue = << >> /\ expected = << >> /\ kernel = FALSE
    BY DEF Init, Fake!Init
  <2>2. DOMAIN db = {} /\ \A d \in Driver : held[d] = Fake!None
    BY <2>1, FreshHolds
  <2>3. DbInv
    BY <2>1, <2>2, BufferNumbers DEF DbInv, Recorded, HeldTyped, HeldRecorded
  <2>4. RecordedHeld /\ LostRecorded
    BY <2>1, <2>2 DEF RecordedHeld, LostRecorded
  <2>5. QueueTyped
    BY <2>1 DEF QueueTyped, Fake!QueueIsLive
  <2>6. kernel \in BOOLEAN
    BY Zenon, <2>1
  <2>7. CallsTyped
    <3>1. << >> \in Seq(Fake!Expectation)
      OBVIOUS
    <3> QED BY <2>1, <2>6, <3>1 DEF CallsTyped
  <2> QED BY <2>3, <2>4, <2>5, <2>7
<1>2. RecordInv /\ [Next]_vars
        => RecordInv' /\ (UNCHANGED fake \/ Fake!SkippedTouchesNothing)
  <2> SUFFICES ASSUME RecordInv, [Next]_vars
               PROVE  RecordInv' /\ (UNCHANGED fake \/ Fake!SkippedTouchesNothing)
    OBVIOUS
  <2>1. CASE Fake!Next
    BY <2>1, FakeKept, RecordedHeldKept, LostKept, QueueKept, CallsKept, SkippedApart
  <2>2. CASE UNCHANGED fake
    <3>1. UNCHANGED <<kernel, upcalls, queue, db, held, lost, expected>>
      BY <2>2 DEF fake
    <3>2. DbInv' /\ RecordedHeld' /\ LostRecorded'
      BY <3>1 DEF DbInv, Recorded, HeldTyped, HeldRecorded, RecordedHeld, LostRecorded
    <3>3. QueueTyped' /\ CallsTyped'
      BY <3>1 DEF QueueTyped, Fake!QueueIsLive, CallsTyped
    <3> QED BY <2>2, <3>2, <3>3
  <2> QED BY <2>1, <2>2 DEF Next, vars, RingNext, PinsNext, StepperNext, FakeNext,
          FormatterNext, LinesNext, SensorNext, DeviceNext
<1>3. RecordInv' => Fake!DbIsHeld' /\ Fake!QueueIsLive'
  <2>1. RecordInv => Fake!DbIsHeld /\ Fake!QueueIsLive
    BY RecordsAgree DEF QueueTyped
  <2> HIDE DEF RecordInv
  <2> QED BY <2>1, PTL
<1> HIDE DEF RecordInv
<1>4. RecordInv /\ [Next]_vars
        => [Fake!DbIsHeld' /\ Fake!QueueIsLive' /\ Fake!SkippedTouchesNothing]_fake
  BY <1>2, <1>3
<1> QED BY <1>1, <1>2, <1>4, PTL DEF Spec, RecordIsTrue

-----------------------------------------------------------------------------
(***************************************************************************)
(* The stepper example.  Its queue holds at most one upcall of the motor,  *)
(* which says where the motor stands; a movement that ends before it is    *)
(* stopped has made all its steps; and from the press on nothing but the   *)
(* motor's upcall can wake the process.                                    *)
(***************************************************************************)
Queued == 1..Len(edges)
OfMotor(i) == edges[i][1] = "motor"

MotorTyped ==
    /\ running \in BOOLEAN /\ taken \in 0..Steps
    /\ edges \in Seq((Pin \X BOOLEAN) \cup ({"motor"} \X Nat))

(* What the motor's upcall says, and that there is one.                    *)
EndIsTold ==
    /\ \A i \in Queued : OfMotor(i) =>
          edges[i] = <<"motor", taken>> /\ ~running /\ step = "started"
    /\ \A i, j \in Queued : OfMotor(i) /\ OfMotor(j) => i = j
    /\ step = "told" => ~running /\ count = taken

(* A movement that ended by itself is complete.                            *)
EndIsFull ==
    /\ step = "fresh" => ~running /\ taken = 0
    /\ step \in {"started", "told"} /\ ~running /\ reported = -1 => taken = Steps

(* Who has no edge future hears of no edge; it follows the movement.       *)
EdgesAreHeard ==
    /\ press \in {"fresh", "gone"} => ~listener /\ \A i \in Queued : OfMotor(i)
    /\ step = "fresh" => press = "fresh"

(* What main knows where it is.                                            *)
MainIsAt ==
    /\ at \in {"pins", "read", "other"} => step = "fresh"
    /\ at = "poll" => step \in {"fresh", "started", "told"}
    /\ at \in {"pollEdge", "yield", "stop", "await"} => step = "started"
    /\ at = "collect" => step = "told"
    /\ at \in {"stop", "await", "collect"} => press = "gone"
    /\ at \notin {"await", "collect", "over"} => reported = -1
    /\ at \in {"await", "collect"} => ~running /\ reported = taken
    /\ Stepper!CountIsPosition /\ Stepper!LostOnlyAtTheEnd

StopInv == MotorTyped /\ EndIsTold /\ EndIsFull /\ EdgesAreHeard /\ MainIsAt

(* What the queue holds after the edges have left it.                      *)
LEMMA EdgesDropped ==
  ASSUME MotorTyped, Stepper!DropEdges
  PROVE  /\ edges' \in Seq((Pin \X BOOLEAN) \cup ({"motor"} \X Nat))
         /\ \A i \in 1..Len(edges') :
                i = 1 /\ \E k \in Queued : edges'[i] = edges[k] /\ OfMotor(k)
         /\ (\E k \in Queued : OfMotor(k)) => Len(edges') = 1
<1>0. edges \in Seq((Pin \X BOOLEAN) \cup ({"motor"} \X Nat)) /\ DOMAIN edges = Queued
  BY DEF MotorTyped, Queued
<1>1. CASE Stepper!MotorUpcalls = {}
  <2>1. edges' = << >>
    BY <1>1 DEF Stepper!DropEdges
  <2>2. ~ \E k \in Queued : OfMotor(k)
    BY <1>0, <1>1 DEF Stepper!MotorUpcalls, OfMotor
  <2> QED BY <2>1, <2>2
<1>2. CASE Stepper!MotorUpcalls # {}
  <2>1. PICK u \in Stepper!MotorUpcalls : edges' = <<u>>
    BY <1>2 DEF Stepper!DropEdges
  <2>2. PICK k \in Queued : u = edges[k] /\ OfMotor(k)
    BY <1>0, <2>1 DEF Stepper!MotorUpcalls, OfMotor
  <2>3. u \in (Pin \X BOOLEAN) \cup ({"motor"} \X Nat)
    BY <1>0, <2>2 DEF Queued
  <2>4. Len(edges') = 1 /\ edges'[1] = u
    BY <2>1
  <2> QED BY <2>1, <2>2, <2>3, <2>4
<1> QED BY <1>1, <1>2

(* The steps before the movement touch neither motor nor queue.            *)
LEMMA SetupKept ==
  ASSUME StopInv, Stepper!TakePins \/ Stepper!ReadRest \/ Stepper!EnableOther
  PROVE  StopInv'
<1>0. MotorTyped /\ EndIsTold /\ EndIsFull /\ EdgesAreHeard /\ MainIsAt
  BY DEF StopInv
<1>1. /\ UNCHANGED <<running, taken, step, count, press, reported, listener, edges>>
      /\ at \in {"pins", "read", "other"}
      /\ \/ at' \in {"pins", "read", "other", "poll"} /\ outcome' = outcome
         \/ at' = "over" /\ outcome' = -1
  BY DEF Stepper!TakePins, Stepper!ReadRest, Stepper!EnableOther, Stepper!GetPin,
         Stepper!MakeInput, Stepper!EnableInterrupts, Stepper!Return, Stepper!NoCount,
         Stepper!motor, Stepper!futures, Stepper!result, Stepper!gpioVars
<1>2. step = "fresh" /\ ~running /\ taken = 0 /\ reported = -1
  BY <1>0, <1>1 DEF MainIsAt, EndIsFull
<1>3. MotorTyped' /\ EndIsTold' /\ EndIsFull' /\ EdgesAreHeard'
  BY <1>0, <1>1 DEF MotorTyped, EndIsTold, EndIsFull, EdgesAreHeard, Queued, OfMotor
<1>4. MainIsAt'
  BY <1>0, <1>1, <1>2 DEF MainIsAt, Stepper!CountIsPosition, Stepper!LostOnlyAtTheEnd,
                          Stepper!NoCount
<1> QED BY <1>3, <1>4 DEF StopInv

(* A movement that ends tells whoever awaits it, once, where the motor is. *)
LEMMA MovementEnds ==
  ASSUME MotorTyped, EndIsTold, EdgesAreHeard, running, Stepper!Complete,
         UNCHANGED <<taken, step, count, press, listener>>
  PROVE  MotorTyped' /\ EndIsTold' /\ EdgesAreHeard'
<1>0. edges \in Seq((Pin \X BOOLEAN) \cup ({"motor"} \X Nat)) /\ taken \in Nat
  BY LibraryAssumption DEF MotorTyped, Stepper!StepAssumption
<1>1. /\ running' = FALSE /\ step # "told" /\ \A i \in Queued : ~OfMotor(i)
      /\ taken' = taken /\ step' = step /\ count' = count /\ press' = press
      /\ listener' = listener
  BY DEF Stepper!Complete, EndIsTold
<1>2. PICK u : u = <<"motor", taken>>
  OBVIOUS
<1>3. u \in (Pin \X BOOLEAN) \cup ({"motor"} \X Nat) /\ u[1] = "motor"
  BY <1>0, <1>2
<1>4. CASE step = "started"
  <2>1. edges' = Append(edges, u)
    BY <1>2, <1>4 DEF Stepper!Complete
  <2>2. /\ edges' \in Seq((Pin \X BOOLEAN) \cup ({"motor"} \X Nat))
        /\ Len(edges') = Len(edges) + 1 /\ edges'[Len(edges) + 1] = u
        /\ \A i \in Queued : edges'[i] = edges[i]
    BY <1>0, <1>3, <2>1 DEF Queued
  <2>3. Len(edges) \in Nat
    BY <1>0
  <2>4. \A i \in 1..Len(edges') : i \in Queued \/ i = Len(edges) + 1
    BY <2>2, <2>3 DEF Queued
  <2>5. MotorTyped'
    BY <1>1, <2>2 DEF MotorTyped
  <2>6. \A i \in 1..Len(edges') : edges'[i][1] = "motor" => i = Len(edges) + 1
    BY <1>1, <2>2, <2>4 DEF OfMotor
  <2>7. EndIsTold'
    BY <1>1, <1>2, <1>4, <2>2, <2>6 DEF EndIsTold, OfMotor, Queued
  <2>8. EdgesAreHeard'
    BY <1>1, <1>3, <2>2, <2>4 DEF EdgesAreHeard, OfMotor, Queued
  <2> QED BY <2>5, <2>7, <2>8
<1>5. CASE step # "started"
  <2>1. edges' = edges
    BY <1>5 DEF Stepper!Complete
  <2>2. MotorTyped'
    BY <1>1, <2>1 DEF MotorTyped
  <2>3. EndIsTold' /\ EdgesAreHeard'
    BY <1>1, <2>1 DEF EndIsTold, EdgesAreHeard, OfMotor, Queued
  <2> QED BY <2>2, <2>3
<1> QED BY <1>4, <1>5

(* The motor takes a step, or has made them all.                           *)
LEMMA MotorStepKept ==
  ASSUME StopInv, Stepper!MotorStep
  PROVE  StopInv'
<1>0. MotorTyped /\ EndIsTold /\ EndIsFull /\ EdgesAreHeard /\ MainIsAt
  BY DEF StopInv
<1>1. /\ running
      /\ UNCHANGED <<listener, step, count, press, reported, outcome, at>>
  BY DEF Stepper!MotorStep, Stepper!futures, Stepper!result
<1>2. at \notin {"await", "collect", "over"} /\ step \notin {"fresh", "told"}
      /\ \A i \in Queued : ~OfMotor(i)
  BY <1>0, <1>1 DEF MainIsAt, EndIsTold, EndIsFull, Stepper!CountIsPosition
<1>3. MainIsAt'
  BY <1>0, <1>1, <1>2 DEF MainIsAt, Stepper!CountIsPosition, Stepper!LostOnlyAtTheEnd
<1>4. CASE taken < Steps /\ taken' = taken + 1 /\ UNCHANGED <<running, edges>>
  <2>1. Steps \in Nat
    BY LibraryAssumption DEF Stepper!StepAssumption
  <2>2. MotorTyped'
    BY <1>0, <1>4, <2>1 DEF MotorTyped
  <2>3. EndIsTold' /\ EndIsFull' /\ EdgesAreHeard'
    BY <1>0, <1>1, <1>2, <1>4 DEF EndIsTold, EndIsFull, EdgesAreHeard, Queued, OfMotor
  <2> QED BY <1>3, <2>2, <2>3 DEF StopInv
<1>5. CASE taken = Steps /\ UNCHANGED taken /\ Stepper!Complete
  <2>1. MotorTyped' /\ EndIsTold' /\ EdgesAreHeard'
    BY <1>0, <1>1, <1>5, MovementEnds
  <2>2. EndIsFull'
    BY <1>1, <1>2, <1>5 DEF EndIsFull
  <2> QED BY <1>3, <2>1, <2>2 DEF StopInv
<1> QED BY <1>4, <1>5 DEF Stepper!MotorStep

(* A button reports to whoever listens, and is not the motor.              *)
LEMMA PressKept ==
  ASSUME StopInv, Stepper!Press
  PROVE  StopInv'
<1>0. MotorTyped /\ EndIsTold /\ EndIsFull /\ EdgesAreHeard /\ MainIsAt
  BY DEF StopInv
<1>1. UNCHANGED <<running, taken, step, count, press, reported, outcome, at, listener>>
  BY DEF Stepper!Press, Stepper!SetValue, Stepper!motor, Stepper!futures, Stepper!result
<1>2. MainIsAt' /\ EndIsFull'
  BY <1>0, <1>1 DEF MainIsAt, EndIsFull, Stepper!CountIsPosition, Stepper!LostOnlyAtTheEnd
<1>3. PICK p \in {p1, p2}, v \in BOOLEAN :
        edges' = edges \/ (edges' = Append(edges, <<p, v>>) /\ listener)
  BY DEF Stepper!Press, Stepper!SetValue
<1>4. CASE edges' = edges
  BY <1>0, <1>1, <1>2, <1>4
     DEF StopInv, MotorTyped, EndIsTold, EdgesAreHeard, Queued, OfMotor
<1>5. CASE edges' = Append(edges, <<p, v>>) /\ listener
  <2>1. p \in Pin /\ p # "motor"
    BY LibraryAssumption DEF Stepper!StepAssumption
  <2>a. <<p, v>> \in Pin \X BOOLEAN /\ <<p, v>>[1] = p
    BY <2>1
  <2>2. PICK u \in Pin \X BOOLEAN : u = <<p, v>> /\ u[1] # "motor"
    BY <2>1, <2>a
  <2>3. edges \in Seq((Pin \X BOOLEAN) \cup ({"motor"} \X Nat))
    BY <1>0 DEF MotorTyped
  <2>4. /\ edges' \in Seq((Pin \X BOOLEAN) \cup ({"motor"} \X Nat))
        /\ Len(edges') = Len(edges) + 1 /\ edges'[Len(edges) + 1] = u
        /\ \A i \in Queued : edges'[i] = edges[i]
    BY <1>5, <2>2, <2>3 DEF Queued
  <2>5. \A i \in 1..Len(edges') : i \in Queued \/ i = Len(edges) + 1
    BY <2>3, <2>4 DEF Queued
  <2>6. \A i \in 1..Len(edges') : edges'[i][1] = "motor" => OfMotor(i) /\ i \in Queued
    BY <2>2, <2>4, <2>5 DEF OfMotor
  <2>7. MotorTyped'
    BY <1>0, <1>1, <2>4 DEF MotorTyped
  <2>8. EndIsTold'
    BY <1>0, <1>1, <2>4, <2>6 DEF EndIsTold, OfMotor, Queued
  <2>9. EdgesAreHeard'
    BY <1>0, <1>1, <1>5 DEF EdgesAreHeard
  <2> QED BY <1>2, <2>7, <2>8, <2>9 DEF StopInv
<1> QED BY <1>3, <1>4, <1>5

(* A poll of the movement starts it, passes it, or ends the select.        *)
LEMMA PollStepKept ==
  ASSUME StopInv, Stepper!PollStep
  PROVE  StopInv'
<1>0. MotorTyped /\ EndIsTold /\ EndIsFull /\ EdgesAreHeard /\ MainIsAt /\ at = "poll"
  BY DEF StopInv, Stepper!PollStep
<1>1. reported = -1 /\ taken \in 0..Steps /\ Steps \in Nat
  BY <1>0, LibraryAssumption DEF MainIsAt, MotorTyped, Stepper!StepAssumption
<1>2. CASE /\ step = "fresh" /\ running' = TRUE /\ step' = "started" /\ at' = "pollEdge"
           /\ UNCHANGED <<edges, listener, taken, count, press, reported, outcome>>
  <2>1. \A i \in Queued : ~OfMotor(i)
    BY <1>0, <1>2 DEF EndIsTold
  <2>2. MotorTyped' /\ EndIsFull' /\ EdgesAreHeard'
    BY <1>0, <1>2 DEF MotorTyped, EndIsFull, EdgesAreHeard, Queued, OfMotor
  <2>3. EndIsTold'
    BY <1>2, <2>1 DEF EndIsTold, Queued, OfMotor
  <2>4. MainIsAt'
    BY <1>1, <1>2 DEF MainIsAt, Stepper!CountIsPosition, Stepper!LostOnlyAtTheEnd
  <2> QED BY <2>2, <2>3, <2>4 DEF StopInv
<1>3. CASE /\ step = "fresh" /\ step' = "gone" /\ press' = "gone"
           /\ at' = "over" /\ outcome' = -1
           /\ UNCHANGED <<edges, listener, running, taken, count, reported>>
  <2>1. \A i \in Queued : ~OfMotor(i)
    BY <1>0, <1>3 DEF EndIsTold
  <2>2. ~running /\ taken = 0
    BY <1>0, <1>3 DEF EndIsFull
  <2>3. MotorTyped' /\ EndIsFull' /\ EndIsTold'
    BY <1>0, <1>3, <2>1 DEF MotorTyped, EndIsFull, EndIsTold, Queued, OfMotor
  <2>4. MainIsAt'
    BY <1>1, <1>3, <2>2
       DEF MainIsAt, Stepper!CountIsPosition, Stepper!LostOnlyAtTheEnd, Stepper!NoCount
  <2>5. EdgesAreHeard'
    BY <1>0, <1>3 DEF EdgesAreHeard, Queued, OfMotor
  <2> QED BY <2>3, <2>4, <2>5 DEF StopInv
<1>4. CASE /\ step = "started" /\ at' = "pollEdge"
           /\ UNCHANGED <<edges, listener, running, taken, step, count, press, reported,
                          outcome>>
  <2>1. MotorTyped' /\ EndIsFull' /\ EdgesAreHeard' /\ EndIsTold'
    BY <1>0, <1>4 DEF MotorTyped, EndIsFull, EdgesAreHeard, EndIsTold, Queued, OfMotor
  <2>2. MainIsAt'
    BY <1>1, <1>4 DEF MainIsAt, Stepper!CountIsPosition, Stepper!LostOnlyAtTheEnd
  <2> QED BY <2>1, <2>2 DEF StopInv
<1>5. CASE /\ step = "told" /\ step' = "gone" /\ press' = "gone"
           /\ at' = "over" /\ outcome' = count /\ listener' = FALSE /\ Stepper!DropEdges
           /\ UNCHANGED <<running, taken, count, reported>>
  <2>1. ~running /\ count = taken /\ taken = Steps
    BY <1>0, <1>1, <1>5 DEF EndIsTold, EndIsFull
  <2>2. ~ \E k \in Queued : OfMotor(k)
    BY <1>0, <1>5 DEF EndIsTold
  <2>3. /\ edges' \in Seq((Pin \X BOOLEAN) \cup ({"motor"} \X Nat))
        /\ ~ \E i \in 1..Len(edges') : TRUE
    BY <1>0, <1>5, <2>2, EdgesDropped
  <2>4. MotorTyped' /\ EndIsFull' /\ EdgesAreHeard' /\ EndIsTold'
    BY <1>0, <1>5, <2>3 DEF MotorTyped, EndIsFull, EdgesAreHeard, EndIsTold, Queued, OfMotor
  <2>5. MainIsAt'
    BY <1>1, <1>5, <2>1
       DEF MainIsAt, Stepper!CountIsPosition, Stepper!LostOnlyAtTheEnd, Stepper!NoCount
  <2> QED BY <2>4, <2>5 DEF StopInv
<1> QED BY <1>2, <1>3, <1>4, <1>5
        DEF Stepper!PollStep, Stepper!Return, Stepper!NoCount, Stepper!gpioVars,
            Stepper!motor, Stepper!futures, Stepper!result

(* A poll of the edge listens, waits, or ends the select with its queue.   *)
LEMMA PollEdgeKept ==
  ASSUME StopInv, Stepper!PollEdge
  PROVE  StopInv'
<1>0. /\ MotorTyped /\ EndIsTold /\ EndIsFull /\ EdgesAreHeard /\ MainIsAt
      /\ at = "pollEdge"
      /\ UNCHANGED <<running, taken, step, count, reported, outcome>>
  BY DEF StopInv, Stepper!PollEdge, Stepper!motor, Stepper!result
<1>1. reported = -1 /\ step = "started"
  BY <1>0 DEF MainIsAt
<1>2. EndIsFull'
  BY <1>0 DEF EndIsFull
<1>3. CASE press' = "started" /\ at' = "yield" /\ UNCHANGED edges
  <2>1. press' = "started"
    BY <1>3
  <2>2. MotorTyped' /\ EdgesAreHeard' /\ EndIsTold'
    BY <1>0, <1>1, <1>3, <2>1 DEF MotorTyped, EdgesAreHeard, EndIsTold, Queued, OfMotor
  <2>3. MainIsAt'
    BY <1>0, <1>1, <1>3 DEF MainIsAt, Stepper!CountIsPosition, Stepper!LostOnlyAtTheEnd
  <2> QED BY <1>2, <2>2, <2>3 DEF StopInv
<1>4. CASE press = "fresh" /\ press' = "gone" /\ at' = "stop" /\ UNCHANGED <<listener, edges>>
  <2>1. MotorTyped' /\ EdgesAreHeard' /\ EndIsTold'
    BY <1>0, <1>1, <1>4 DEF MotorTyped, EdgesAreHeard, EndIsTold, Queued, OfMotor
  <2>2. MainIsAt'
    BY <1>0, <1>1, <1>4 DEF MainIsAt, Stepper!CountIsPosition, Stepper!LostOnlyAtTheEnd
  <2> QED BY <1>2, <2>1, <2>2 DEF StopInv
<1>5. CASE /\ listener' = FALSE /\ Stepper!DropEdges /\ press' = "gone" /\ at' = "stop"
  <2>1. /\ edges' \in Seq((Pin \X BOOLEAN) \cup ({"motor"} \X Nat))
        /\ \A i \in 1..Len(edges') :
              i = 1 /\ \E k \in Queued : edges'[i] = edges[k] /\ OfMotor(k)
    BY <1>0, <1>5, EdgesDropped
  <2>2. \A i \in 1..Len(edges') : i = 1 /\ edges'[i][1] = "motor"
           /\ edges'[i] = <<"motor", taken>> /\ ~running
    BY <1>0, <2>1 DEF EndIsTold, OfMotor
  <2>3. MotorTyped' /\ EdgesAreHeard'
    BY <1>0, <1>1, <1>5, <2>1, <2>2 DEF MotorTyped, EdgesAreHeard, Queued, OfMotor
  <2>4. EndIsTold'
    BY <1>0, <1>1, <2>2 DEF EndIsTold, Queued, OfMotor
  <2>5. MainIsAt'
    BY <1>0, <1>1, <1>5 DEF MainIsAt, Stepper!CountIsPosition, Stepper!LostOnlyAtTheEnd
  <2> QED BY <1>2, <2>3, <2>4, <2>5 DEF StopInv
<1>6. \/ press' = "started" /\ at' = "yield" /\ UNCHANGED edges
      \/ press = "fresh" /\ press' = "gone" /\ at' = "stop" /\ UNCHANGED <<listener, edges>>
      \/ listener' = FALSE /\ Stepper!DropEdges /\ press' = "gone" /\ at' = "stop"
  BY DEF Stepper!PollEdge
<1> QED BY <1>3, <1>4, <1>5, <1>6

(* What wakes the process is stored in the future it is for.               *)
LEMMA YieldKept ==
  ASSUME StopInv, Stepper!YieldWait
  PROVE  StopInv'
<1>0. /\ MotorTyped /\ EndIsTold /\ EndIsFull /\ EdgesAreHeard /\ MainIsAt
      /\ at \in {"yield", "await"} /\ edges # << >> /\ edges' = Tail(edges)
      /\ UNCHANGED <<listener, running, taken, reported, outcome>>
      /\ at' = IF at = "yield" THEN "poll" ELSE "collect"
  BY DEF StopInv, Stepper!YieldWait, Stepper!motor, Stepper!result
<1>1. step = "started" /\ (at = "yield" => reported = -1)
  BY <1>0 DEF MainIsAt
<1>2. edges \in Seq((Pin \X BOOLEAN) \cup ({"motor"} \X Nat)) /\ 1 \in Queued
  BY <1>0 DEF MotorTyped, Queued
<1>3. /\ Head(edges) = edges[1]
      /\ edges' \in Seq((Pin \X BOOLEAN) \cup ({"motor"} \X Nat))
      /\ \A i \in 1..Len(edges') : i + 1 \in Queued /\ edges'[i] = edges[i + 1]
                                  /\ i \in Nat /\ i + 1 # 1
  BY <1>0, <1>2 DEF Queued
<1>4. MotorTyped'
  BY <1>0, <1>3 DEF MotorTyped
<1>5. CASE OfMotor(1)
  <2>1. step' = "told" /\ count' = edges[1][2] /\ UNCHANGED press
    BY <1>3, <1>5 DEF Stepper!YieldWait, OfMotor
  <2>2. edges[1] = <<"motor", taken>> /\ ~running
    BY <1>0, <1>2, <1>5 DEF EndIsTold
  <2>3. count' = taken
    BY <2>1, <2>2
  <2>4. \A i \in 1..Len(edges') : edges'[i][1] # "motor"
    BY <1>0, <1>2, <1>3, <1>5 DEF EndIsTold, OfMotor
  <2>5. EndIsTold'
    BY <1>0, <2>1, <2>2, <2>3, <2>4 DEF EndIsTold, OfMotor, Queued
  <2>6. EndIsFull'
    BY <1>0, <1>1, <2>1, <2>2 DEF EndIsFull
  <2>7. EdgesAreHeard'
    BY <1>0, <1>3, <2>1 DEF EdgesAreHeard, OfMotor, Queued
  <2>8. MainIsAt'
    BY <1>0, <1>1, <2>1 DEF MainIsAt, Stepper!CountIsPosition, Stepper!LostOnlyAtTheEnd
  <2> QED BY <1>4, <2>5, <2>6, <2>7, <2>8 DEF StopInv
<1>6. CASE ~OfMotor(1)
  <2>1. press' = "told" /\ UNCHANGED <<step, count>>
    BY <1>3, <1>6 DEF Stepper!YieldWait, OfMotor
  <2>2. at = "yield"
    BY <1>0, <1>2, <1>6 DEF MainIsAt, EdgesAreHeard
  <2>3. EndIsTold'
    <3>1. \A i \in 1..Len(edges') : edges'[i][1] = "motor" => OfMotor(i + 1)
      BY <1>3 DEF OfMotor
    <3>2. \A i \in 1..Len(edges') : edges'[i][1] = "motor" =>
             edges'[i] = <<"motor", taken>> /\ ~running
      BY <1>0, <1>3, <3>1 DEF EndIsTold
    <3>3. \A i, j \in 1..Len(edges') :
             edges'[i][1] = "motor" /\ edges'[j][1] = "motor" => i + 1 = j + 1
      BY <1>0, <1>3, <3>1 DEF EndIsTold
    <3>4. \A i, j \in 1..Len(edges') : i + 1 = j + 1 => i = j
      BY <1>3
    <3> QED BY <1>0, <1>1, <2>1, <3>2, <3>3, <3>4 DEF EndIsTold, OfMotor, Queued
  <2>4. EndIsFull' /\ EdgesAreHeard'
    BY <1>0, <1>1, <2>1 DEF EndIsFull, EdgesAreHeard
  <2>5. MainIsAt'
    BY <1>0, <1>1, <2>1, <2>2
       DEF MainIsAt, Stepper!CountIsPosition, Stepper!LostOnlyAtTheEnd
  <2> QED BY <1>4, <2>3, <2>4, <2>5 DEF StopInv
<1> QED BY <1>5, <1>6

(* A stop is told what the upcall says as well, or finds the movement over.*)
LEMMA StopMotorKept ==
  ASSUME StopInv, Stepper!StopMotor
  PROVE  StopInv'
<1>0. /\ MotorTyped /\ EndIsTold /\ EndIsFull /\ EdgesAreHeard /\ MainIsAt /\ at = "stop"
      /\ UNCHANGED <<listener, count, press>>
  BY DEF StopInv, Stepper!StopMotor
<1>1. reported = -1 /\ step = "started" /\ press = "gone"
  BY <1>0 DEF MainIsAt
<1>t. taken \in Nat
  BY <1>0, LibraryAssumption DEF MotorTyped, Stepper!StepAssumption
<1>2. CASE /\ running /\ UNCHANGED taken /\ Stepper!Complete /\ reported' = taken
           /\ at' = "await" /\ UNCHANGED <<step, outcome>>
  <2>1. MotorTyped' /\ EndIsTold' /\ EdgesAreHeard'
    BY <1>0, <1>2, MovementEnds
  <2>2. running' = FALSE
    BY <1>2 DEF Stepper!Complete
  <2>3. EndIsFull' /\ MainIsAt'
    BY <1>0, <1>1, <1>2, <1>t, <2>2
       DEF EndIsFull, MainIsAt, Stepper!CountIsPosition, Stepper!LostOnlyAtTheEnd
  <2> QED BY <2>1, <2>3 DEF StopInv
<1>3. CASE /\ ~running /\ step' = "gone" /\ edges' = << >> /\ at' = "over"
           /\ outcome' = -1 /\ UNCHANGED <<reported, running, taken>>
  <2>1. taken = Steps
    BY <1>0, <1>1, <1>3 DEF EndIsFull
  <2>2. edges' \in Seq((Pin \X BOOLEAN) \cup ({"motor"} \X Nat)) /\ Len(edges') = 0
    BY <1>3
  <2>3. MotorTyped' /\ EndIsTold' /\ EdgesAreHeard' /\ EndIsFull'
    BY <1>0, <1>3, <2>2 DEF MotorTyped, EndIsTold, EdgesAreHeard, EndIsFull, Queued, OfMotor
  <2>4. MainIsAt'
    BY <1>0, <1>1, <1>3, <2>1
       DEF MainIsAt, Stepper!CountIsPosition, Stepper!LostOnlyAtTheEnd, Stepper!NoCount
  <2> QED BY <2>3, <2>4 DEF StopInv
<1> QED BY <1>2, <1>3 DEF Stepper!StopMotor, Stepper!Return, Stepper!NoCount, Stepper!motor

(* The count is collected, and main returns.                               *)
LEMMA EndKept ==
  ASSUME StopInv, Stepper!Collect \/ Stepper!LeaveMain
  PROVE  StopInv'
<1>0. /\ MotorTyped /\ EndIsTold /\ EndIsFull /\ EdgesAreHeard /\ MainIsAt
      /\ UNCHANGED <<listener, edges, running, taken, count, press, reported>>
  BY DEF StopInv, Stepper!Collect, Stepper!LeaveMain, Stepper!DropView, Stepper!DropPin,
         Stepper!gpioVars, Stepper!motor, Stepper!futures, Stepper!result
<1>1. CASE Stepper!Collect
  <2>1. /\ at = "collect" /\ at' = "over" /\ outcome' = count /\ step' = "gone"
        /\ step = "told" /\ count = taken /\ ~running /\ reported = taken /\ taken \in Nat
    BY <1>0, <1>1, LibraryAssumption
       DEF Stepper!Collect, MainIsAt, EndIsTold, MotorTyped, Stepper!StepAssumption
  <2>2. \A i \in Queued : ~OfMotor(i)
    BY <1>0, <2>1 DEF EndIsTold
  <2>3. MotorTyped' /\ EndIsTold' /\ EdgesAreHeard' /\ EndIsFull'
    BY <1>0, <2>1, <2>2
       DEF MotorTyped, EndIsTold, EdgesAreHeard, EndIsFull, Queued, OfMotor
  <2>4. MainIsAt'
    BY <1>0, <2>1 DEF MainIsAt, Stepper!CountIsPosition, Stepper!LostOnlyAtTheEnd,
                      Stepper!NoCount
  <2> QED BY <2>3, <2>4 DEF StopInv
<1>2. CASE Stepper!LeaveMain
  <2>1. UNCHANGED <<at, step, outcome>>
    BY <1>2 DEF Stepper!LeaveMain, Stepper!futures, Stepper!result
  <2> QED BY <1>0, <2>1
          DEF StopInv, MotorTyped, EndIsTold, EdgesAreHeard, EndIsFull, Queued, OfMotor,
              MainIsAt, Stepper!CountIsPosition, Stepper!LostOnlyAtTheEnd
<1> QED BY <1>1, <1>2

(* However long the movement is and whenever a button is pressed: main     *)
(* reports where the motor stands, by both routes, and it loses the count  *)
(* only to a press that comes as the movement ends.                        *)
THEOREM StopTellsPosition == Spec => []StopKeepsCount
<1> DEFINE I == part = "stepper" => StopInv
<1>1. Init => I
  <2> SUFFICES ASSUME Init, part = "stepper" PROVE StopInv
    OBVIOUS
  <2>1. /\ running = FALSE /\ taken = 0 /\ step = "fresh" /\ count = -1 /\ press = "fresh"
        /\ reported = -1 /\ outcome = -1 /\ at = "pins"
        /\ edges = << >> /\ listener = FALSE
    BY DEF Init, Stepper!Init
  <2>2. edges \in Seq((Pin \X BOOLEAN) \cup ({"motor"} \X Nat)) /\ Len(edges) = 0
        /\ Steps \in Nat
    BY <2>1, LibraryAssumption DEF Stepper!StepAssumption
  <2>a. MotorTyped
    <3>1. running = FALSE /\ taken = 0 /\ Steps \in Nat
      BY <2>1, <2>2
    <3>2. edges \in Seq((Pin \X BOOLEAN) \cup ({"motor"} \X Nat))
      BY <2>2
    <3>3. running \in BOOLEAN
      BY <3>1, Zenon
    <3>4. taken \in 0..Steps
      BY <3>1
    <3> QED BY <3>2, <3>3, <3>4 DEF MotorTyped
  <2>b. \A i \in Queued : FALSE
    BY <2>2 DEF Queued
  <2>3. MotorTyped /\ EndIsTold /\ EndIsFull /\ EdgesAreHeard
    BY <2>1, <2>a, <2>b DEF EndIsTold, EndIsFull, EdgesAreHeard
  <2>4. MainIsAt
    BY <2>1 DEF MainIsAt, Stepper!CountIsPosition, Stepper!LostOnlyAtTheEnd
  <2> QED BY <2>3, <2>4 DEF StopInv
<1>2. I /\ [Next]_vars => I'
  <2>1. ASSUME I, StepperNext PROVE I'
    <3>1. part = "stepper" /\ part' = part /\ Stepper!StepNext /\ StopInv
      BY <2>1 DEF StepperNext
    <3>2. StopInv'
      BY <3>1, SetupKept, MotorStepKept, PressKept, PollStepKept, PollEdgeKept, YieldKept,
         StopMotorKept, EndKept DEF Stepper!StepNext, Stepper!Main
    <3> QED BY <3>2
  <2>2. ASSUME I, [Next]_vars, ~StepperNext PROVE I'
    <3>1. part' = part
      BY <2>2 DEF Next, vars, RingNext, PinsNext, FakeNext, FormatterNext, LinesNext,
            SensorNext, DeviceNext
    <3>2. part = "stepper" => UNCHANGED <<gpio, stepper, at>>
      BY <2>2 DEF Next, vars, RingNext, PinsNext, FakeNext, FormatterNext, LinesNext,
            SensorNext, DeviceNext
    <3>3. ASSUME UNCHANGED <<gpio, stepper, at>>, StopInv PROVE StopInv'
      BY <3>3 DEF gpio, stepper, StopInv, MotorTyped, EndIsTold, EdgesAreHeard, EndIsFull,
            Queued, OfMotor, MainIsAt, Stepper!CountIsPosition, Stepper!LostOnlyAtTheEnd
    <3> QED BY <2>2, <3>1, <3>2, <3>3
  <2> QED BY <2>1, <2>2
<1>3. I => StopKeepsCount
  BY DEF StopKeepsCount, StopInv, MainIsAt
<1> QED BY <1>1, <1>2, <1>3, PTL DEF Spec

-----------------------------------------------------------------------------
(***************************************************************************)
(* Products and quotients of naturals, as the two parts below use them.    *)
(***************************************************************************)
(* A product of naturals grows with its factors.                           *)
LEMMA ProductGrows ==
  ASSUME NEW a \in Nat, NEW b \in Nat, NEW c \in Nat, NEW d \in Nat, a <= b, c <= d
  PROVE  a * c \in Nat /\ a * c <= b * d
<1>1. PICK x \in Nat : b = a + x
  <2>1. b - a \in Nat /\ b = a + (b - a)
    OBVIOUS
  <2> QED BY <2>1
<1>2. PICK y \in Nat : d = c + y
  <2>1. d - c \in Nat /\ d = c + (d - c)
    OBVIOUS
  <2> QED BY <2>1
<1>3. a * c \in Nat /\ a * y \in Nat /\ x * c \in Nat /\ x * y \in Nat
  BY SMT
<1>4. b * d = a * c + a * y + x * c + x * y
  BY <1>1, <1>2
<1> QED BY <1>3, <1>4

(* What a division leaves.                                                 *)
LEMMA Divides ==
  ASSUME NEW a \in Nat, NEW b \in Nat \ {0}
  PROVE  /\ a \div b \in Nat /\ a % b \in 0..(b - 1)
         /\ b * (a \div b) \in Nat /\ a = b * (a \div b) + (a % b)
<1>1. a \div b \in Int /\ a % b \in 0..(b - 1) /\ a = b * (a \div b) + (a % b)
  <2>1. a \div b \in Int
    BY SMT
  <2>2. a % b \in 0..(b - 1)
    BY SMT
  <2>3. a = b * (a \div b) + (a % b)
    BY SMT
  <2> QED BY <2>1, <2>2, <2>3
<1>2. PICK q \in Int : q = a \div b
  BY <1>1
<1>3. PICK r \in 0..(b - 1) : r = a % b
  BY <1>1
<1>4. a = b * q + r
  BY <1>1, <1>2, <1>3
<1>5. q >= 0
  <2>1. CASE q <= -1
    <3>1. b * q <= -b
      BY <2>1
    <3> QED BY <1>3, <1>4, <3>1
  <2> QED BY <2>1
<1>6. b * q \in Nat
  BY <1>5
<1> QED BY <1>1, <1>2, <1>5, <1>6

(* And that nothing else is left by it.                                    *)
LEMMA DividesOnly ==
  ASSUME NEW b \in Nat \ {0}, NEW q \in Int, NEW r \in 0..(b - 1), NEW a \in Int,
         a = b * q + r
  PROVE  a \div b = q /\ a % b = r
<1>1. PICK k \in Int : k = a \div b
  OBVIOUS
<1>2. PICK s \in 0..(b - 1) : s = a % b
  OBVIOUS
<1>3. a = b * k + s
  BY <1>1, <1>2
<1>4. b * (q - k) = s - r
  BY <1>3
<1>5. PICK e \in Int : e = q - k
  OBVIOUS
<1>6. b * e = s - r /\ s - r < b /\ s - r > -b
  BY <1>2, <1>4, <1>5
<1>7. e = 0
  <2>1. CASE e >= 1
    <3>1. b * e >= b
      BY <2>1
    <3> QED BY <1>6, <3>1
  <2>2. CASE e <= -1
    <3>1. b * e <= -b
      BY <2>2
    <3> QED BY <1>6, <3>1
  <2> QED BY <2>1, <2>2
<1>8. q = k
  BY <1>5, <1>7
<1> QED BY <1>1, <1>2, <1>3, <1>8

-----------------------------------------------------------------------------
(* Rounding up covers what is divided, and no more than that.              *)
LEMMA CeilingCovers ==
  ASSUME NEW p \in Nat, NEW k \in Nat \ {0}, NEW ticks, ticks = Alarms!div_ceil(p, k)
  PROVE  ticks \in Nat /\ ticks * k >= p /\ (ticks - 1) * k < p
<1>1. PICK q \in Nat : q = p \div k
  BY Divides
<1>2. PICK r \in 0..(k - 1) : r = p % k
  BY Divides
<1>3. p = k * q + r
  BY <1>1, <1>2, Divides
<1>4. ticks = IF r = 0 THEN q ELSE q + 1
  BY <1>1, <1>2 DEF Alarms!div_ceil
<1>5. q * k = k * q /\ (q + 1) * k = k * q + k /\ (q - 1) * k = k * q - k
  OBVIOUS
<1> QED BY <1>3, <1>4, <1>5

(* A clock of whole ticks a millisecond does not run slow.                 *)
LEMMA ClockIsFast ==
  ASSUME NEW t \in Nat, NEW f \in Nat, NEW k \in Nat \ {0}, f >= k
  PROVE  ((t \div (f \div k)) + 1) * f > t * k
<1>1. PICK d \in Nat : d = f \div k
  BY Divides
<1>2. PICK r \in 0..(k - 1) : r = f % k
  BY Divides
<1>3. f = k * d + r
  BY <1>1, <1>2, Divides
<1>4. d # 0
  BY <1>2, <1>3
<1>5. PICK m \in Nat : m = t \div d
  BY <1>4, Divides
<1>6. PICK s \in 0..(d - 1) : s = t % d
  BY <1>4, Divides
<1>7. t = d * m + s
  BY <1>4, <1>5, <1>6, Divides
(* Both sides counted in whole ticks a millisecond.                        *)
<1>8. (m + 1) * (k * d) <= (m + 1) * f
  <2>1. k * d \in Nat /\ k * d <= f
    BY <1>2, <1>3
  <2> QED BY <2>1, ProductGrows
<1>9. t + 1 <= d * (m + 1)
  BY <1>6, <1>7
<1>10. (t + 1) * k <= (d * (m + 1)) * k
  <2>1. PICK x \in Nat : x = d * (m + 1)
    BY ProductGrows
  <2>2. (t + 1) * k <= x * k
    BY <1>9, <2>1, ProductGrows
  <2> QED BY <2>1, <2>2
<1>11. (d * (m + 1)) * k = (m + 1) * (k * d)
  OBVIOUS
<1>12. (t + 1) * k = t * k + k
  OBVIOUS
<1>13. t * k < (m + 1) * f
  <2>1. PICK x \in Int : x = (d * (m + 1)) * k
    OBVIOUS
  <2>2. PICK y \in Int : y = t * k
    OBVIOUS
  <2>3. PICK z \in Int : z = (m + 1) * f
    OBVIOUS
  <2> QED BY <1>8, <1>10, <1>11, <1>12, <2>1, <2>2, <2>3
<1> QED BY <1>1, <1>5, <1>13

(* The times of every alarm.                                               *)
LEMMA TimesKept ==
  ASSUME app.time \in Alarms!U32, app.freq \in Alarms!U32
  PROVE  Alarms!TimeIsKept
<1>0. /\ app.time \in Nat /\ app.freq \in Nat
      /\ Thousand \in Nat \ {0} /\ MaxTicks \in Nat
  BY LibraryAssumption DEF Alarms!U32, Alarms!AlarmAssumption
<1>1. PICK t \in Nat : t = app.time
  BY <1>0
<1>2. PICK f \in Nat : f = app.freq
  BY <1>0
<1>3. PICK k \in Nat \ {0} : k = Thousand
  BY <1>0
<1>4. ASSUME t * f <= MaxTicks
      PROVE  /\ Alarms!to_ticks(t, f) * k >= t * f
             /\ (Alarms!to_ticks(t, f) - 1) * k < t * f
  <2>1. PICK p \in Nat : p = t * f
    BY ProductGrows
  <2>2. Alarms!to_ticks(t, f) = Alarms!div_ceil(p, k)
    BY <1>0, <1>3, <1>4, <2>1 DEF Alarms!to_ticks, Alarms!saturating_mul
  <2> QED BY <2>1, <2>2, CeilingCovers
<1>5. ASSUME f >= k PROVE (Alarms!get_milliseconds(t, f) + 1) * f > t * k
  BY <1>3, <1>5, ClockIsFast DEF Alarms!get_milliseconds
<1> QED BY <1>1, <1>2, <1>3, <1>4, <1>5 DEF Alarms!TimeIsKept

-----------------------------------------------------------------------------
(* A long word travels as two and comes back whole.                        *)
LEMMA LongTravels ==
  ASSUME NEW a \in Answers!Long
  PROVE  Answers!u64(Answers!low(a), Answers!high(a)) = a
<1>1. Answers!Base \in Nat \ {0}
  BY LibraryAssumption DEF Answers!Base, Answers!AnswerAssumption
<1>2. PICK b \in Nat \ {0} : b = Answers!Base
  BY <1>1
<1>3. a \in Nat
  <2>1. PICK m \in Int : m = b * b - 1
    OBVIOUS
  <2> QED BY <1>2, <2>1 DEF Answers!Long
<1>4. a = b * (a \div b) + (a % b) /\ a \div b \in Nat /\ a % b \in Nat
  <2>1. a = b * (a \div b) + (a % b) /\ a \div b \in Nat /\ a % b \in 0..(b - 1)
    BY <1>3, Divides
  <2>2. \A r \in 0..(b - 1) : r \in Nat
    OBVIOUS
  <2> QED BY <2>1, <2>2, Zenon
<1>5. PICK q \in Nat : q = a \div b
  BY <1>4
<1>6. b * q = q * b
  OBVIOUS
<1>7. Answers!u64(Answers!low(a), Answers!high(a)) = (a % b) + q * b
  BY <1>2, <1>5 DEF Answers!u64, Answers!low, Answers!high
<1>8. PICK r \in Nat : r = a % b
  BY <1>4
<1> QED BY <1>4, <1>5, <1>6, <1>7, <1>8

(* What is read of the registers that were built, in its own type.         *)
OwnRead ==
    LET c == Answers!Built(app) IN
    /\ c.variant = app.variant /\ app.variant \in Answers!Failures \cup Answers!Successes
    /\ app.variant \in Answers!Failures =>
          /\ c.r1 = app.code /\ c.r1 \in Answers!Codes
          /\ Answers!FailureData(app.variant, c.r2, c.r3) = app.data
    /\ app.variant \in Answers!Successes =>
          Answers!SuccessData(app.variant, c.r1, c.r2, c.r3) = app.data

(* Every answer the libraries build is read so.                            *)
LEMMA OwnIsRead == Answers!Init => OwnRead
<1> SUFFICES ASSUME Answers!Init PROVE OwnRead
  OBVIOUS
<1> USE DEF Answers!FAILURE, Answers!FAILURE_U32, Answers!FAILURE_2_U32, Answers!FAILURE_U64,
            Answers!SUCCESS, Answers!SUCCESS_U32, Answers!SUCCESS_2_U32, Answers!SUCCESS_U64,
            Answers!SUCCESS_3_U32, Answers!SUCCESS_U32_U64, Answers!Failures,
            Answers!Successes, Answers!Answer
<1>1. CASE app \in {Answers!Answer(Answers!FAILURE, e, << >>) :
                    e \in Answers!Codes}
  <2>1. PICK e \in Answers!Codes : app = Answers!Answer(0, e, << >>)
    BY <1>1
  <2>2. Answers!Built(app) = Answers!Raw(0, e, 0, 0)
    BY <2>1 DEF Answers!Built
  <2> QED BY <2>1, <2>2 DEF OwnRead, Answers!Raw, Answers!FailureData
<1>2. CASE app \in {Answers!Answer(Answers!FAILURE_U32, e, <<a>>) :
                    e \in Answers!Codes, a \in Answers!U32}
  <2>1. PICK e \in Answers!Codes, a \in Answers!U32 : app = Answers!Answer(1, e, <<a>>)
    BY <1>2
  <2>2. Answers!Built(app) = Answers!Raw(1, e, a, 0)
    BY <2>1 DEF Answers!Built
  <2> QED BY <2>1, <2>2 DEF OwnRead, Answers!Raw, Answers!FailureData
<1>3. CASE app \in {Answers!Answer(Answers!FAILURE_2_U32, e, <<a, b>>) :
                    e \in Answers!Codes, a, b \in Answers!U32}
  <2>1. PICK e \in Answers!Codes, a, b \in Answers!U32 : app = Answers!Answer(2, e, <<a, b>>)
    BY <1>3
  <2>2. Answers!Built(app) = Answers!Raw(2, e, a, b)
    BY <2>1 DEF Answers!Built
  <2> QED BY <2>1, <2>2 DEF OwnRead, Answers!Raw, Answers!FailureData
<1>4. CASE app \in {Answers!Answer(Answers!FAILURE_U64, e, <<a>>) :
                    e \in Answers!Codes, a \in Answers!Long}
  <2>1. PICK e \in Answers!Codes, a \in Answers!Long : app = Answers!Answer(3, e, <<a>>)
    BY <1>4
  <2>2. Answers!Built(app) = Answers!Raw(3, e, Answers!low(a), Answers!high(a))
    BY <2>1 DEF Answers!Built
  <2> QED BY <2>1, <2>2, LongTravels DEF OwnRead, Answers!Raw, Answers!FailureData
<1>5. CASE app = Answers!Answer(Answers!SUCCESS, 0, << >>)
  <2>1. app = Answers!Answer(128, 0, << >>)
    BY <1>5
  <2>2. Answers!Built(app) = Answers!Raw(128, 0, 0, 0)
    BY <2>1 DEF Answers!Built
  <2> QED BY <2>1, <2>2 DEF OwnRead, Answers!Raw, Answers!SuccessData
<1>6. CASE app \in {Answers!Answer(Answers!SUCCESS_U32, 0, <<a>>) :
                    a \in Answers!U32}
  <2>1. PICK a \in Answers!U32 : app = Answers!Answer(129, 0, <<a>>)
    BY <1>6
  <2>2. Answers!Built(app) = Answers!Raw(129, a, 0, 0)
    BY <2>1 DEF Answers!Built
  <2> QED BY <2>1, <2>2 DEF OwnRead, Answers!Raw, Answers!SuccessData
<1>7. CASE app \in {Answers!Answer(Answers!SUCCESS_2_U32, 0, <<a, b>>) :
                    a, b \in Answers!U32}
  <2>1. PICK a, b \in Answers!U32 : app = Answers!Answer(130, 0, <<a, b>>)
    BY <1>7
  <2>2. Answers!Built(app) = Answers!Raw(130, a, b, 0)
    BY <2>1 DEF Answers!Built
  <2> QED BY <2>1, <2>2 DEF OwnRead, Answers!Raw, Answers!SuccessData
<1>8. CASE app \in {Answers!Answer(Answers!SUCCESS_U64, 0, <<a>>) :
                    a \in Answers!Long}
  <2>1. PICK a \in Answers!Long : app = Answers!Answer(131, 0, <<a>>)
    BY <1>8
  <2>2. Answers!Built(app) = Answers!Raw(131, Answers!low(a), Answers!high(a), 0)
    BY <2>1 DEF Answers!Built
  <2> QED BY <2>1, <2>2, LongTravels DEF OwnRead, Answers!Raw, Answers!SuccessData
<1>9. CASE app \in {Answers!Answer(Answers!SUCCESS_3_U32, 0, <<a, b, c>>) :
                    a, b, c \in Answers!U32}
  <2>1. PICK a, b, c \in Answers!U32 : app = Answers!Answer(132, 0, <<a, b, c>>)
    BY <1>9
  <2>2. Answers!Built(app) = Answers!Raw(132, a, b, c)
    BY <2>1 DEF Answers!Built
  <2> QED BY <2>1, <2>2 DEF OwnRead, Answers!Raw, Answers!SuccessData
<1>10. CASE app \in {Answers!Answer(Answers!SUCCESS_U32_U64, 0, <<a, b>>) :
                    a \in Answers!U32, b \in Answers!Long}
  <2>1. PICK a \in Answers!U32, b \in Answers!Long : app = Answers!Answer(133, 0, <<a, b>>)
    BY <1>10
  <2>2. Answers!Built(app) = Answers!Raw(133, a, Answers!low(b), Answers!high(b))
    BY <2>1 DEF Answers!Built
  <2> QED BY <2>1, <2>2, LongTravels DEF OwnRead, Answers!Raw, Answers!SuccessData
<1> QED BY <1>1, <1>2, <1>3, <1>4, <1>5, <1>6, <1>7, <1>8, <1>9, <1>10
        DEF Answers!Init, Answers!Meant

(* A type that is not the answer's reads no data of it.                    *)
LEMMA StrangeIsZero ==
  ASSUME NEW v \in Answers!Failures, NEW d, d = Answers!FailureData(v, 0, 0)
  PROVE  \A i \in DOMAIN d : d[i] = 0
<1>1. Answers!u64(0, 0) = 0
  <2>1. Answers!Base \in Nat
    BY LibraryAssumption DEF Answers!Base, Answers!AnswerAssumption
  <2> QED BY <2>1 DEF Answers!u64
<1>2. d \in {<< >>, <<0>>, <<0, 0>>}
  BY <1>1 DEF Answers!FailureData, Answers!Failures, Answers!FAILURE, Answers!FAILURE_U32,
         Answers!FAILURE_2_U32, Answers!FAILURE_U64
<1> QED BY <1>2

(* Every answer is read as what it was meant to be, or as none.            *)
LEMMA AnswersRead == ASSUME Answers!Init PROVE Answers!AnswerIsRead
<1>1. PICK c : c = Answers!Built(app)
  OBVIOUS
<1>2. PICK meant : meant = IF app.variant \in Answers!Failures
                           THEN Answers!Err(app.code, app.data) ELSE Answers!Ok(app.data)
  OBVIOUS
<1>3. /\ c.variant = app.variant /\ app.variant \in Answers!Failures \cup Answers!Successes
      /\ app.variant \in Answers!Failures =>
            /\ c.r1 = app.code /\ c.r1 \in Answers!Codes
            /\ Answers!FailureData(app.variant, c.r2, c.r3) = app.data
      /\ app.variant \in Answers!Successes =>
            Answers!SuccessData(app.variant, c.r1, c.r2, c.r3) = app.data
  BY <1>1, OwnIsRead DEF OwnRead
<1>4. \A v \in Answers!Failures : v \notin Answers!Successes
  BY DEF Answers!Failures, Answers!Successes, Answers!FAILURE, Answers!FAILURE_U64,
         Answers!SUCCESS, Answers!SUCCESS_U32_U64
<1>5. ASSUME NEW v \in Answers!Failures \cup Answers!Successes
      PROVE  Answers!get(c, v) = IF v = app.variant THEN meant ELSE "None"
  BY <1>2, <1>3, <1>4 DEF Answers!get
<1>6. ASSUME NEW T \in Answers!Successes, NEW E \in Answers!Failures,
             NEW r, r = Answers!to_result(c, T, E)
      PROVE  IF app.variant \in {T, E} THEN r = meant
             ELSE r.code = Answers!BadRVal /\ \A i \in DOMAIN r.data : r.data[i] = 0
  <2>1. CASE app.variant = T
    BY <1>2, <1>3, <1>4, <1>6, <2>1 DEF Answers!to_result
  <2>2. CASE app.variant = E
    BY <1>2, <1>3, <1>4, <1>6, <2>2 DEF Answers!to_result
  <2>3. CASE app.variant \notin {T, E}
    <3>1. PICK d : d = Answers!FailureData(E, 0, 0)
      OBVIOUS
    <3>2. r.code = Answers!BadRVal /\ r.data = d
      BY <1>3, <1>6, <2>3, <3>1 DEF Answers!to_result, Answers!Err
    <3> QED BY <2>3, <3>1, <3>2, StrangeIsZero
  <2> QED BY <2>1, <2>2, <2>3
<1> QED BY <1>1, <1>2, <1>3, <1>5, <1>6 DEF Answers!AnswerIsRead

(* On words of every size: a sleep is never shorter than asked and less    *)
(* than a tick longer while the product fits, the clock never runs slow,   *)
(* and every answer is read as what it was meant to be or as none.         *)
THEOREM ConversionsStayTrue == Spec => []ConversionsAreTrue
<1>1. Init => ConversionsAreTrue
  <2> SUFFICES ASSUME Init PROVE ConversionsAreTrue
    OBVIOUS
  <2>1. ASSUME part = "alarm" PROVE Alarms!TimeIsKept
    <3>1. Alarms!Init
      BY <2>1 DEF Init
    <3>2. app.time \in Alarms!U32 /\ app.freq \in Alarms!U32
      BY <3>1 DEF Alarms!Init
    <3> QED BY <3>2, TimesKept
  <2>2. ASSUME part = "answer" PROVE Answers!AnswerIsRead
    <3>1. Answers!Init
      BY <2>2 DEF Init
    <3> QED BY <3>1, AnswersRead
  <2> QED BY <2>1, <2>2 DEF ConversionsAreTrue
<1>2. ConversionsAreTrue /\ [Next]_vars => ConversionsAreTrue'
  <2> SUFFICES ASSUME ConversionsAreTrue, [Next]_vars, part' \in {"alarm", "answer"}
               PROVE  ConversionsAreTrue'
    BY DEF ConversionsAreTrue
  <2>1. part' = part
    BY DEF Next, vars, RingNext, PinsNext, StepperNext, FakeNext, FormatterNext, LinesNext,
           SensorNext, DeviceNext
  <2>2. app' = app
    BY <2>1 DEF Next, vars, RingNext, PinsNext, StepperNext, FakeNext, FormatterNext,
           LinesNext, SensorNext, DeviceNext
  <2>3. Alarms!TimeIsKept => Alarms!TimeIsKept'
    BY <2>2 DEF Alarms!TimeIsKept
  <2>4. Answers!AnswerIsRead => Answers!AnswerIsRead'
    BY <2>2 DEF Answers!AnswerIsRead
  <2> QED BY <2>1, <2>3, <2>4 DEF ConversionsAreTrue
<1> QED BY <1>1, <1>2, PTL DEF Spec

-----------------------------------------------------------------------------
(***************************************************************************)
(* The Formatter.  Between what is open there are layers of settings: the  *)
(* lowest is that of a new Formatter, the highest the one in force, and    *)
(* each scope keeps the one below it.                                      *)
(***************************************************************************)
Setting == [pretty : BOOLEAN, hex : BOOLEAN, width : Int, pad : {" ", "0"}]
Plain == [pretty |-> FALSE, hex |-> FALSE, width |-> -1, pad |-> " "]

ScopeRecord == [kind : Formatter!Scope, old : Setting, start : Nat]
BuilderRecord == [kind : Formatter!Builder, pretty : BOOLEAN, inside : BOOLEAN,
                  first : BOOLEAN, fields : 0..2, unnamed : BOOLEAN]
Opened == ScopeRecord \cup BuilderRecord

FmtRecord == [indentation : Nat, pretty : BOOLEAN, hex : BOOLEAN, width : Int,
              pad : {" ", "0"}, bytes_written : Nat]

FmtTyped ==
    /\ fmt \in FmtRecord
    /\ open \in Seq(Opened) /\ out \in Nat /\ leaked \in Nat

(* What o makes of the settings below it.                                  *)
Layer(o, below, above) ==
    /\ o.kind \in Formatter!Builder => above = below /\ o.pretty = above.pretty
    /\ o.kind \in Formatter!Scope => o.old = below
    /\ o.kind = "pretty" => above.hex = below.hex
    /\ o.kind \in {"pretty", "hex"} => above.width = below.width /\ above.pad = below.pad

Layers(f) ==
    /\ f \in [0..Len(open) -> Setting]
    /\ f[0] = Plain /\ f[Len(open)] = Formatter!Settings
    /\ \A i \in 1..Len(open) : Layer(open[i], f[i - 1], f[i])

Layered == \E f : Layers(f)

Counted == fmt.indentation = Cardinality(Formatter!Stepped) + leaked

StartsBehind ==
    \A i \in 1..Len(open) :
       open[i].kind = "fixed_width" => fmt.bytes_written <= out - open[i].start

FmtInv == FmtTyped /\ Layered /\ Counted /\ StartsBehind

LEMMA FmtCount == \A S : Formatter!Cardinality(S) = Cardinality(S)
BY Zenon DEF Cardinality, Formatter!Cardinality

LEMMA SteppedFinite ==
  ASSUME FmtTyped
  PROVE  /\ Len(open) \in Nat
         /\ Formatter!Stepped \in SUBSET (1..Len(open))
         /\ IsFiniteSet(Formatter!Stepped) /\ Cardinality(Formatter!Stepped) \in Nat
<1>1. Len(open) \in Nat /\ Formatter!Stepped \in SUBSET (1..Len(open))
  BY DEF FmtTyped, Formatter!Stepped
<1>2. IsFiniteSet(Formatter!Stepped)
  <2>1. IsFiniteSet(1..Len(open))
    BY <1>1, FS_Interval
  <2> QED BY <1>1, <2>1, FS_Subset
<1> QED BY <1>1, <1>2, FS_CardinalityType

LEMMA FmtFields ==
  ASSUME FmtTyped
  PROVE  /\ fmt.indentation \in Nat /\ fmt.pretty \in BOOLEAN /\ fmt.hex \in BOOLEAN
         /\ fmt.width \in Int /\ fmt.pad \in {" ", "0"} /\ fmt.bytes_written \in Nat
BY DEF FmtTyped, FmtRecord

(* The record of the settings in force, by its fields.                     *)
LEMMA SettingsFields ==
  /\ Formatter!Settings.pretty = fmt.pretty /\ Formatter!Settings.hex = fmt.hex
  /\ Formatter!Settings.width = fmt.width /\ Formatter!Settings.pad = fmt.pad
BY DEF Formatter!Settings

(* Text that is written changes the count of bytes only.                   *)
LEMMA WritesKept ==
  ASSUME FmtInv, NEW n \in Nat,
         fmt' = [fmt EXCEPT !.bytes_written = @ + n], out' = out + n,
         UNCHANGED leaked,
         open' \in Seq(Opened), Len(open') = Len(open),
         \A i \in 1..Len(open) :
            /\ open'[i].kind = open[i].kind
            /\ open[i].kind \in Formatter!Builder => open'[i].pretty = open[i].pretty
            /\ open[i].kind \in Formatter!Scope => open'[i] = open[i]
  PROVE  FmtInv'
<1>0. FmtTyped /\ Layered /\ Counted /\ StartsBehind
  BY DEF FmtInv
<1>1. /\ fmt'.indentation = fmt.indentation /\ fmt'.pretty = fmt.pretty
      /\ fmt'.hex = fmt.hex /\ fmt'.width = fmt.width /\ fmt'.pad = fmt.pad
      /\ fmt'.bytes_written = fmt.bytes_written + n
  BY <1>0 DEF FmtTyped
<1>2. FmtTyped'
  <2>0. fmt.bytes_written \in Nat /\ out \in Nat
    BY <1>0, FmtFields DEF FmtTyped
  <2>1. fmt.bytes_written + n \in Nat /\ out + n \in Nat
    BY <2>0
  <2>2. fmt' = [fmt EXCEPT !.bytes_written = fmt.bytes_written + n]
    BY <1>0 DEF FmtTyped, FmtRecord
  <2>3. fmt' \in FmtRecord
    BY <1>0, <2>1, <2>2 DEF FmtTyped, FmtRecord
  <2> QED BY <1>0, <2>1, <2>3 DEF FmtTyped
<1>3. Layered'
  <2>1. PICK f : Layers(f)
    BY <1>0 DEF Layered
  <2>2. Formatter!Settings' = Formatter!Settings
    BY <1>1 DEF Formatter!Settings
  <2>3. ASSUME NEW i \in 1..Len(open) PROVE Layer(open'[i], f[i - 1], f[i])
    <3>1. Layer(open[i], f[i - 1], f[i])
      BY <2>1 DEF Layers
    <3>2. /\ open'[i].kind = open[i].kind
          /\ open[i].kind \in Formatter!Builder => open'[i].pretty = open[i].pretty
          /\ open[i].kind \in Formatter!Scope => open'[i].old = open[i].old
      OBVIOUS
    <3> QED BY <3>1, <3>2 DEF Layer
  <2>4. Layers(f)'
    BY <2>1, <2>2, <2>3 DEF Layers
  <2> QED BY <2>4 DEF Layered
<1>4. Counted'
  <2>1. Formatter!Stepped' = Formatter!Stepped
    BY DEF Formatter!Stepped
  <2> QED BY <1>0, <1>1, <2>1 DEF Counted
<1>5. StartsBehind'
  <2> SUFFICES ASSUME NEW i \in 1..Len(open), open[i].kind = "fixed_width"
               PROVE  fmt'.bytes_written <= out' - open'[i].start
    BY DEF StartsBehind
  <2>1. open'[i] = open[i] /\ open[i] \in Opened
    BY <1>0 DEF FmtTyped, Formatter!Scope
  <2>2. open[i].start \in Nat
    BY <2>1 DEF Opened, ScopeRecord, BuilderRecord, Formatter!Scope, Formatter!Builder
  <2>3. fmt.bytes_written <= out - open[i].start /\ fmt.bytes_written \in Nat /\ out \in Nat
    BY <1>0, FmtFields DEF StartsBehind, FmtTyped
  <2> QED BY <1>1, <2>1, <2>2, <2>3
<1> QED BY <1>2, <1>3, <1>4, <1>5 DEF FmtInv

(* The first elements of a sequence.                                       *)
LEMMA FirstOnes ==
  ASSUME NEW S, NEW s \in Seq(S), NEW m \in 0..Len(s)
  PROVE  /\ SubSeq(s, 1, m) \in Seq(S) /\ Len(SubSeq(s, 1, m)) = m
         /\ \A i \in 1..m : SubSeq(s, 1, m)[i] = s[i]
<1>1. \A i \in 1..m : s[i] \in S /\ 1 + i - 1 = i
  OBVIOUS
<1>2. m \in Int /\ 1 \in Int /\ m - 1 + 1 = m /\ (1 <= m \/ m = 0)
  OBVIOUS
<1> QED BY <1>1, <1>2, SubSeqProperties

(* What is opened goes on top of the layers.                               *)
LEMMA LayerPushed ==
  ASSUME FmtTyped, Layered, NEW o \in Opened, open' = Append(open, o),
         Formatter!Settings' \in Setting,
         Layer(o, Formatter!Settings, Formatter!Settings')
  PROVE  Layered'
<1>1. PICK f : Layers(f)
  BY DEF Layered
<1>2. /\ Len(open) \in Nat /\ Len(open') = Len(open) + 1
      /\ \A i \in 1..Len(open) : open'[i] = open[i]
      /\ open'[Len(open) + 1] = o
  BY DEF FmtTyped
<1>3. PICK n : n = Len(open)
  OBVIOUS
<1>4. PICK g : g = [i \in 0..(n + 1) |-> IF i = n + 1 THEN Formatter!Settings' ELSE f[i]]
  OBVIOUS
<1>5. /\ f \in [0..n -> Setting] /\ f[0] = Plain /\ f[n] = Formatter!Settings
      /\ \A i \in 1..n : Layer(open[i], f[i - 1], f[i])
      /\ n \in Nat
  BY <1>1, <1>2, <1>3 DEF Layers
<1>6. /\ g \in [0..(n + 1) -> Setting] /\ g[0] = Plain
      /\ g[n + 1] = Formatter!Settings' /\ \A i \in 0..n : g[i] = f[i]
  BY <1>4, <1>5
<1>7. ASSUME NEW i \in 1..(n + 1) PROVE Layer(open'[i], g[i - 1], g[i])
  <2>1. CASE i = n + 1
    <3>1. g[i - 1] = Formatter!Settings /\ g[i] = Formatter!Settings' /\ open'[i] = o
      BY <1>2, <1>3, <1>5, <1>6, <2>1
    <3> QED BY <3>1
  <2>2. CASE i \in 1..n
    <3>1. i - 1 \in 0..n /\ i \in 0..n
      BY <1>5, <2>2
    <3> QED BY <1>2, <1>3, <1>5, <1>6, <2>2, <3>1
  <2>3. n \in Nat
    BY <1>5
  <2>4. i = n + 1 \/ i \in 1..n
    BY <2>3
  <2> QED BY <2>1, <2>2, <2>4
<1>8. Layers(g)'
  <2>1. Len(open') = n + 1
    BY <1>2, <1>3
  <2> QED BY <1>6, <1>7, <2>1 DEF Layers
<1> QED BY <1>8 DEF Layered

(* What is closed leaves the layer below in force.                         *)
LEMMA LayerPopped ==
  ASSUME FmtTyped, Layered, open # << >>, open' = Formatter!Pop,
         \A below \in Setting :
            Layer(open[Len(open)], below, Formatter!Settings) => Formatter!Settings' = below
  PROVE  Layered'
<1>1. PICK f : Layers(f)
  BY DEF Layered
<1>2. /\ Len(open) \in Nat \ {0} /\ Len(open') = Len(open) - 1
      /\ \A i \in 1..(Len(open) - 1) : open'[i] = open[i]
  <2>1. open \in Seq(Opened) /\ Len(open) \in Nat /\ Len(open) # 0
    BY DEF FmtTyped
  <2>2. Len(open) - 1 \in 0..Len(open)
    BY <2>1
  <2>3. open' = SubSeq(open, 1, Len(open) - 1)
    BY DEF Formatter!Pop
  <2>4. /\ open' \in Seq(Opened) /\ Len(open') = Len(open) - 1
        /\ \A i \in 1..(Len(open) - 1) : open'[i] = open[i]
    BY <2>1, <2>2, <2>3, FirstOnes
  <2> QED BY <2>1, <2>4
<1>3. PICK n : n = Len(open)
  OBVIOUS
<1>4. PICK g : g = [i \in 0..(n - 1) |-> f[i]]
  OBVIOUS
<1>5. /\ f \in [0..n -> Setting] /\ f[0] = Plain /\ f[n] = Formatter!Settings
      /\ \A i \in 1..n : Layer(open[i], f[i - 1], f[i])
      /\ n \in Nat \ {0}
  BY <1>1, <1>2, <1>3 DEF Layers
<1>6. g \in [0..(n - 1) -> Setting] /\ g[0] = Plain /\ \A i \in 0..(n - 1) : g[i] = f[i]
  BY <1>4, <1>5
<1>7. g[n - 1] = Formatter!Settings'
  <2>1. n - 1 \in 0..n /\ n - 1 \in 0..(n - 1) /\ n \in 1..n
    BY <1>5
  <2>2. f[n - 1] \in Setting /\ Layer(open[n], f[n - 1], Formatter!Settings)
    BY <1>5, <2>1
  <2> QED BY <1>3, <1>6, <2>1, <2>2
<1>8. ASSUME NEW i \in 1..(n - 1) PROVE Layer(open'[i], g[i - 1], g[i])
  <2>1. i \in 1..n /\ i - 1 \in 0..(n - 1) /\ i \in 0..(n - 1)
    BY <1>5
  <2> QED BY <1>2, <1>3, <1>5, <1>6, <2>1
<1>9. Layers(g)'
  <2>1. Len(open') = n - 1
    BY <1>2, <1>3
  <2> QED BY <1>6, <1>7, <1>8, <2>1 DEF Layers
<1> QED BY <1>9 DEF Layered

(* The count of the builders that stepped, with one more or less on top.   *)
LEMMA SteppedPushed ==
  ASSUME FmtTyped, NEW o \in Opened, open' = Append(open, o)
  PROVE  Cardinality(Formatter!Stepped') =
            Cardinality(Formatter!Stepped)
            + (IF o.kind \in Formatter!Builder /\ o.pretty THEN 1 ELSE 0)
<1>1. /\ Len(open) \in Nat /\ Len(open') = Len(open) + 1
      /\ \A i \in 1..Len(open) : open'[i] = open[i]
      /\ open'[Len(open) + 1] = o
  BY DEF FmtTyped
<1>2. /\ Len(open) + 1 \notin Formatter!Stepped
      /\ IsFiniteSet(Formatter!Stepped) /\ Cardinality(Formatter!Stepped) \in Nat
  BY SteppedFinite
<1>3. CASE o.kind \in Formatter!Builder /\ o.pretty
  <2>1. Formatter!Stepped' = Formatter!Stepped \cup {Len(open) + 1}
    BY <1>1, <1>3 DEF Formatter!Stepped
  <2> QED BY <1>2, <1>3, <2>1, FS_AddElement
<1>4. CASE ~(o.kind \in Formatter!Builder /\ o.pretty)
  <2>1. Formatter!Stepped' = Formatter!Stepped
    BY <1>1, <1>4 DEF Formatter!Stepped
  <2> QED BY <1>2, <1>4, <2>1
<1> QED BY <1>3, <1>4

LEMMA SteppedPopped ==
  ASSUME FmtTyped, open # << >>, open' = Formatter!Pop
  PROVE  /\ Cardinality(Formatter!Stepped) =
               Cardinality(Formatter!Stepped')
               + (IF Formatter!top.kind \in Formatter!Builder /\ Formatter!top.pretty
                  THEN 1 ELSE 0)
         /\ Cardinality(Formatter!Stepped') \in Nat
<1>0. open \in Seq(Opened) /\ Len(open) \in Nat \ {0}
  BY DEF FmtTyped
<1>1. /\ open' \in Seq(Opened) /\ Len(open') = Len(open) - 1
      /\ \A i \in 1..(Len(open) - 1) : open'[i] = open[i]
  <2>1. Len(open) - 1 \in 0..Len(open)
    BY <1>0
  <2> QED BY <1>0, <2>1, FirstOnes DEF Formatter!Pop
<1>2. /\ Len(open) \notin Formatter!Stepped'
      /\ IsFiniteSet(Formatter!Stepped) /\ Cardinality(Formatter!Stepped) \in Nat
  BY <1>0, <1>1, SteppedFinite DEF Formatter!Stepped
<1>3. Formatter!Stepped' \in SUBSET Formatter!Stepped
  BY <1>0, <1>1 DEF Formatter!Stepped
<1>4. IsFiniteSet(Formatter!Stepped') /\ Cardinality(Formatter!Stepped') \in Nat
  BY <1>2, <1>3, FS_Subset, FS_CardinalityType
<1>5. CASE Formatter!top.kind \in Formatter!Builder /\ Formatter!top.pretty
  <2>1. Formatter!Stepped = Formatter!Stepped' \cup {Len(open)}
    BY <1>0, <1>1, <1>5 DEF Formatter!Stepped, Formatter!top
  <2> QED BY <1>2, <1>4, <1>5, <2>1, FS_AddElement
<1>6. CASE ~(Formatter!top.kind \in Formatter!Builder /\ Formatter!top.pretty)
  <2>1. Formatter!Stepped' = Formatter!Stepped
    BY <1>0, <1>1, <1>6 DEF Formatter!Stepped, Formatter!top
  <2> QED BY <1>2, <1>6, <2>1
<1> QED BY <1>4, <1>5, <1>6

(* The settings of a scope's record, and those in force, are settings.     *)
LEMMA SettingsTyped ==
  ASSUME FmtTyped
  PROVE  Formatter!Settings \in Setting
BY FmtFields DEF Formatter!Settings, Setting

(* Opening a scope.                                                        *)
LEMMA ScopeEntered ==
  ASSUME FmtInv, NEW kind \in Formatter!Scope,
         open' = Append(open, [kind |-> kind, old |-> Formatter!Settings, start |-> out]),
         UNCHANGED <<out, leaked>>,
         fmt' \in FmtRecord, fmt'.indentation = fmt.indentation,
         fmt'.bytes_written <= fmt.bytes_written,
         kind = "fixed_width" => fmt'.bytes_written = 0,
         kind = "pretty" => fmt'.hex = fmt.hex,
         kind \in {"pretty", "hex"} => fmt'.width = fmt.width /\ fmt'.pad = fmt.pad
  PROVE  FmtInv'
<1>0. FmtTyped /\ Layered /\ Counted /\ StartsBehind
  BY DEF FmtInv
<1>1. PICK o : o = [kind |-> kind, old |-> Formatter!Settings, start |-> out]
  OBVIOUS
<1>2. /\ o \in ScopeRecord /\ o \in Opened /\ open' = Append(open, o)
      /\ o.kind = kind /\ o.old = Formatter!Settings /\ o.start = out
  BY <1>0, <1>1, SettingsTyped DEF FmtTyped, ScopeRecord, Opened
<1>3. FmtTyped'
  <2>1. Append(open, o) \in Seq(Opened)
    BY <1>0, <1>2 DEF FmtTyped
  <2> QED BY <1>0, <1>2, <2>1 DEF FmtTyped
<1>4. Formatter!Settings' \in Setting
  <2>1. /\ fmt'.pretty \in BOOLEAN /\ fmt'.hex \in BOOLEAN
        /\ fmt'.width \in Int /\ fmt'.pad \in {" ", "0"}
    BY DEF FmtRecord
  <2> QED BY <2>1 DEF Formatter!Settings, Setting
<1>5. kind \notin Formatter!Builder
  BY DEF Formatter!Scope, Formatter!Builder
<1>6. Layer(o, Formatter!Settings, Formatter!Settings')
  <2>1. /\ Formatter!Settings.hex = fmt.hex /\ Formatter!Settings'.hex = fmt'.hex
        /\ Formatter!Settings.width = fmt.width /\ Formatter!Settings'.width = fmt'.width
        /\ Formatter!Settings.pad = fmt.pad /\ Formatter!Settings'.pad = fmt'.pad
    BY DEF Formatter!Settings
  <2> QED BY <1>2, <1>5, <2>1 DEF Layer
<1>7. Layered'
  BY <1>0, <1>2, <1>4, <1>6, LayerPushed
<1>8. Counted'
  <2>1. Cardinality(Formatter!Stepped') = Cardinality(Formatter!Stepped)
    BY <1>0, <1>2, <1>5, SteppedPushed, SteppedFinite
  <2> QED BY <1>0, <2>1 DEF Counted
<1>9. StartsBehind'
  <2>1. /\ Len(open) \in Nat /\ Len(open') = Len(open) + 1
        /\ \A i \in 1..Len(open) : open'[i] = open[i] /\ open[i] \in Opened
        /\ open'[Len(open) + 1] = o
    BY <1>0, <1>2 DEF FmtTyped
  <2>2. out \in Nat /\ fmt.bytes_written \in Nat /\ fmt'.bytes_written \in Nat
    BY <1>0, FmtFields DEF FmtTyped, FmtRecord
  <2>3. \A x \in Opened : x.kind = "fixed_width" => x.start \in Nat
    BY DEF Opened, ScopeRecord, BuilderRecord, Formatter!Scope, Formatter!Builder
  <2>4. ASSUME NEW i \in 1..Len(open'), open'[i].kind = "fixed_width"
        PROVE  fmt'.bytes_written <= out' - open'[i].start
    <3>1. CASE i = Len(open) + 1
      BY <1>2, <2>1, <2>2, <2>4, <3>1
    <3>2. CASE i \in 1..Len(open)
      <4>1. fmt.bytes_written <= out - open[i].start /\ open[i].start \in Nat
        BY <1>0, <2>1, <2>3, <2>4, <3>2 DEF StartsBehind
      <4> QED BY <2>1, <2>2, <3>2, <4>1
    <3>3. i = Len(open) + 1 \/ i \in 1..Len(open)
      BY <2>1
    <3> QED BY <3>1, <3>2, <3>3
  <2> QED BY <2>4 DEF StartsBehind
<1> QED BY <1>3, <1>7, <1>8, <1>9 DEF FmtInv

(* Opening a builder steps in where the text is pretty.                    *)
LEMMA BuilderOpened ==
  ASSUME FmtInv, NEW o \in BuilderRecord, NEW n \in Nat,
         o.pretty = fmt.pretty, open' = Append(open, o),
         out' = out + n, UNCHANGED leaked,
         fmt' = [fmt EXCEPT !.bytes_written = fmt.bytes_written + n,
                            !.indentation = IF fmt.pretty THEN fmt.indentation + 1
                                            ELSE fmt.indentation]
  PROVE  FmtInv'
<1>0. FmtTyped /\ Layered /\ Counted /\ StartsBehind
  BY DEF FmtInv
<1>1. /\ fmt.indentation \in Nat /\ fmt.bytes_written \in Nat /\ out \in Nat
      /\ fmt \in FmtRecord
  BY <1>0, FmtFields DEF FmtTyped
<1>2. PICK k \in Nat : k = IF fmt.pretty THEN fmt.indentation + 1 ELSE fmt.indentation
  BY <1>1
<1>3. PICK m \in Nat : m = fmt.bytes_written + n
  BY <1>1
<1>4. fmt' = [fmt EXCEPT !.bytes_written = m, !.indentation = k]
  BY <1>2, <1>3
<1>5. /\ fmt' \in FmtRecord
      /\ fmt'.indentation = k /\ fmt'.bytes_written = m
      /\ fmt'.pretty = fmt.pretty /\ fmt'.hex = fmt.hex
      /\ fmt'.width = fmt.width /\ fmt'.pad = fmt.pad
  BY <1>1, <1>4 DEF FmtRecord
<1>6. o \in Opened /\ o.kind \in Formatter!Builder /\ o.kind \notin Formatter!Scope
  BY DEF Opened, BuilderRecord, Formatter!Builder, Formatter!Scope
<1>7. FmtTyped'
  <2>1. Append(open, o) \in Seq(Opened) /\ out + n \in Nat
    BY <1>0, <1>1, <1>6 DEF FmtTyped
  <2> QED BY <1>0, <1>5, <2>1 DEF FmtTyped
<1>8. Formatter!Settings' = Formatter!Settings
  BY <1>5 DEF Formatter!Settings
<1>9. Layer(o, Formatter!Settings, Formatter!Settings')
  <2>1. Formatter!Settings.pretty = fmt.pretty
    BY DEF Formatter!Settings
  <2>2. o.kind \notin {"pretty", "hex"} /\ o.kind # "pretty"
    BY <1>6 DEF Formatter!Scope
  <2> QED BY <1>6, <1>8, <2>1, <2>2 DEF Layer
<1>10. Layered'
  BY <1>0, <1>6, <1>8, <1>9, SettingsTyped, LayerPushed
<1>11. Counted'
  <2>1. /\ Cardinality(Formatter!Stepped') =
                Cardinality(Formatter!Stepped) + (IF fmt.pretty THEN 1 ELSE 0)
        /\ Cardinality(Formatter!Stepped) \in Nat
    BY <1>0, <1>6, SteppedPushed, SteppedFinite
  <2>2. leaked \in Nat
    BY <1>0 DEF FmtTyped
  <2> QED BY <1>0, <1>1, <1>2, <1>5, <2>1, <2>2 DEF Counted
<1>12. StartsBehind'
  <2>1. /\ Len(open) \in Nat /\ Len(open') = Len(open) + 1
        /\ \A i \in 1..Len(open) : open'[i] = open[i] /\ open[i] \in Opened
        /\ open'[Len(open) + 1] = o
    BY <1>0, <1>6 DEF FmtTyped
  <2>3. \A x \in Opened : x.kind = "fixed_width" => x.start \in Nat
    BY DEF Opened, ScopeRecord, BuilderRecord, Formatter!Scope, Formatter!Builder
  <2>4. ASSUME NEW i \in 1..Len(open'), open'[i].kind = "fixed_width"
        PROVE  fmt'.bytes_written <= out' - open'[i].start
    <3>1. i # Len(open) + 1
      BY <1>6, <2>1, <2>4 DEF Formatter!Scope
    <3>2. i \in 1..Len(open)
      BY <2>1, <3>1
    <3>3. fmt.bytes_written <= out - open[i].start /\ open[i].start \in Nat
      BY <1>0, <2>1, <2>3, <2>4, <3>2 DEF StartsBehind
    <3> QED BY <1>1, <1>3, <1>5, <2>1, <3>2, <3>3
  <2> QED BY <2>4 DEF StartsBehind
<1> QED BY <1>7, <1>10, <1>11, <1>12 DEF FmtInv

(* What is on top when something is closed, and what is left.              *)
LEMMA TopIs ==
  ASSUME FmtTyped, open # << >>
  PROVE  /\ open \in Seq(Opened) /\ Len(open) \in Nat \ {0}
         /\ Formatter!top \in Opened /\ Formatter!top = open[Len(open)]
         /\ Formatter!Pop \in Seq(Opened) /\ Len(Formatter!Pop) = Len(open) - 1
         /\ \A i \in 1..(Len(open) - 1) : Formatter!Pop[i] = open[i] /\ i \in 1..Len(open)
<1>0. open \in Seq(Opened) /\ Len(open) \in Nat \ {0}
  BY DEF FmtTyped
<1>1. Len(open) - 1 \in 0..Len(open)
  BY <1>0
<1>2. open[Len(open)] \in Opened
  BY <1>0
<1>3. \A i \in 1..(Len(open) - 1) : i \in 1..Len(open)
  BY <1>0
<1>4. PICK left : left = SubSeq(open, 1, Len(open) - 1)
  OBVIOUS
<1>5. /\ left \in Seq(Opened) /\ Len(left) = Len(open) - 1
      /\ \A i \in 1..(Len(open) - 1) : left[i] = open[i]
  BY <1>0, <1>1, <1>4, FirstOnes
<1> QED BY <1>0, <1>2, <1>3, <1>4, <1>5, Zenon DEF Formatter!top, Formatter!Pop

(* What is closed may have written more; what is still open began before.  *)
LEMMA StartsPopped ==
  ASSUME FmtTyped, StartsBehind, open # << >>, open' = Formatter!Pop,
         NEW n \in Nat, out' = out + n, fmt'.bytes_written = fmt.bytes_written + n
  PROVE  StartsBehind'
<1>1. \A x \in Opened : x.kind = "fixed_width" => x.start \in Nat
  BY DEF Opened, ScopeRecord, BuilderRecord, Formatter!Scope, Formatter!Builder
<1>2. out \in Nat /\ fmt.bytes_written \in Nat
  BY FmtFields DEF FmtTyped
<1>3. ASSUME NEW i \in 1..Len(open'), open'[i].kind = "fixed_width"
      PROVE  fmt'.bytes_written <= out' - open'[i].start
  <2>1. open'[i] = open[i] /\ i \in 1..Len(open) /\ open[i] \in Opened
    BY TopIs
  <2>2. fmt.bytes_written <= out - open[i].start /\ open[i].start \in Nat
    BY <1>1, <1>3, <2>1 DEF StartsBehind
  <2> QED BY <1>2, <2>1, <2>2
<1> QED BY <1>3 DEF StartsBehind

(* A builder on top was opened under the settings in force.                *)
LEMMA TopAsPretty ==
  ASSUME FmtTyped, Layered, open # << >>, Formatter!top.kind \in Formatter!Builder
  PROVE  Formatter!top.pretty = fmt.pretty
<1>1. PICK f : Layers(f)
  BY DEF Layered
<1>2. Layer(Formatter!top, f[Len(open) - 1], Formatter!Settings)
  <2>1. Len(open) \in 1..Len(open)
    BY TopIs
  <2> QED BY <1>1, <2>1, TopIs DEF Layers
<1> QED BY <1>2, SettingsFields DEF Layer

(* Closing a builder steps back, or leaks the step.                        *)
LEMMA BuilderClosed ==
  ASSUME FmtInv, open # << >>, Formatter!top.kind \in Formatter!Builder,
         open' = Formatter!Pop, NEW n \in Nat, NEW k \in Nat,
         out' = out + n, leaked' \in Nat,
         fmt' = [fmt EXCEPT !.bytes_written = fmt.bytes_written + n, !.indentation = k],
         k - leaked' = fmt.indentation - leaked - (IF fmt.pretty THEN 1 ELSE 0)
  PROVE  FmtInv'
<1>0. FmtTyped /\ Layered /\ Counted /\ StartsBehind
  BY DEF FmtInv
<1>1. /\ fmt.indentation \in Nat /\ fmt.bytes_written \in Nat /\ out \in Nat /\ leaked \in Nat
      /\ fmt \in FmtRecord
  BY <1>0, FmtFields DEF FmtTyped
<1>2. PICK m \in Nat : m = fmt.bytes_written + n
  BY <1>1
<1>3. /\ fmt' \in FmtRecord
      /\ fmt'.indentation = k /\ fmt'.bytes_written = m
      /\ fmt'.pretty = fmt.pretty /\ fmt'.hex = fmt.hex
      /\ fmt'.width = fmt.width /\ fmt'.pad = fmt.pad
  BY <1>1, <1>2 DEF FmtRecord
<1>4. FmtTyped'
  <2>1. out + n \in Nat
    BY <1>1
  <2> QED BY <1>0, <1>3, <2>1, TopIs DEF FmtTyped
<1>5. Layered'
  <2>1. Formatter!Settings' = Formatter!Settings
    BY <1>3 DEF Formatter!Settings
  <2>2. \A below \in Setting :
           Layer(open[Len(open)], below, Formatter!Settings) => Formatter!Settings' = below
    BY <1>0, <2>1, TopIs DEF Layer
  <2> QED BY <1>0, <2>2, LayerPopped
<1>6. Counted'
  <2>1. /\ Cardinality(Formatter!Stepped) =
                Cardinality(Formatter!Stepped') + (IF fmt.pretty THEN 1 ELSE 0)
        /\ Cardinality(Formatter!Stepped') \in Nat
    BY <1>0, TopAsPretty, SteppedPopped
  <2> QED BY <1>0, <1>1, <1>3, <2>1 DEF Counted
<1>7. StartsBehind'
  BY <1>0, <1>2, <1>3, StartsPopped
<1> QED BY <1>4, <1>5, <1>6, <1>7 DEF FmtInv
(* The blanks that are missing.                                            *)
LEMMA BlanksMissing ==
  ASSUME NEW w \in Int, NEW b \in Nat, NEW n
  PROVE  /\ n = w - b /\ w > b => n \in Nat /\ b + n >= w
         /\ n = 0 /\ ~(w > b) => n \in Nat /\ b + n >= w
<1>1. ASSUME n = w - b, w > b PROVE n \in Nat /\ b + n >= w
  BY <1>1
<1>2. ASSUME n = 0, ~(w > b) PROVE n \in Nat /\ b + n >= w
  BY <1>2
<1> QED BY <1>1, <1>2

LEMMA LengthOfText ==
  ASSUME NEW w \in Int, NEW b \in Nat, NEW o \in Nat, NEW start \in Nat, NEW n \in Nat,
         b <= o - start, b + n >= w
  PROVE  (o + n) - start >= w
OBVIOUS

LEMMA SomeOpen ==
  ASSUME NEW S, NEW s \in Seq(S), s # << >>
  PROVE  Len(s) \in Nat \ {0} /\ s # SubSeq(s, 1, Len(s) - 1)
<1>1. Len(s) \in Nat /\ Len(s) # 0
  OBVIOUS
<1>2. PICK n \in Nat \ {0} : n = Len(s)
  BY <1>1
<1>3. n - 1 \in 0..Len(s) /\ n - 1 # n
  BY <1>2
<1>4. Len(SubSeq(s, 1, n - 1)) = n - 1
  BY <1>3, FirstOnes
<1> QED BY <1>1, <1>2, <1>3, <1>4

(* Leaving a scope restores what it has changed.                           *)
LEMMA ScopeLeft ==
  ASSUME FmtInv, Formatter!Leave
  PROVE  FmtInv'
<1>0. FmtTyped /\ Layered /\ Counted /\ StartsBehind
  BY DEF FmtInv
<1>1. /\ fmt.indentation \in Nat /\ fmt.bytes_written \in Nat /\ out \in Nat /\ leaked \in Nat
      /\ fmt.width \in Int /\ fmt \in FmtRecord
  BY <1>0, FmtFields DEF FmtTyped
<1>2. /\ open # << >> /\ open' = Formatter!Pop /\ leaked' = leaked
      /\ Formatter!top.kind \in Formatter!Scope
  BY DEF Formatter!Leave
<1>3. PICK n : n = IF /\ Formatter!top.kind = "fixed_width" /\ fmt.pad = " "
                      /\ fmt.width > fmt.bytes_written
                   THEN fmt.width - fmt.bytes_written ELSE 0
  OBVIOUS
<1>4. n \in Nat
  <2>1. n = 0 \/ (n = fmt.width - fmt.bytes_written /\ fmt.width > fmt.bytes_written)
    BY Zenon, <1>3
  <2>2. CASE n = 0
    BY <2>2
  <2>3. CASE n = fmt.width - fmt.bytes_written /\ fmt.width > fmt.bytes_written
    BY <1>1, <2>3, BlanksMissing
  <2> QED BY <2>1, <2>2, <2>3
<1>5. PICK now : now = [fmt EXCEPT !.bytes_written = fmt.bytes_written + n]
  OBVIOUS
<1>6. now = Formatter!Writing(n)
  BY <1>1, <1>5 DEF Formatter!Writing, FmtRecord
<1>7. out' = out + n
  BY <1>3 DEF Formatter!Leave, Formatter!Puts
<1>8. PICK old : old = Formatter!top.old
  OBVIOUS
<1>9. /\ Formatter!top.kind = "pretty" => fmt' = [now EXCEPT !.pretty = old.pretty]
      /\ Formatter!top.kind = "hex" =>
            fmt' = [now EXCEPT !.pretty = old.pretty, !.hex = old.hex]
      /\ Formatter!top.kind = "fixed_width" =>
            fmt' = [now EXCEPT !.pretty = old.pretty, !.hex = old.hex,
                               !.width = old.width, !.pad = old.pad]
  BY <1>3, <1>6, <1>8 DEF Formatter!Leave
<1>10. old \in Setting
  <2>1. Formatter!top \in ScopeRecord
    BY <1>0, <1>2, TopIs DEF Opened, BuilderRecord, Formatter!Builder, Formatter!Scope
  <2> QED BY <1>8, <2>1 DEF ScopeRecord
<1>11. /\ old.pretty \in BOOLEAN /\ old.hex \in BOOLEAN
       /\ old.width \in Int /\ old.pad \in {" ", "0"}
       /\ old = [pretty |-> old.pretty, hex |-> old.hex, width |-> old.width, pad |-> old.pad]
  BY <1>10 DEF Setting
<1>12. PICK m \in Nat : m = fmt.bytes_written + n
  BY <1>1, <1>4
<1>13. /\ now \in FmtRecord /\ now.indentation = fmt.indentation /\ now.bytes_written = m
       /\ now.pretty = fmt.pretty /\ now.hex = fmt.hex
       /\ now.width = fmt.width /\ now.pad = fmt.pad
  BY <1>1, <1>5, <1>12 DEF FmtRecord
<1>14. /\ fmt' \in FmtRecord /\ fmt'.indentation = fmt.indentation /\ fmt'.bytes_written = m
       /\ fmt'.pretty = old.pretty
       /\ fmt'.hex = (IF Formatter!top.kind = "pretty" THEN fmt.hex ELSE old.hex)
       /\ fmt'.width = IF Formatter!top.kind = "fixed_width" THEN old.width ELSE fmt.width
       /\ fmt'.pad = IF Formatter!top.kind = "fixed_width" THEN old.pad ELSE fmt.pad
  <2>1. CASE Formatter!top.kind = "pretty"
    BY <1>9, <1>11, <1>13, <2>1 DEF FmtRecord
  <2>2. CASE Formatter!top.kind = "hex"
    BY <1>9, <1>11, <1>13, <2>2 DEF FmtRecord
  <2>3. CASE Formatter!top.kind = "fixed_width"
    BY <1>9, <1>11, <1>13, <2>3 DEF FmtRecord
  <2> QED BY <1>2, <2>1, <2>2, <2>3 DEF Formatter!Scope
<1>15. FmtTyped'
  <2>1. out + n \in Nat
    BY <1>1, <1>4
  <2> QED BY <1>0, <1>1, <1>2, <1>7, <1>14, <2>1, TopIs DEF FmtTyped
<1>16. Layered'
  <2>1. ASSUME NEW below \in Setting,
               Layer(open[Len(open)], below, Formatter!Settings)
        PROVE  Formatter!Settings' = below
    <3>1. Layer(Formatter!top, below, Formatter!Settings)
      BY <1>0, <1>2, <2>1, TopIs
    <3>2. old = below
      BY <1>2, <1>8, <3>1 DEF Layer
    <3>3. /\ Formatter!top.kind = "pretty" => fmt.hex = below.hex
          /\ Formatter!top.kind \in {"pretty", "hex"} =>
                fmt.width = below.width /\ fmt.pad = below.pad
      BY <3>1, SettingsFields DEF Layer
    <3>4. Formatter!top.kind \in {"pretty", "hex", "fixed_width"}
      BY <1>2 DEF Formatter!Scope
    <3>5. /\ fmt'.pretty = old.pretty /\ fmt'.hex = old.hex
          /\ fmt'.width = old.width /\ fmt'.pad = old.pad
      BY <1>14, <3>2, <3>3, <3>4
    <3>6. Formatter!Settings' = [pretty |-> fmt'.pretty, hex |-> fmt'.hex,
                                 width |-> fmt'.width, pad |-> fmt'.pad]
      BY DEF Formatter!Settings
    <3> QED BY <1>11, <3>2, <3>5, <3>6
  <2> QED BY <1>0, <1>2, <2>1, LayerPopped
<1>17. Counted'
  <2>1. Formatter!top.kind \notin Formatter!Builder
    BY <1>2 DEF Formatter!Scope, Formatter!Builder
  <2>2. Cardinality(Formatter!Stepped) = Cardinality(Formatter!Stepped')
    BY <1>0, <1>2, <2>1, SteppedPopped
  <2> QED BY <1>0, <1>2, <1>14, <2>2 DEF Counted
<1>18. StartsBehind'
  BY <1>0, <1>2, <1>4, <1>7, <1>12, <1>14, StartsPopped
<1> QED BY <1>15, <1>16, <1>17, <1>18 DEF FmtInv

(* ... and fills the text up to the width that was in force.               *)
LEMMA EmptyLength == Len(<< >>) = 0
OBVIOUS

WithBlanks == Formatter!top.kind = "fixed_width" /\ fmt.pad = " "

LEMMA LeaveFills ==
  ASSUME FmtInv, Formatter!Leave, WithBlanks
  PROVE  out' - Formatter!top.start >= fmt.width
<1>0. FmtTyped /\ StartsBehind
  BY DEF FmtInv
<1>1. /\ fmt.bytes_written \in Nat /\ out \in Nat /\ fmt.width \in Int
      /\ open \in Seq(Opened)
  BY <1>0, FmtFields DEF FmtTyped
<1>2. open # << >>
  BY DEF Formatter!Leave
<1>3. Len(open) \in Nat \ {0} /\ Len(open) \in 1..Len(open)
  <2>1. Len(open) \in Nat \ {0}
    BY <1>1, <1>2, SomeOpen
  <2> QED BY <2>1
<1>4. open[Len(open)] \in Opened /\ Formatter!top = open[Len(open)]
  BY <1>1, <1>3 DEF Formatter!top
<1>5. PICK n : n = IF /\ Formatter!top.kind = "fixed_width" /\ fmt.pad = " "
                      /\ fmt.width > fmt.bytes_written
                   THEN fmt.width - fmt.bytes_written ELSE 0
  OBVIOUS
<1>6. out' = out + n
  BY <1>5 DEF Formatter!Leave, Formatter!Puts
<1>7. n = IF fmt.width > fmt.bytes_written THEN fmt.width - fmt.bytes_written ELSE 0
  BY Zenon, <1>5 DEF WithBlanks
<1>8. n \in Nat /\ fmt.bytes_written + n >= fmt.width
  <2>1. CASE fmt.width > fmt.bytes_written
    <3>1. n = fmt.width - fmt.bytes_written
      BY Zenon, <1>7, <2>1
    <3> QED BY <1>1, <2>1, <3>1, BlanksMissing
  <2>2. CASE ~(fmt.width > fmt.bytes_written)
    <3>1. n = 0
      BY Zenon, <1>7, <2>2
    <3> QED BY <1>1, <2>2, <3>1, BlanksMissing
  <2> QED BY <2>1, <2>2
<1>9. fmt.bytes_written <= out - Formatter!top.start
  BY <1>0, <1>3, <1>4 DEF StartsBehind, WithBlanks
<1>10. Formatter!top.start \in Nat
  BY <1>4 DEF WithBlanks, Opened, ScopeRecord, BuilderRecord, Formatter!Scope, Formatter!Builder
<1>11. (out + n) - Formatter!top.start >= fmt.width
  BY <1>1, <1>8, <1>9, <1>10, LengthOfText
<1> QED BY <1>6, <1>11

(* Only Leave ends a text that is printed with a width.                    *)
LEMMA OnlyLeaveCloses ==
  ASSUME FmtInv, Formatter!Next, open # << >>, Formatter!top.kind = "fixed_width",
         Len(open') = Len(open) - 1, fmt' # Formatter!Fresh
  PROVE  Formatter!Leave
<1>0. open \in Seq(Opened)
  BY DEF FmtInv, FmtTyped
<1>1. Len(open) \in Nat
  BY <1>0
<1>2. Formatter!top.kind \notin Formatter!Builder
  BY DEF Formatter!Builder
<1>3. ASSUME open' = open PROVE FALSE
  <2>1. Len(open) = Len(open) - 1
    BY <1>3
  <2> QED BY ONLY <1>1, <2>1
<1>4. ASSUME NEW o, open' = Append(open, o) PROVE FALSE
  <2>1. Len(Append(open, o)) = Len(open) + 1
    BY ONLY <1>0
  <2>2. Len(open) + 1 = Len(open) - 1
    BY <1>4, <2>1
  <2> QED BY ONLY <1>1, <2>2
<1>5. ~\E n \in Length : Formatter!WriteStr(n) \/ Formatter!WriteNumber(n)
  BY <1>3 DEF Formatter!WriteStr, Formatter!WriteNumber
<1>6. ~Formatter!NextWrite
  BY DEF Formatter!NextWrite
<1>7. ~Formatter!EnterPretty
  BY <1>4 DEF Formatter!EnterPretty, Formatter!Enter
<1>8. ~\E p \in BOOLEAN : Formatter!EnterHex(p)
  BY <1>4 DEF Formatter!EnterHex, Formatter!Enter
<1>9. ~\E p, h \in BOOLEAN, w \in Width, pad \in {" ", "0"} : Formatter!EnterWidth(p, h, w, pad)
  BY <1>4 DEF Formatter!EnterWidth, Formatter!Enter
<1>10. ~\E kind \in Formatter!Builder, n \in Length : Formatter!OpenBuilder(kind, n)
  BY <1>4 DEF Formatter!OpenBuilder
<1>11. ~Formatter!BeginEntry /\ ~Formatter!EndEntry
  <2>1. Formatter!BeginEntry => Formatter!top.kind \in Formatter!Builder
    BY DEF Formatter!BeginEntry
  <2>2. Formatter!EndEntry => Formatter!top.kind \in Formatter!Builder
    BY DEF Formatter!EndEntry
  <2> QED BY <1>2, <2>1, <2>2
<1>12. ~Formatter!FinishFields /\ ~Formatter!FinishList /\ ~Formatter!FinishSet
  BY DEF Formatter!FinishFields, Formatter!FinishList, Formatter!FinishSet
<1> QED BY <1>5, <1>6, <1>7, <1>8, <1>9, <1>10, <1>11, <1>12 DEF Formatter!Next

(* Whatever is printed with a width reaches it.                            *)
LEMMA WidthStaysReached ==
  ASSUME FmtInv, Formatter!Next
  PROVE  Formatter!WidthReached
<1>0. FmtTyped /\ Len(open) \in Nat
  BY DEF FmtInv, FmtTyped
<1>1. ASSUME NEW i \in {Len(open)} \ {0}, open[i].kind = "fixed_width",
             Len(open') = i - 1, fmt' # Formatter!Fresh, fmt.pad = " "
      PROVE  out' - open[i].start >= fmt.width
  <2>1. i = Len(open) /\ Len(open) # 0
    BY Zenon, <1>1
  <2>2. open # << >>
    BY Zenon, <2>1, EmptyLength
  <2>3. Formatter!top = open[i]
    BY Zenon, <2>1 DEF Formatter!top
  <2>4. Formatter!Leave
    BY Zenon, <1>1, <2>1, <2>2, <2>3, OnlyLeaveCloses
  <2>5. out' - Formatter!top.start >= fmt.width
    BY Zenon, <1>1, <2>3, <2>4, LeaveFills DEF WithBlanks
  <2> QED BY Zenon, <2>3, <2>5
<1> QED BY Zenon, <1>1 DEF Formatter!WidthReached

(* What a builder steps back by was stepped in.                            *)
LEMMA SomeStepped ==
  ASSUME FmtInv, open # << >>, Formatter!top.kind \in Formatter!Builder, fmt.pretty
  PROVE  fmt.indentation - leaked >= 1
<1>0. FmtTyped /\ Layered /\ Counted
  BY DEF FmtInv
<1>1. Len(open) \in Formatter!Stepped
  <2>1. Formatter!top.pretty
    BY <1>0, TopAsPretty
  <2>2. Len(open) \in 1..Len(open)
    BY <1>0, TopIs
  <2> QED BY <1>0, <2>1, <2>2, TopIs DEF Formatter!Stepped
<1>2. PICK c \in Nat : c = Cardinality(Formatter!Stepped)
  BY <1>0, SteppedFinite
<1>3. c # 0
  BY <1>0, <1>1, <1>2, SteppedFinite, FS_EmptySet
<1>4. leaked \in Nat /\ fmt.indentation = c + leaked
  BY <1>0, <1>2 DEF Counted, FmtTyped
<1> QED BY ONLY <1>2, <1>3, <1>4

(* Every step of the Formatter keeps the layers.                           *)
LEMMA BuilderFinished ==
  ASSUME FmtInv, Formatter!FinishFields \/ Formatter!FinishList
  PROVE  FmtInv'
<1>0. FmtTyped
  BY DEF FmtInv
<1>1. /\ fmt.indentation \in Nat /\ leaked \in Nat /\ fmt.pretty \in BOOLEAN
      /\ fmt \in FmtRecord
  BY <1>0, FmtFields DEF FmtTyped
<1>2. /\ open # << >> /\ open' = Formatter!Pop /\ leaked' = leaked
      /\ Formatter!top.kind \in Formatter!Builder
  BY DEF Formatter!FinishFields, Formatter!FinishList, Formatter!Builder
<1>3. fmt.pretty => fmt.indentation - leaked >= 1
  BY <1>2, SomeStepped
<1>4. PICK k \in Nat : k = IF fmt.pretty THEN fmt.indentation - 1 ELSE fmt.indentation
  BY <1>1, <1>3
<1>5. PICK back : back = [fmt EXCEPT !.indentation = k]
  OBVIOUS
<1>6. /\ back = [fmt EXCEPT !.indentation = IF fmt.pretty THEN @ - 1 ELSE @]
      /\ back.indentation = k /\ back.bytes_written = fmt.bytes_written
  BY <1>1, <1>4, <1>5 DEF FmtRecord
<1>7. PICK n : out' = out + n /\ fmt' = [back EXCEPT !.bytes_written = @ + n] /\ n \in Nat
  <2>1. Formatter!Indent(back) = 4 * k /\ 4 * k \in Nat
    BY <1>6 DEF Formatter!Indent
  <2>2. PICK j \in Nat : j = Formatter!Indent(back)
    BY <2>1
  <2>3. j + 1 \in Nat
    OBVIOUS
  <2>4. CASE Formatter!FinishFields
    <3>1. PICK n : /\ out' = out + n /\ fmt' = [back EXCEPT !.bytes_written = @ + n]
                   /\ n = IF Formatter!top.first THEN 0
                          ELSE IF fmt.pretty THEN j + 1
                          ELSE IF Formatter!top.kind = "struct" THEN 2
                          ELSE IF Formatter!top.unnamed /\ Formatter!top.fields = 1 THEN 2
                          ELSE 1
      BY <1>6, <2>2, <2>4 DEF Formatter!FinishFields, Formatter!Puts
    <3>2. n \in {0, j + 1, 2, 1}
      BY Zenon, <3>1
    <3>3. n \in Nat
      BY <2>3, <3>2
    <3> QED BY <3>1, <3>3
  <2>5. CASE Formatter!FinishList
    <3>1. PICK n : /\ out' = out + n /\ fmt' = [back EXCEPT !.bytes_written = @ + n]
                   /\ n = (IF fmt.pretty THEN j ELSE 0) + 1
      BY <1>6, <2>2, <2>5 DEF Formatter!FinishList, Formatter!Puts
    <3>2. n \in {j + 1, 0 + 1}
      BY Zenon, <3>1
    <3>3. n \in Nat
      BY <2>3, <3>2
    <3> QED BY <3>1, <3>3
  <2> QED BY <2>4, <2>5
<1>8. fmt' = [fmt EXCEPT !.bytes_written = fmt.bytes_written + n, !.indentation = k]
  BY <1>1, <1>5, <1>6, <1>7 DEF FmtRecord
<1>9. k - leaked' = fmt.indentation - leaked - (IF fmt.pretty THEN 1 ELSE 0)
  BY <1>1, <1>2, <1>4
<1> QED BY <1>1, <1>2, <1>7, <1>8, <1>9, BuilderClosed

LEMMA SetFinished ==
  ASSUME FmtInv, Formatter!FinishSet
  PROVE  FmtInv'
<1>1. /\ fmt.indentation \in Nat /\ leaked \in Nat /\ fmt.pretty \in BOOLEAN
      /\ fmt \in FmtRecord
  BY FmtFields DEF FmtInv, FmtTyped
<1>2. /\ open # << >> /\ open' = Formatter!Pop /\ out' = out + 1
      /\ leaked' = (IF fmt.pretty THEN leaked + 1 ELSE leaked)
      /\ Formatter!top.kind \in Formatter!Builder
      /\ fmt' = [fmt EXCEPT !.bytes_written = @ + 1]
  BY DEF Formatter!FinishSet, Formatter!Builder, Formatter!Puts, Formatter!Writing
<1>3. PICK k \in Nat : k = fmt.indentation
  BY <1>1
<1>4. fmt' = [fmt EXCEPT !.bytes_written = fmt.bytes_written + 1, !.indentation = k]
  BY <1>1, <1>2, <1>3 DEF FmtRecord
<1>5. /\ leaked' \in Nat
      /\ k - leaked' = fmt.indentation - leaked - (IF fmt.pretty THEN 1 ELSE 0)
  BY <1>1, <1>2, <1>3
<1> QED BY <1>2, <1>4, <1>5, BuilderClosed

(* Text, and what surrounds an entry, is written.                          *)
LEMMA TextWritten ==
  ASSUME FmtInv, Length \subseteq Nat,
         NEW n \in Length, Formatter!WriteStr(n) \/ Formatter!WriteNumber(n)
  PROVE  FmtInv'
<1>0. /\ fmt.width \in Int /\ open \in Seq(Opened)
      /\ fmt.bytes_written \in Nat
  BY FmtFields DEF FmtInv, FmtTyped
<1>1. PICK m \in Nat : out' = out + m /\ fmt' = Formatter!Writing(m)
  <2>1. CASE Formatter!WriteStr(n)
    BY <2>1 DEF Formatter!WriteStr, Formatter!Puts
  <2>2. CASE Formatter!WriteNumber(n)
    <3>1. PICK m : /\ m = IF fmt.width > n THEN fmt.width ELSE n
                   /\ out' = out + m /\ fmt' = Formatter!Writing(m)
      BY <2>2 DEF Formatter!WriteNumber, Formatter!Puts
    <3>2. m \in Nat
      BY <1>0, <3>1
    <3> QED BY <3>1, <3>2
  <2> QED BY <2>1, <2>2
<1>2. open' = open /\ leaked' = leaked
  BY DEF Formatter!WriteStr, Formatter!WriteNumber
<1>3. fmt' = [fmt EXCEPT !.bytes_written = @ + m]
  BY <1>1 DEF Formatter!Writing
<1> QED BY <1>0, <1>1, <1>2, <1>3, WritesKept

(* A builder's record with an entry begun or ended.                        *)
LEMMA EntryTurned ==
  ASSUME FmtTyped, open # << >>, Formatter!top.kind \in Formatter!Builder,
         NEW o \in BuilderRecord, o.kind = Formatter!top.kind, o.pretty = Formatter!top.pretty,
         open' = [open EXCEPT ![Len(open)] = o]
  PROVE  /\ open' \in Seq(Opened) /\ Len(open') = Len(open)
         /\ \A i \in 1..Len(open) :
            /\ open'[i].kind = open[i].kind
            /\ open[i].kind \in Formatter!Builder => open'[i].pretty = open[i].pretty
            /\ open[i].kind \in Formatter!Scope => open'[i] = open[i]
<1>1. o \in Opened
  BY DEF Opened
<1>2. /\ open \in Seq(Opened) /\ Len(open) \in 1..Len(open)
      /\ Formatter!top = open[Len(open)]
  BY TopIs
<1>3. open' \in Seq(Opened) /\ Len(open') = Len(open)
  BY <1>1, <1>2
<1>4. open'[Len(open)] = o /\ \A i \in 1..Len(open) : i # Len(open) => open'[i] = open[i]
  BY <1>2
<1>5. Formatter!top.kind \notin Formatter!Scope
  BY DEF Formatter!Scope, Formatter!Builder
<1>6. ASSUME NEW i \in 1..Len(open)
      PROVE  /\ open'[i].kind = open[i].kind
             /\ open[i].kind \in Formatter!Builder => open'[i].pretty = open[i].pretty
             /\ open[i].kind \in Formatter!Scope => open'[i] = open[i]
  <2>1. CASE i = Len(open)
    BY <1>2, <1>4, <1>5, <2>1
  <2>2. CASE i # Len(open)
    BY <1>4, <2>2
  <2> QED BY <2>1, <2>2
<1> QED BY <1>3, <1>6

LEMMA EntryBegun ==
  ASSUME FmtInv, Formatter!BeginEntry
  PROVE  FmtInv'
<1>0. FmtTyped
  BY DEF FmtInv
<1>1. /\ open # << >> /\ Formatter!top.kind \in Formatter!Builder /\ leaked' = leaked
      /\ open' = [open EXCEPT ![Len(open)].inside = TRUE, ![Len(open)].first = FALSE,
                              ![Len(open)].fields = IF @ < 2 THEN @ + 1 ELSE @]
  BY DEF Formatter!BeginEntry
<1>2. Formatter!top \in BuilderRecord /\ Formatter!top = open[Len(open)]
  BY <1>0, <1>1, TopIs DEF Opened, ScopeRecord, Formatter!Scope, Formatter!Builder
<1>3. Len(open) \in 1..Len(open) /\ open \in Seq(Opened)
  BY <1>0, <1>1, TopIs
<1>4. PICK k : k = IF Formatter!top.fields < 2 THEN Formatter!top.fields + 1
                   ELSE Formatter!top.fields
  OBVIOUS
<1>5. k \in 0..2
  <2>1. Formatter!top.fields \in 0..2
    BY <1>2 DEF BuilderRecord
  <2> QED BY <1>4, <2>1
<1>6. PICK o : o = [Formatter!top EXCEPT !.inside = TRUE, !.first = FALSE, !.fields = k]
  OBVIOUS
<1>7. /\ o \in BuilderRecord /\ o.kind = Formatter!top.kind
      /\ o.pretty = Formatter!top.pretty
  BY <1>2, <1>5, <1>6 DEF BuilderRecord
<1>8. open' = [open EXCEPT ![Len(open)] = o]
  BY <1>1, <1>2, <1>3, <1>4, <1>6, <1>7 DEF BuilderRecord
<1>9. PICK m \in Nat : out' = out + m /\ fmt' = Formatter!Writing(m)
  <2>1. fmt.indentation \in Nat
    BY <1>0, FmtFields
  <2>2. PICK j \in Nat : j = Formatter!Indent(fmt)
    BY <2>1 DEF Formatter!Indent
  <2>a. PICK opener :
           opener = IF ~Formatter!top.first THEN IF fmt.pretty THEN 0 ELSE 2
                    ELSE CASE Formatter!top.kind = "struct" -> 3
                           [] Formatter!top.kind = "tuple" -> IF fmt.pretty THEN 2 ELSE 1
                           [] OTHER -> IF fmt.pretty THEN 1 ELSE 0
    OBVIOUS
  <2>b. opener \in {0, 1, 2, 3}
    BY <2>a, Zenon
  <2>c. PICK m : m = opener + (IF fmt.pretty THEN j ELSE 0)
    OBVIOUS
  <2>3. /\ opener \in {0, 1, 2, 3}
        /\ m = opener + (IF fmt.pretty THEN j ELSE 0)
        /\ out' = out + m /\ fmt' = Formatter!Writing(m)
    BY <2>2, <2>a, <2>b, <2>c, Zenon DEF Formatter!BeginEntry, Formatter!Puts
  <2>4. m = opener + j \/ m = opener + 0
    BY Zenon, <2>3
  <2>5. opener \in Nat
    BY <2>3
  <2>6. m \in Nat
    BY ONLY <2>4, <2>5
  <2> QED BY <2>3, <2>6
<1>10. fmt' = [fmt EXCEPT !.bytes_written = @ + m]
  BY <1>9 DEF Formatter!Writing
<1> QED BY <1>0, <1>1, <1>7, <1>8, <1>9, <1>10, EntryTurned, WritesKept

LEMMA EntryEnded ==
  ASSUME FmtInv, Formatter!EndEntry
  PROVE  FmtInv'
<1>0. FmtTyped
  BY DEF FmtInv
<1>1. /\ open # << >> /\ Formatter!top.kind \in Formatter!Builder /\ leaked' = leaked
      /\ open' = [open EXCEPT ![Len(open)].inside = FALSE]
  BY DEF Formatter!EndEntry
<1>2. Formatter!top \in BuilderRecord /\ Formatter!top = open[Len(open)]
  BY <1>0, <1>1, TopIs DEF Opened, ScopeRecord, Formatter!Scope, Formatter!Builder
<1>3. Len(open) \in 1..Len(open) /\ open \in Seq(Opened)
  BY <1>0, <1>1, TopIs
<1>4. PICK o : o = [Formatter!top EXCEPT !.inside = FALSE]
  OBVIOUS
<1>5. /\ o \in BuilderRecord /\ o.kind = Formatter!top.kind
      /\ o.pretty = Formatter!top.pretty
  BY <1>2, <1>4 DEF BuilderRecord
<1>6. open' = [open EXCEPT ![Len(open)] = o]
  BY <1>1, <1>2, <1>3, <1>4
<1>7. PICK m : m \in {0, 2} /\ out' = out + m /\ fmt' = Formatter!Writing(m)
  BY DEF Formatter!EndEntry, Formatter!Puts
<1>8. m \in Nat
  BY <1>7
<1>9. fmt' = [fmt EXCEPT !.bytes_written = @ + m]
  BY <1>7 DEF Formatter!Writing
<1> QED BY <1>0, <1>1, <1>5, <1>6, <1>7, <1>8, <1>9, EntryTurned, WritesKept

(* A new Formatter has nothing open.                                       *)
LEMMA FreshSettings ==
  /\ Formatter!Fresh \in FmtRecord
  /\ Formatter!Fresh.indentation = 0 /\ Formatter!Fresh.bytes_written = 0
  /\ Formatter!Fresh.pretty = FALSE /\ Formatter!Fresh.hex = FALSE
  /\ Formatter!Fresh.width = -1 /\ Formatter!Fresh.pad = " "
BY DEF Formatter!Fresh, FmtRecord

SameFields(x, y) ==
    /\ x.indentation = y.indentation /\ x.bytes_written = y.bytes_written
    /\ x.pretty = y.pretty /\ x.hex = y.hex /\ x.width = y.width /\ x.pad = y.pad

LEMMA FmtByFields ==
  ASSUME NEW x \in FmtRecord, NEW y \in FmtRecord, SameFields(x, y)
  PROVE  x = y
<1> DEFINE Fields == {"indentation", "pretty", "hex", "width", "pad", "bytes_written"}
<1>1. \A z \in FmtRecord : z = [field \in Fields |-> z[field]]
  BY DEF FmtRecord
<1>2. \A field \in Fields : x[field] = y[field]
  BY Zenon DEF SameFields
<1> HIDE DEF Fields
<1>3. [field \in Fields |-> x[field]] = [field \in Fields |-> y[field]]
  BY <1>2
<1> QED BY Zenon, <1>1, <1>3

LEMMA FreshWith ==
  ASSUME NEW k \in Nat, NEW b \in Nat, fmt \in FmtRecord,
         fmt.indentation = k, fmt.bytes_written = b, Formatter!Settings = Plain
  PROVE  fmt = [Formatter!Fresh EXCEPT !.indentation = k, !.bytes_written = b]
<1>1. PICK r : r = [Formatter!Fresh EXCEPT !.indentation = k, !.bytes_written = b]
  OBVIOUS
<1>2. /\ r \in FmtRecord /\ r.indentation = k /\ r.bytes_written = b
      /\ r.pretty = Formatter!Fresh.pretty /\ r.hex = Formatter!Fresh.hex
      /\ r.width = Formatter!Fresh.width /\ r.pad = Formatter!Fresh.pad
  BY <1>1, FreshSettings DEF FmtRecord
<1>3. /\ fmt.pretty = r.pretty /\ fmt.hex = r.hex /\ fmt.width = r.width /\ fmt.pad = r.pad
  BY Zenon, <1>2, FreshSettings, SettingsFields DEF Plain
<1>4. fmt = r
  <2>1. fmt.indentation = r.indentation /\ fmt.bytes_written = r.bytes_written
    BY Zenon, <1>2
  <2>2. SameFields(fmt, r)
    BY Zenon, <1>3, <2>1 DEF SameFields
  <2> QED BY <1>2, <2>2, FmtByFields
<1> QED BY Zenon, <1>1, <1>4

LEMMA NoLayers ==
  /\ << >> \in Seq(Opened) /\ Len(<< >>) = 0 /\ 1..0 = {} /\ 0..0 = {0} /\ 0 = 0 + 0
  /\ Plain \in Setting /\ [i \in {0} |-> Plain] \in [{0} -> Setting]
  /\ [i \in {0} |-> Plain][0] = Plain
<1>1. << >> \in Seq(Opened) /\ Len(<< >>) = 0 /\ 1..0 = {} /\ 0..0 = {0} /\ 0 = 0 + 0
  OBVIOUS
<1>2. 0 = 0 + 0
  OBVIOUS
<1>3. Plain \in Setting
  BY DEF Plain, Setting
<1>4. /\ [i \in {0} |-> Plain] \in [{0} -> Setting]
      /\ [i \in {0} |-> Plain][0] = Plain
  BY <1>3
<1> QED BY Zenon, <1>1, <1>2, <1>3, <1>4

LEMMA FmtBegins ==
  ASSUME fmt = Formatter!Fresh, open = << >>, out = 0, leaked = 0
  PROVE  FmtInv
<1>1. FmtTyped
  BY FreshSettings, NoLayers DEF FmtTyped
<1>2. Len(open) = 0 /\ 1..Len(open) = {} /\ 0..Len(open) = {0}
  BY Zenon, NoLayers
<1>3. Formatter!Settings = Plain
  BY Zenon, FreshSettings DEF Formatter!Settings, Plain
<1>4. Layered
  <2>1. PICK f : f = [i \in {0} |-> Plain]
    BY Zenon
  <2>2. f \in [{0} -> Setting] /\ f[0] = Plain
    BY Zenon, <2>1, NoLayers
  <2>3. Layers(f)
    BY Zenon, <1>2, <1>3, <2>2 DEF Layers
  <2> QED BY <2>3 DEF Layered
<1>5. Counted
  <2>1. Formatter!Stepped = {}
    BY Zenon, <1>2 DEF Formatter!Stepped
  <2>2. Cardinality({}) = 0
    BY FS_EmptySet
  <2>3. fmt.indentation = 0 + leaked
    BY Zenon, FreshSettings, NoLayers
  <2> QED BY Zenon, <2>1, <2>2, <2>3 DEF Counted
<1>6. StartsBehind
  BY Zenon, <1>2 DEF StartsBehind
<1> QED BY <1>1, <1>4, <1>5, <1>6 DEF FmtInv

LEMMA NoneWritten ==
  ASSUME FmtTyped
  PROVE  0 <= fmt.bytes_written
<1>1. fmt.bytes_written \in Nat
  BY FmtFields
<1> QED BY <1>1

LEMMA WidthEntered ==
  ASSUME FmtInv, Width \subseteq Nat,
         NEW p \in BOOLEAN, NEW h \in BOOLEAN, NEW w \in Width, NEW pad,
         pad \in {" ", "0"}, Formatter!EnterWidth(p, h, w, pad)
  PROVE  FmtInv'
<1>0. fmt.indentation \in Nat /\ fmt \in FmtRecord
  BY FmtFields DEF FmtInv, FmtTyped
<1>1. w \in Int
  BY ONLY Width \subseteq Nat, w \in Width
<1>2. fmt' = [fmt EXCEPT !.pretty = p, !.hex = h, !.width = w, !.pad = pad,
                         !.bytes_written = 0]
  BY DEF Formatter!EnterWidth, Formatter!Enter
<1>3. /\ fmt' \in FmtRecord /\ fmt'.indentation = fmt.indentation
      /\ fmt'.bytes_written = 0
  BY <1>0, <1>1, <1>2 DEF FmtRecord
<1>4. fmt'.bytes_written <= fmt.bytes_written
  <2>1. 0 <= fmt.bytes_written
    BY NoneWritten DEF FmtInv
  <2> QED BY Zenon, <1>3, <2>1
<1>5. /\ "fixed_width" \in Formatter!Scope /\ "fixed_width" # "pretty"
      /\ "fixed_width" \notin {"pretty", "hex"}
  BY DEF Formatter!Scope
<1>6. /\ open' = Append(open, [kind |-> "fixed_width", old |-> Formatter!Settings,
                               start |-> out])
      /\ UNCHANGED <<out, leaked>>
  BY DEF Formatter!EnterWidth, Formatter!Enter
<1> QED BY <1>3, <1>4, <1>5, <1>6, ScopeEntered

(* Every step of the Formatter keeps its settings in layers.               *)
LEMMA FmtKept ==
  ASSUME FmtInv, Length \subseteq Nat, Width \subseteq Nat, Formatter!Next
  PROVE  FmtInv'
<1>0. /\ fmt.indentation \in Nat /\ fmt.pretty \in BOOLEAN /\ fmt.hex \in BOOLEAN
      /\ fmt.width \in Int /\ fmt.bytes_written \in Nat /\ fmt \in FmtRecord
  BY FmtFields DEF FmtInv, FmtTyped
<1>1. CASE \E n \in Length : Formatter!WriteStr(n) \/ Formatter!WriteNumber(n)
  BY <1>1, TextWritten
<1>2. CASE Formatter!NextWrite
  <2>1. fmt' = Formatter!Fresh /\ open' = << >> /\ out' = 0 /\ leaked' = 0
    BY <1>2 DEF Formatter!NextWrite
  <2>2. (fmt = Formatter!Fresh /\ open = << >> /\ out = 0 /\ leaked = 0 => FmtInv)'
    BY FmtBegins, PTL
  <2> QED BY <2>1, <2>2
<1>3. CASE Formatter!EnterPretty
  <2>1. fmt' = [fmt EXCEPT !.pretty = TRUE]
    BY <1>3 DEF Formatter!EnterPretty, Formatter!Enter
  <2>2. /\ fmt' \in FmtRecord /\ fmt'.indentation = fmt.indentation
        /\ fmt'.bytes_written = fmt.bytes_written
        /\ fmt'.hex = fmt.hex /\ fmt'.width = fmt.width /\ fmt'.pad = fmt.pad
    BY <1>0, <2>1 DEF FmtRecord
  <2>3. fmt'.bytes_written <= fmt.bytes_written
    BY <1>0, <2>2
  <2>4. "pretty" \in Formatter!Scope /\ "pretty" # "fixed_width"
    BY DEF Formatter!Scope
  <2>5. /\ open' = Append(open, [kind |-> "pretty", old |-> Formatter!Settings, start |-> out])
        /\ UNCHANGED <<out, leaked>>
    BY <1>3 DEF Formatter!EnterPretty, Formatter!Enter
  <2> QED BY <2>2, <2>3, <2>4, <2>5, ScopeEntered
<1>4. CASE \E p \in BOOLEAN : Formatter!EnterHex(p)
  <2> SUFFICES ASSUME NEW p \in BOOLEAN, Formatter!EnterHex(p)
               PROVE  FmtInv'
    BY <1>4
  <2>1. fmt' = [fmt EXCEPT !.pretty = p, !.hex = TRUE]
    BY DEF Formatter!EnterHex, Formatter!Enter
  <2>2. /\ fmt' \in FmtRecord /\ fmt'.indentation = fmt.indentation
        /\ fmt'.bytes_written = fmt.bytes_written
        /\ fmt'.width = fmt.width /\ fmt'.pad = fmt.pad
    BY <1>0, <2>1 DEF FmtRecord
  <2>3. fmt'.bytes_written <= fmt.bytes_written
    BY <1>0, <2>2
  <2>4. "hex" \in Formatter!Scope /\ "hex" # "fixed_width" /\ "hex" # "pretty"
    BY DEF Formatter!Scope
  <2>5. /\ open' = Append(open, [kind |-> "hex", old |-> Formatter!Settings, start |-> out])
        /\ UNCHANGED <<out, leaked>>
    BY DEF Formatter!EnterHex, Formatter!Enter
  <2> QED BY <2>2, <2>3, <2>4, <2>5, ScopeEntered
<1>5. CASE \E p, h \in BOOLEAN, w \in Width, pad \in {" ", "0"} :
              Formatter!EnterWidth(p, h, w, pad)
  BY <1>5, WidthEntered
<1>6. CASE Formatter!Leave
  BY <1>6, ScopeLeft
<1>7. CASE \E kind \in Formatter!Builder, n \in Length : Formatter!OpenBuilder(kind, n)
  <2> SUFFICES ASSUME NEW kind \in Formatter!Builder, NEW n \in Length,
                      Formatter!OpenBuilder(kind, n)
               PROVE  FmtInv'
    BY <1>7
  <2>1. PICK o : o = [kind |-> kind, pretty |-> fmt.pretty, inside |-> FALSE,
                      first |-> TRUE, fields |-> 0, unnamed |-> n = 0]
    OBVIOUS
  <2>2. o \in BuilderRecord /\ o.pretty = fmt.pretty
    <3>1. (n = 0) \in BOOLEAN /\ 0 \in 0..2
      OBVIOUS
    <3> QED BY <1>0, <2>1, <3>1 DEF BuilderRecord
  <2>3. /\ open' = Append(open, o) /\ out' = out + n /\ UNCHANGED leaked
        /\ fmt' = [Formatter!Writing(n) EXCEPT !.indentation = IF fmt.pretty THEN @ + 1 ELSE @]
    BY <2>1 DEF Formatter!OpenBuilder, Formatter!Puts
  <2>4. fmt' = [fmt EXCEPT !.bytes_written = fmt.bytes_written + n,
                           !.indentation = IF fmt.pretty THEN fmt.indentation + 1
                                           ELSE fmt.indentation]
    <3>1. PICK b : b = fmt.bytes_written + n
      OBVIOUS
    <3>2. Formatter!Writing(n) = [fmt EXCEPT !.bytes_written = b]
      BY <1>0, <3>1 DEF Formatter!Writing, FmtRecord
    <3> QED BY <1>0, <2>3, <3>1, <3>2 DEF FmtRecord
  <2> QED BY <2>2, <2>3, <2>4, BuilderOpened
<1>8. CASE Formatter!BeginEntry
  BY <1>8, EntryBegun
<1>9. CASE Formatter!EndEntry
  BY <1>9, EntryEnded
<1>10. CASE Formatter!FinishFields \/ Formatter!FinishList
  BY <1>10, BuilderFinished
<1>11. CASE Formatter!FinishSet
  BY <1>11, SetFinished
<1> QED BY <1>1, <1>2, <1>3, <1>4, <1>5, <1>6, <1>7, <1>8, <1>9, <1>10, <1>11
        DEF Formatter!Next

(* The layers give back what a new Formatter was.                          *)
LEMMA LayersBalance ==
  ASSUME FmtInv
  PROVE  Formatter!FormatterBalanced
<1>0. FmtTyped /\ Layered /\ Counted
  BY DEF FmtInv
<1>1. fmt.indentation = Formatter!Cardinality(Formatter!Stepped) + leaked
  BY <1>0, FmtCount DEF Counted
<1>2. ASSUME open = << >>
      PROVE  fmt = [Formatter!Fresh EXCEPT !.indentation = leaked,
                                          !.bytes_written = fmt.bytes_written]
  <2>1. Len(open) = 0 /\ 1..Len(open) = {}
    BY Zenon, <1>2, NoLayers
  <2>2. Formatter!Settings = Plain
    BY <1>0, <2>1 DEF Layered, Layers
  <2>3. fmt.indentation = leaked
    <3>1. Formatter!Stepped = {}
      BY Zenon, <2>1 DEF Formatter!Stepped
    <3>2. leaked \in Nat /\ Cardinality({}) = 0
      BY <1>0, FS_EmptySet DEF FmtTyped
    <3>3. fmt.indentation = 0 + leaked
      BY Zenon, <1>0, <3>1, <3>2 DEF Counted
    <3> QED BY <3>2, <3>3
  <2>4. fmt.bytes_written \in Nat /\ leaked \in Nat /\ fmt \in FmtRecord
    BY <1>0, FmtFields DEF FmtTyped
  <2> QED BY <2>2, <2>3, <2>4, FreshWith
<1> QED BY <1>1, <1>2 DEF Formatter!FormatterBalanced

(* Whatever is printed, and wherever a write fails, the Formatter's        *)
(* settings are those of what is open, its indentation counts the pretty   *)
(* builders and the maps and sets that never step back, and a text printed *)
(* with a width and blanks reaches it (ufmt/src/lib.rs:291, :358).         *)
THEOREM FormatterStaysBalanced == Spec => FormatterBalanced
<1>1. Init => FmtInv
  BY FmtBegins DEF Init, Formatter!Init
<1>2. FmtInv /\ [Next]_vars => FmtInv' /\ (UNCHANGED formatter \/ Formatter!WidthReached)
  <2> SUFFICES ASSUME FmtInv, [Next]_vars
               PROVE  FmtInv' /\ (UNCHANGED formatter \/ Formatter!WidthReached)
    OBVIOUS
  <2>1. CASE Formatter!Next
    <3>1. Length \subseteq Nat /\ Width \subseteq Nat
      BY LibraryAssumption DEF LibraryAssumption, Formatter!UfmtAssumption
    <3> QED BY <2>1, <3>1, FmtKept, WidthStaysReached
  <2>2. CASE UNCHANGED formatter
    <3>1. /\ fmt' = fmt /\ open' = open /\ out' = out /\ leaked' = leaked
      BY <2>2 DEF formatter
    <3>2. FmtTyped' /\ Counted' /\ StartsBehind'
      BY <3>1 DEF FmtInv, FmtTyped, Counted, StartsBehind, Formatter!Stepped
    <3>3. Layered'
      BY <3>1 DEF FmtInv, Layered, Layers, Formatter!Settings
    <3> QED BY <2>2, <3>2, <3>3 DEF FmtInv
  <2> QED BY <2>1, <2>2 DEF Next, vars, RingNext, PinsNext, StepperNext, FakeNext,
          FormatterNext, LinesNext, SensorNext, DeviceNext
<1>3. FmtInv' => Formatter!FormatterBalanced'
  BY LayersBalance, PTL
<1>4. FmtInv /\ [Next]_vars
        => [Formatter!FormatterBalanced' /\ Formatter!WidthReached]_formatter
  BY <1>2, <1>3
<1> QED BY <1>1, <1>2, <1>4, PTL DEF Spec, FormatterBalanced

(***************************************************************************)
(* Padded numbers.  What is put into a buffer goes before what is there;   *)
(* no type has more digits, prefix and sign than its buffer has bytes, and *)
(* no width is larger than a buffer.                                       *)
(***************************************************************************)
Glyph == {"0", "x", "-", " "} \cup 0..9

LEMMA PutIs ==
  ASSUME NEW i, NEW s, NEW t
  PROVE  Numbers!Put([at |-> i, text |-> s], t) = [at |-> i - Len(t), text |-> t \o s]
BY DEF Numbers!Put

(* n are missing of w, with s put from i on into a buffer of len.          *)
FillsUp(i, s, len, w, pad, n) ==
    /\ n > 0 => Numbers!Fill([at |-> i, text |-> s], len, w, pad)
                   = [at |-> i - Len(Numbers!Filler(n, pad)),
                      text |-> Numbers!Filler(n, pad) \o s]
    /\ ~(n > 0) => Numbers!Fill([at |-> i, text |-> s], len, w, pad) = [at |-> i, text |-> s]

LEMMA FillIs ==
  ASSUME NEW i, NEW s, NEW len, NEW w, NEW pad, NEW n, n = i - (len - w)
  PROVE  FillsUp(i, s, len, w, pad, n)
<1>1. PICK b : b = [at |-> i, text |-> s]
  OBVIOUS
<1>2. b.at = i
  BY <1>1, Zenon
<1>3. n > 0 => Numbers!Fill(b, len, w, pad) = Numbers!Put(b, Numbers!Filler(n, pad))
  BY <1>2, Zenon DEF Numbers!Fill
<1>4. ~(n > 0) => Numbers!Fill(b, len, w, pad) = b
  BY <1>2, Zenon DEF Numbers!Fill
<1> QED BY <1>1, <1>3, <1>4, PutIs, Zenon DEF FillsUp

LEMMA FillerIs ==
  ASSUME NEW U, NEW pad \in U, NEW n \in Nat
  PROVE  Numbers!Filler(n, pad) \in Seq(U) /\ Len(Numbers!Filler(n, pad)) = n
BY DEF Numbers!Filler

(* Filled up to w of len bytes: s behind the filling, which is empty when  *)
(* nothing is missing.                                                     *)
Filling(n, pad) == IF n > 0 THEN Numbers!Filler(n, pad) ELSE << >>
FilledUp(U, i, s, len, w, pad) ==
    \E f \in Seq(U), j \in Nat, m \in Nat :
        /\ f = Filling(w - Len(s), pad) /\ m = Len(f) /\ j = len - Len(s) - m /\ j >= 0
        /\ m + Len(s) <= w \/ m = 0
        /\ Numbers!Fill([at |-> i, text |-> s], len, w, pad) = [at |-> j, text |-> f \o s]

LEMMA Filled ==
  ASSUME NEW U, NEW s \in Seq(U), NEW pad \in U, NEW len \in Nat, NEW w \in Int,
         NEW i \in Nat, i = len - Len(s), w <= len
  PROVE  FilledUp(U, i, s, len, w, pad)
<1>1. PICK k \in Nat : k = Len(s)
  BY LenProperties, Zenon
<1>2. PICK n \in Int : n = w - k
  BY <1>1
<1>3. n = i - (len - w)
  BY <1>1, <1>2
<1>4. CASE n > 0
  <2>1. PICK f \in Seq(U) : f = Numbers!Filler(n, pad) /\ Len(f) = n
    <3>1. n \in Nat
      BY <1>2, <1>4
    <3> QED BY <3>1, FillerIs, Zenon
  <2>2. Numbers!Fill([at |-> i, text |-> s], len, w, pad) = [at |-> i - n, text |-> f \o s]
    <3>1. FillsUp(i, s, len, w, pad, n)
      BY <1>3, FillIs, Zenon
    <3> QED BY <1>4, <2>1, <3>1, Zenon DEF FillsUp
  <2>3. /\ i - n \in Nat /\ i - n = len - k - n /\ i - n >= 0 /\ n + k <= w /\ n \in Nat
    BY <1>1, <1>2, <1>3, <1>4
  <2> QED BY <1>1, <1>2, <1>4, <2>1, <2>2, <2>3, Zenon DEF FilledUp, Filling
<1>5. CASE ~(n > 0)
  <2>1. Numbers!Fill([at |-> i, text |-> s], len, w, pad) = [at |-> i, text |-> s]
    <3>1. FillsUp(i, s, len, w, pad, n)
      BY <1>3, FillIs, Zenon
    <3> QED BY <1>5, <3>1, Zenon DEF FillsUp
  <2>2. PICK f \in Seq(U) : f = << >> /\ Len(f) = 0 /\ f \o s = s
    BY EmptySeq, ConcatEmptySeq, Zenon
  <2>3. i = len - k - 0 /\ i >= 0 /\ 0 \in Nat
    BY <1>1
  <2> QED BY <1>1, <1>2, <1>5, <2>1, <2>2, <2>3, Zenon DEF FilledUp, Filling
<1> QED BY <1>4, <1>5

(* What is asked for, of digits d behind a prefix.                         *)
Between(w, pad, prefix, d) == Filling(w - Len(prefix) - Len(d), pad)
Wanted(w, pad, prefix, d) ==
    IF pad = " " THEN Between(w, pad, prefix, d) \o prefix \o d
    ELSE prefix \o Between(w, pad, prefix, d) \o d

(* Inside the buffer, and as asked or refused.                             *)
PrintsWell(b, w, pad, prefix, d) ==
    /\ b.at >= 0
    /\ \/ b.text = Wanted(w, pad, prefix, d)
       \/ b.text = <<"panic">> /\ pad = "0" /\ w < 2

(* The sums of the code: p digits of the prefix and n of the number go     *)
(* into len bytes, w of them asked for.                                    *)
PadSums(len, w, p, n) ==
    /\ len - n \in Nat /\ len - (p + n) \in Nat /\ len - (p + n) >= 0
    /\ w - (p + n) = w - p - n /\ (len - n) - p = len - (p + n)
    /\ w = -1 => ~(w - p - n > 0)
    /\ w < p => w < 2
    /\ w - p \in Int /\ w - p <= len
    /\ 0 >= 0

LEMMA PadSumsAre ==
  ASSUME NEW len \in Nat, NEW w \in Int, NEW p \in Nat, NEW n \in Nat,
         p + n <= len, p <= 2, w <= len
  PROVE  PadSums(len, w, p, n)
BY DEF PadSums

LEMMA ZerosFit ==
  ASSUME NEW len \in Nat, NEW w \in Int, NEW p \in Nat, NEW n \in Nat, NEW m \in Nat, NEW j,
         p + n <= len, w <= len, m + n <= w - p \/ m = 0, j = len - n - m
  PROVE  j - p >= 0
OBVIOUS

LEMMA PrintsWhat ==
  ASSUME NEW b, NEW a, NEW s, b = [at |-> a, text |-> s], a >= 0,
         NEW w, NEW pad, NEW prefix, NEW d,
         s = Wanted(w, pad, prefix, d) \/ (s = <<"panic">> /\ pad = "0" /\ w < 2)
  PROVE  PrintsWell(b, w, pad, prefix, d)
<1>1. b.at = a /\ b.text = s
  BY Zenon
<1> QED BY <1>1, Zenon DEF PrintsWell

FillsWith(i, s, len, w, pad, t) ==
    \E j : j >= 0 /\ Numbers!Fill([at |-> i, text |-> s], len, w, pad) = [at |-> j, text |-> t]
FillsBehind(i, s, len, w, pad, prefix, t) ==
    \E j : /\ j >= 0
           /\ Numbers!Put(Numbers!Fill([at |-> i, text |-> s], len, w, pad), prefix)
                 = [at |-> j, text |-> t]

(* Three sequences joined, by either pair first.                            *)
Regroups(S, a, b, c) == (a \o b) \o c = a \o (b \o c)

LEMMA Regrouped ==
  ASSUME NEW S, NEW a \in Seq(S), NEW b \in Seq(S), NEW c \in Seq(S)
  PROVE  Regroups(S, a, b, c)
BY ConcatAssociative DEF Regroups

(* Digits and prefix in one: blanks before them.                           *)
LEMMA PaddedWithBlanks ==
  ASSUME NEW U, NEW d \in Seq(U), NEW prefix \in Seq(U), NEW len \in Nat,
         NEW w \in Int, NEW pad \in U, w <= len,
         NEW p \in Nat, p = Len(prefix), NEW n \in Nat, n = Len(d),
         NEW s \in Seq(U), s = prefix \o d, Len(s) = p + n,
         NEW i \in Nat, i = len - (p + n), w - (p + n) = w - p - n
  PROVE  FillsWith(i, s, len, w, pad, (Between(w, pad, prefix, d) \o prefix) \o d)
<1>1. FilledUp(U, i, s, len, w, pad)
  BY Filled, Zenon
<1>2. PICK f \in Seq(U), j \in Nat :
        /\ f = Filling(w - Len(s), pad) /\ j >= 0
        /\ Numbers!Fill([at |-> i, text |-> s], len, w, pad) = [at |-> j, text |-> f \o s]
  BY <1>1, Zenon DEF FilledUp
<1>3. f = Between(w, pad, prefix, d)
  BY <1>2, Zenon DEF Between
<1>4. f \in Seq(U)
  BY <1>2
<1>5. (f \o prefix) \o d = f \o (prefix \o d)
  <2>1. Regroups(U, f, prefix, d)
    BY <1>4, Regrouped, Zenon
  <2> QED BY <2>1, Zenon DEF Regroups
<1> QED BY <1>2, <1>3, <1>5, Zenon DEF FillsWith

(* Digits alone: zeros before them, and then the prefix.                   *)
LEMMA PaddedWithZeros ==
  ASSUME NEW U, NEW d \in Seq(U), NEW prefix \in Seq(U), NEW len \in Nat,
         NEW w \in Int, NEW pad \in U, w <= len,
         NEW p \in Nat, p = Len(prefix), NEW n \in Nat, n = Len(d), p + n <= len,
         NEW v \in Int, v = w - p, v <= len, NEW i \in Nat, i = len - n
  PROVE  FillsBehind(i, d, len, v, pad, prefix, (prefix \o Between(w, pad, prefix, d)) \o d)
<1>1. FilledUp(U, i, d, len, v, pad)
  BY Filled, Zenon
<1>2. PICK f \in Seq(U), j \in Nat, m \in Nat :
        /\ f = Filling(v - n, pad) /\ j = len - n - m
        /\ m + n <= v \/ m = 0
        /\ Numbers!Fill([at |-> i, text |-> d], len, v, pad) = [at |-> j, text |-> f \o d]
  BY <1>1, Zenon DEF FilledUp
<1>3. f = Between(w, pad, prefix, d)
  BY <1>2, Zenon DEF Between
<1>4. f \in Seq(U)
  BY <1>2
<1>5. (prefix \o f) \o d = prefix \o (f \o d)
  <2>1. Regroups(U, prefix, f, d)
    BY <1>4, Regrouped, Zenon
  <2> QED BY <2>1, Zenon DEF Regroups
<1>6. Numbers!Put([at |-> j, text |-> f \o d], prefix) = [at |-> j - p, text |-> prefix \o (f \o d)]
  BY PutIs, Zenon
<1>7. j - p >= 0
  BY <1>2, ZerosFit, Zenon
<1> QED BY <1>2, <1>3, <1>5, <1>6, <1>7, Zenon DEF FillsBehind

LEMMA Padded ==
  ASSUME NEW U, NEW d \in Seq(U), NEW prefix \in Seq(U), NEW len \in Nat,
         NEW w \in Int, NEW pad \in U,
         NEW p \in Nat, p = Len(prefix), NEW n \in Nat, n = Len(d),
         p + n <= len, p <= 2, w <= len, pad \in {" ", "0"}, w = -1 => pad = " ",
         d = app.digits, w = app.width, pad = app.pad
  PROVE  PrintsWell(Numbers!PadWith(prefix, len), w, pad, prefix, d)
<1>2. PadSums(len, w, p, n)
  BY PadSumsAre, Zenon
<1>3. PICK b : b = Numbers!Put([at |-> len, text |-> << >>], d)
  OBVIOUS
<1>4. b = [at |-> len - n, text |-> d]
  <2>1. d \o << >> = d
    BY ConcatEmptySeq, Zenon
  <2> QED BY <1>3, <2>1, PutIs, Zenon
<1>5. PICK s \in Seq(U) : s = prefix \o d /\ Len(s) = p + n
  BY ConcatProperties, Zenon
<1>6. Numbers!Put(b, prefix) = [at |-> len - (p + n), text |-> s]
  <2>1. Numbers!Put(b, prefix) = [at |-> (len - n) - p, text |-> s]
    BY <1>4, <1>5, PutIs, Zenon
  <2> QED BY <1>2, <2>1, Zenon DEF PadSums
<1>7. CASE w = -1
  <2>1. Numbers!PadWith(prefix, len) = [at |-> len - (p + n), text |-> s]
    BY <1>3, <1>6, <1>7, Zenon DEF Numbers!PadWith, Numbers!NoWidth
  <2>2. Between(w, pad, prefix, d) = << >>
    BY <1>2, <1>7, Zenon DEF Between, Filling, PadSums
  <2>3. Wanted(w, pad, prefix, d) = s
    <3>1. << >> \o prefix = prefix
      BY ConcatEmptySeq, Zenon
    <3> QED BY <1>5, <1>7, <2>2, <3>1, Zenon DEF Wanted
  <2>4. len - (p + n) >= 0
    BY <1>2, Zenon DEF PadSums
  <2> QED BY <2>1, <2>3, <2>4, PrintsWhat, Zenon
<1>8. CASE w # -1 /\ pad = " "
  <2>1. PICK i \in Nat : i = len - (p + n) /\ w - (p + n) = w - p - n
    BY <1>2, Zenon DEF PadSums
  <2>2. Numbers!PadWith(prefix, len) = Numbers!Fill([at |-> i, text |-> s], len, w, pad)
    BY <1>3, <1>6, <1>8, <2>1, Zenon DEF Numbers!PadWith, Numbers!NoWidth
  <2>3. FillsWith(i, s, len, w, pad, (Between(w, pad, prefix, d) \o prefix) \o d)
    BY <1>5, <2>1, PaddedWithBlanks, Zenon
  <2>4. Wanted(w, pad, prefix, d) = (Between(w, pad, prefix, d) \o prefix) \o d
    BY <1>8, Zenon DEF Wanted
  <2> QED BY <2>2, <2>3, <2>4, PrintsWhat, Zenon DEF FillsWith
<1>9. CASE pad # " " /\ w # -1
  <2>1. CASE w < p
    <3>1. Numbers!PadWith(prefix, len) = [at |-> 0, text |-> <<"panic">>]
      BY <1>9, <2>1, Zenon DEF Numbers!PadWith, Numbers!NoWidth
    <3>2. 0 >= 0 /\ w < 2 /\ pad = "0"
      BY <1>2, <1>9, <2>1, Zenon DEF PadSums
    <3> QED BY <3>1, <3>2, PrintsWhat, Zenon
  <2>2. CASE ~(w < p)
    <3>1. PICK v \in Int, i \in Nat : v = w - p /\ v <= len /\ i = len - n
      BY <1>2, Zenon DEF PadSums
    <3>2. pad = "0"
      BY <1>9, Zenon
    <3>3. Numbers!PadWith(prefix, len)
             = Numbers!Put(Numbers!Fill([at |-> i, text |-> d], len, v, pad), prefix)
      BY <1>3, <1>4, <1>9, <2>2, <3>1, <3>2, Zenon DEF Numbers!PadWith, Numbers!NoWidth
    <3>4. FillsBehind(i, d, len, v, pad, prefix, (prefix \o Between(w, pad, prefix, d)) \o d)
      BY <3>1, PaddedWithZeros, Zenon
    <3>5. Wanted(w, pad, prefix, d) = (prefix \o Between(w, pad, prefix, d)) \o d
      BY <1>9, Zenon DEF Wanted
    <3> QED BY <3>3, <3>4, <3>5, PrintsWhat, Zenon DEF FillsBehind
  <2> QED BY <2>1, <2>2, Zenon
<1> QED BY <1>7, <1>8, <1>9, Zenon

(* No number is longer than the buffer of its impl, and no width is.       *)
Fits(k, pointer) ==
    /\ {k.dec, k.hex, k.size, k.buffer} \subseteq Nat
    /\ pointer => k.hex + 2 <= k.size
    /\ ~pointer => /\ 18 <= k.size /\ 18 <= k.buffer
                   /\ k.dec + 1 <= k.size /\ k.hex + 2 <= k.buffer

LEMMA TypesFit ==
  ASSUME NEW t \in DOMAIN Numbers!Types
  PROVE  Fits(Numbers!Types[t], t \in Numbers!Pointers)
BY DEF Numbers!Types, Numbers!Kind, Numbers!Pointers, Fits

LEMMA DigitsAre ==
  ASSUME NEW n \in Nat
  PROVE  Numbers!Digits(n) \in Seq(Glyph) /\ Len(Numbers!Digits(n)) = n
<1>1. Numbers!Digits(n) \in Seq(0..9) /\ Len(Numbers!Digits(n)) = n
  BY DEF Numbers!Digits
<1>2. 0..9 \subseteq Glyph
  BY Zenon DEF Glyph
<1> QED BY <1>1, <1>2, SeqMonotonic, Zenon

LEMMA PrefixesAre ==
  /\ << >> \in Seq(Glyph) /\ Len(<< >>) = 0
  /\ <<"0", "x">> \in Seq(Glyph) /\ Len(<<"0", "x">>) = 2
  /\ <<"-">> \in Seq(Glyph) /\ Len(<<"-">>) = 1
<1>1. ASSUME NEW S, NEW x \in S, NEW y \in S
      PROVE  /\ <<x, y>> \in Seq(S) /\ Len(<<x, y>>) = 2
             /\ <<x>> \in Seq(S) /\ Len(<<x>>) = 1
  OBVIOUS
<1>2. "0" \in Glyph /\ "x" \in Glyph /\ "-" \in Glyph
  BY Zenon DEF Glyph
<1> QED BY <1>1, <1>2, EmptySeq, Zenon

Prefix == IF app.hex THEN (IF app.pretty THEN <<"0", "x">> ELSE << >>)
          ELSE IF app.negative THEN <<"-">> ELSE << >>

LEMMA ExpectedIs ==
  Numbers!Expected = Wanted(app.width, app.pad, Prefix, app.digits)
BY Zenon DEF Numbers!Expected, Wanted, Between, Filling, Prefix

LEMMA PointerPrinted ==
  ASSUME NEW U, NEW d \in Seq(U), NEW p \in Seq(U), p = <<"0", "x">>, d = app.digits,
         NEW len, NEW j, j = len - (Len(p) + Len(d)), j >= 0, ~(-1 - Len(p) - Len(d) > 0)
  PROVE  PrintsWell(Numbers!ptr_hex(len), -1, " ", p, d)
<1>1. PICK s : s = p \o d /\ Len(s) = Len(p) + Len(d) /\ s \o << >> = s
  <2>1. p \o d \in Seq(U) /\ Len(p \o d) = Len(p) + Len(d)
    BY ConcatProperties, Zenon
  <2> QED BY <2>1, ConcatEmptySeq, Zenon
<1>2. Numbers!ptr_hex(len) = [at |-> j, text |-> s]
  <2>1. Numbers!ptr_hex(len) = Numbers!Put([at |-> len, text |-> << >>], s)
    BY <1>1, Zenon DEF Numbers!ptr_hex
  <2>2. Numbers!Put([at |-> len, text |-> << >>], s) = [at |-> len - Len(s), text |-> s \o << >>]
    BY PutIs, Zenon
  <2> QED BY <1>1, <2>1, <2>2, Zenon
<1>3. Wanted(-1, " ", p, d) = s
  <2>1. Between(-1, " ", p, d) = << >>
    BY Zenon DEF Between, Filling
  <2>2. << >> \o p = p
    BY ConcatEmptySeq, Zenon
  <2> QED BY <1>1, <2>1, <2>2, Zenon DEF Wanted
<1> QED BY <1>2, <1>3, PrintsWhat, Zenon

(* n digits of a type, and the buffers they and a prefix go into.          *)
DigitsFitIn(dec, hex, size, buffer, n, width) ==
    /\ width \in Int
    /\ n <= hex /\ hex + 2 <= size =>
          \E j \in Nat : j = size - (2 + n) /\ j >= 0 /\ ~(-1 - 2 - n > 0)
    /\ n <= hex /\ hex + 2 <= buffer => 2 + n <= buffer /\ 0 + n <= buffer
    /\ n <= dec /\ dec + 1 <= size => 1 + n <= size /\ 0 + n <= size
    /\ 18 <= size => width <= size
    /\ 18 <= buffer => width <= buffer
    /\ 0 <= 2 /\ 1 <= 2 /\ 2 <= 2 /\ 0 \in Nat /\ 1 \in Nat /\ 2 \in Nat

LEMMA DigitsFit ==
  ASSUME NEW dec \in Nat, NEW hex \in Nat, NEW size \in Nat, NEW buffer \in Nat, NEW n \in Nat,
         NEW width \in -1..18
  PROVE  DigitsFitIn(dec, hex, size, buffer, n, width)
BY DEF DigitsFitIn

LEMMA UpTo ==
  ASSUME NEW v \in Nat, NEW n \in 1..v
  PROVE  n \in Nat /\ n <= v
OBVIOUS

LEMMA NumbersPadded ==
  ASSUME Numbers!Init
  PROVE  Numbers!NumberIsPadded
<1>1. PICK t \in DOMAIN Numbers!Types, hex \in BOOLEAN, pretty \in BOOLEAN,
           negative \in BOOLEAN, width \in -1..18, pad \in {" ", "0"} :
        /\ negative => Numbers!Types[t].signed /\ ~hex
        /\ t \in Numbers!Pointers => hex /\ pretty /\ width = -1
        /\ width = -1 => pad = " "
        /\ \E n \in 1 .. (IF hex THEN Numbers!Types[t].hex ELSE Numbers!Types[t].dec) :
              app = [type |-> t, hex |-> hex, pretty |-> pretty, negative |-> negative,
                     width |-> width, pad |-> pad, digits |-> Numbers!Digits(n)]
  BY Zenon DEF Numbers!Init, Numbers!NoWidth, Numbers!MaxWidth
<1>2. PICK k : k = Numbers!Types[t] /\ Fits(k, t \in Numbers!Pointers)
  BY TypesFit, Zenon
<1>3. PICK n \in 1 .. (IF hex THEN k.hex ELSE k.dec) :
        app = [type |-> t, hex |-> hex, pretty |-> pretty, negative |-> negative,
               width |-> width, pad |-> pad, digits |-> Numbers!Digits(n)]
  BY <1>1, <1>2, Zenon
<1>4. /\ app.type = t /\ app.hex = hex /\ app.pretty = pretty /\ app.negative = negative
      /\ app.width = width /\ app.pad = pad /\ app.digits = Numbers!Digits(n)
  BY <1>3, Zenon
<1>5. PICK dec \in Nat, sixteen \in Nat, size \in Nat, buffer \in Nat :
        /\ dec = k.dec /\ sixteen = k.hex /\ size = k.size /\ buffer = k.buffer
        /\ t \in Numbers!Pointers => sixteen + 2 <= size
        /\ t \notin Numbers!Pointers => 18 <= size /\ 18 <= buffer
                                 /\ dec + 1 <= size /\ sixteen + 2 <= buffer
  BY <1>2, Zenon DEF Fits
<1>6. n \in Nat /\ (hex => n <= sixteen) /\ (~hex => n <= dec)
  <2>2. CASE hex
    BY <1>3, <1>5, <2>2, UpTo, Zenon
  <2>3. CASE ~hex
    BY <1>3, <1>5, <2>3, UpTo, Zenon
  <2> QED BY <2>2, <2>3, Zenon
<1>7. PICK d \in Seq(Glyph) : d = app.digits /\ Len(d) = n
  BY <1>4, <1>6, DigitsAre, Zenon
<1>8. pad \in Glyph
  BY Zenon DEF Glyph
<1>9. PICK h \in Seq(Glyph) : h = <<"0", "x">> /\ Len(h) = 2
  BY PrefixesAre, Zenon
<1>10. PICK minus \in Seq(Glyph) : minus = <<"-">> /\ Len(minus) = 1
  BY PrefixesAre, Zenon
<1>11. PICK none \in Seq(Glyph) : none = << >> /\ Len(none) = 0
  BY PrefixesAre, Zenon
<1>12. DigitsFitIn(dec, sixteen, size, buffer, n, width)
  BY <1>6, DigitsFit, Zenon
<1>13. PrintsWell(Numbers!fmt, width, pad, Prefix, d)
  <2>1. CASE t \in Numbers!Pointers
    <3>1. Numbers!fmt = Numbers!ptr_hex(size)
      <4>1. app.type \in Numbers!Pointers /\ Numbers!Types[app.type].size = size
        BY <1>2, <1>4, <1>5, <2>1, Zenon
      <4>2. app.hex
        BY <1>1, <1>4, <2>1, Zenon
      <4>3. Numbers!fmt = Numbers!ptr_hex(Numbers!Types[app.type].size)
        BY <4>1, <4>2, Zenon DEF Numbers!fmt
      <4> QED BY <4>1, <4>3, Zenon
    <3>2. hex /\ pretty /\ width = -1 /\ pad = " "
      BY <1>1, <2>1, Zenon
    <3>3. Prefix = h
      BY <1>4, <1>9, <3>2, Zenon DEF Prefix
    <3>4. PICK j \in Nat : j = size - (2 + n) /\ j >= 0 /\ ~(-1 - 2 - n > 0)
      BY <1>5, <1>6, <1>12, <2>1, <3>2, Zenon DEF DigitsFitIn
    <3>5. PrintsWell(Numbers!ptr_hex(size), -1, " ", h, d)
      BY <1>7, <1>9, <3>4, PointerPrinted, Zenon
    <3> QED BY <3>1, <3>2, <3>3, <3>5, Zenon
  <2>2. CASE t \notin Numbers!Pointers
    <3>1. PICK p \in Seq(Glyph), m \in Nat, len \in Nat :
            /\ p = Prefix /\ m = Len(p) /\ m <= 2 /\ m + n <= len /\ width <= len
            /\ Numbers!fmt = Numbers!PadWith(p, len)
      <4>1. CASE hex
        <5>1. Numbers!fmt = Numbers!PadWith(IF pretty THEN h ELSE none, buffer)
          BY <1>2, <1>4, <1>5, <1>9, <1>11, <2>2, <4>1, Zenon
             DEF Numbers!fmt, Numbers!uxx_hex_pad
        <5>2. Prefix = (IF pretty THEN h ELSE none)
          BY <1>4, <1>9, <1>11, <4>1, Zenon DEF Prefix
        <5>3. CASE pretty
          BY <1>5, <1>6, <1>9, <1>12, <2>2, <4>1, <5>1, <5>2, <5>3, Zenon DEF DigitsFitIn
        <5>4. CASE ~pretty
          BY <1>5, <1>6, <1>11, <1>12, <2>2, <4>1, <5>1, <5>2, <5>4, Zenon DEF DigitsFitIn
        <5> QED BY <5>3, <5>4, Zenon
      <4>2. CASE ~hex /\ k.signed
        <5>1. Numbers!fmt = Numbers!PadWith(IF negative THEN minus ELSE none, size)
          BY <1>2, <1>4, <1>5, <1>10, <1>11, <2>2, <4>2, Zenon DEF Numbers!fmt, Numbers!ixx_pad
        <5>2. Prefix = (IF negative THEN minus ELSE none)
          BY <1>4, <1>10, <1>11, <4>2, Zenon DEF Prefix
        <5>3. CASE negative
          BY <1>5, <1>6, <1>10, <1>12, <2>2, <4>2, <5>1, <5>2, <5>3, Zenon DEF DigitsFitIn
        <5>4. CASE ~negative
          BY <1>5, <1>6, <1>11, <1>12, <2>2, <4>2, <5>1, <5>2, <5>4, Zenon DEF DigitsFitIn
        <5> QED BY <5>3, <5>4, Zenon
      <4>3. CASE ~hex /\ ~k.signed
        <5>1. Numbers!fmt = Numbers!PadWith(none, size)
          BY <1>2, <1>4, <1>5, <1>11, <2>2, <4>3, Zenon DEF Numbers!fmt, Numbers!uxx_pad
        <5>2. Prefix = none
          BY <1>1, <1>2, <1>4, <1>11, <4>3, Zenon DEF Prefix
        <5> QED BY <1>5, <1>6, <1>11, <1>12, <2>2, <4>3, <5>1, <5>2, Zenon DEF DigitsFitIn
      <4> QED BY <4>1, <4>2, <4>3, Zenon
    <3>2. width \in Int
      BY <1>12, Zenon DEF DigitsFitIn
    <3>3. PrintsWell(Numbers!PadWith(p, len), width, pad, p, d)
      BY <1>1, <1>4, <1>6, <1>7, <1>8, <3>1, <3>2, Padded, Zenon
    <3> QED BY <3>1, <3>3, Zenon
  <2> QED BY <2>1, <2>2, Zenon
<1> QED BY <1>4, <1>7, <1>13, ExpectedIs, Zenon DEF PrintsWell, Numbers!NumberIsPadded

(* For every type, number of digits, flag, width and padding: a number is  *)
(* printed as asked, inside its buffer, or is refused because its width is *)
(* smaller than its prefix (ufmt/src/impls/uxx.rs, ixx.rs and ptr.rs).     *)
THEOREM NumbersStayPadded == Spec => []NumberIsPadded
<1>1. Init => NumberIsPadded
  BY NumbersPadded, Zenon DEF Init, NumberIsPadded
<1>2. NumberIsPadded /\ [Next]_vars => NumberIsPadded'
  <2> SUFFICES ASSUME NumberIsPadded, [Next]_vars, part' = "number"
               PROVE  Numbers!NumberIsPadded'
    BY DEF NumberIsPadded
  <2>1. part' = part
    BY DEF Next, vars, RingNext, PinsNext, StepperNext, FakeNext, FormatterNext, LinesNext,
           SensorNext, DeviceNext
  <2>2. app' = app
    BY <2>1 DEF Next, vars, RingNext, PinsNext, StepperNext, FakeNext, FormatterNext,
           LinesNext, SensorNext, DeviceNext
  <2>3. Numbers!NumberIsPadded => Numbers!NumberIsPadded'
    BY <2>2, ZenonT(40) DEF Numbers!NumberIsPadded, Numbers!fmt, Numbers!Expected, Numbers!ptr_hex,
           Numbers!uxx_hex_pad, Numbers!ixx_pad, Numbers!uxx_pad, Numbers!PadWith
  <2> QED BY <2>1, <2>3 DEF NumberIsPadded
<1> QED BY <1>1, <1>2, PTL DEF Spec

(***************************************************************************)
(* The line buffer.  What was written is in four places, one behind the    *)
(* other: the writer, the buffer, the line on its way and the rest of the  *)
(* text.  A step moves the borders between them, or drops what is behind   *)
(* one of them.                                                            *)
(***************************************************************************)
Letter == [kind : {"x", "n"}, number : Nat]

LinesFields == {"buffer", "rest", "line", "at", "out", "next", "failed"} \subseteq DOMAIN app

LinesTyped ==
    /\ app.out \in Seq(Letter) /\ app.buffer \in Seq(Letter)
    /\ app.line \in Seq(Letter) /\ app.rest \in Seq(Letter)
    /\ app.next \in Nat \ {0}
    /\ Len(app.buffer) <= Capacity

NoEnd(s) == \A i \in 1..Len(s) : s[i].kind # "n"
LineEnds(s) == s # << >> /\ s[Len(s)].kind = "n"
OneLine(s) == \A i \in 1..(Len(s) - 1) : s[i].kind # "n"

LinesPlace ==
    /\ app.at \in {"idle", "split", "push", "put", "pushed"}
    /\ app.at = "idle" => app.rest = << >>
    /\ app.at # "pushed" => NoEnd(app.buffer)
    /\ app.at \in {"push", "put", "pushed"} => OneLine(app.line)
    /\ app.at \in {"push", "put", "pushed"} /\ ~LineEnds(app.line) => app.rest = << >>
    /\ app.at = "put" => app.buffer = << >>
    /\ app.at = "pushed" /\ ~LineEnds(app.line) => NoEnd(app.buffer)

(* The line is on its way until it was put somewhere.                      *)
Coming == IF app.at \in {"push", "put"} THEN app.line ELSE << >>
Written == app.out \o app.buffer \o Coming \o app.rest

InOrder(w, n) ==
    /\ \A i \in 1..Len(w) : w[i].number < n
    /\ \A i \in 1..(Len(w) - 1) : w[i].number < w[i + 1].number

LinesOrder ==
    /\ InOrder(Written, app.next)
    /\ ~app.failed => Len(Written) = app.next - 1

LinesInv == LinesFields /\ LinesTyped /\ LinesPlace /\ LinesOrder

LEMMA LinesSets ==
  ASSUME NEW f, Lines!Set(f)
  PROVE  /\ DOMAIN app' = DOMAIN app
         /\ \A x \in DOMAIN app \cap DOMAIN f : app'[x] = f[x]
         /\ \A x \in DOMAIN app \ DOMAIN f : app'[x] = app[x]
BY DEF Lines!Set

(* What a text in order begins with is in order, and so is one that goes   *)
(* on with the next numbers.                                               *)
LEMMA BeginsInOrder ==
  ASSUME NEW w \in Seq(Letter), NEW v \in Seq(Letter), NEW n, InOrder(w \o v, n)
  PROVE  InOrder(w, n)
<1>1. PICK k \in Nat, m \in Nat : k = Len(w) /\ m = Len(v)
  BY LenProperties, Zenon
<1>2. Len(w \o v) = k + m /\ \A i \in 1..(k + m) : i <= k => (w \o v)[i] = w[i]
  BY <1>1, ConcatProperties, Zenon
<1>3. PICK u : u = w \o v
  OBVIOUS
<1>4. /\ \A i \in 1..(k + m) : u[i].number < n
      /\ \A i \in 1..((k + m) - 1) : u[i].number < u[i + 1].number
  BY <1>2, <1>3, Zenon DEF InOrder
<1>5. ASSUME NEW i \in 1..k
      PROVE  w[i].number < n
  <2>1. i \in 1..(k + m) /\ i <= k
    BY <1>5
  <2> QED BY <1>2, <1>3, <1>4, <2>1, Zenon
<1>6. ASSUME NEW i \in 1..(k - 1)
      PROVE  w[i].number < w[i + 1].number
  <2>1. /\ i \in 1..(k + m) /\ i <= k /\ i \in 1..((k + m) - 1)
        /\ i + 1 \in 1..(k + m) /\ i + 1 <= k
    BY <1>6
  <2> QED BY <1>2, <1>3, <1>4, <2>1, Zenon
<1> QED BY <1>1, <1>5, <1>6, Zenon DEF InOrder

LEMMA GoesOnInOrder ==
  ASSUME NEW w \in Seq(Letter), NEW v \in Seq(Letter), NEW n \in Nat, InOrder(w, n),
         \A i \in 1..Len(v) : v[i].number = n + i - 1
  PROVE  InOrder(w \o v, n + Len(v))
<1>1. PICK k \in Nat, m \in Nat : k = Len(w) /\ m = Len(v)
  BY LenProperties, Zenon
<1>2. PICK u \in Seq(Letter) :
        /\ u = w \o v /\ Len(u) = k + m
        /\ \A i \in 1..(k + m) : u[i] = IF i <= k THEN w[i] ELSE v[i - k]
  <2>1. /\ w \o v \in Seq(Letter) /\ Len(w \o v) = Len(w) + Len(v)
        /\ \A i \in 1 .. Len(w) + Len(v) :
              (w \o v)[i] = IF i <= Len(w) THEN w[i] ELSE v[i - Len(w)]
    BY ConcatProperties
  <2> QED BY <1>1, <2>1, Zenon
<1>3. /\ \A i \in 1..k : w[i].number < n
      /\ \A i \in 1..(k - 1) : w[i].number < w[i + 1].number
  BY <1>1, Zenon DEF InOrder
<1>4. \A i \in 1..k : w[i].number \in Nat
  <2>1. \A i \in 1..k : w[i] \in Letter
    BY <1>1, ElementOfSeq, Zenon
  <2> QED BY <2>1 DEF Letter
<1>5. ASSUME NEW i \in 1..(k + m)
      PROVE  IF i <= k THEN u[i].number = w[i].number ELSE u[i].number = n + (i - k) - 1
  <2>1. ~(i <= k) => i - k \in 1..m
    BY <1>5
  <2> QED BY <1>1, <1>2, <2>1, Zenon
<1>6. ASSUME NEW i \in 1..(k + m)
      PROVE  u[i].number < n + m
  <2>1. CASE i <= k
    <3>1. i \in 1..k /\ u[i].number = w[i].number
      BY <1>5, <1>6, <2>1
    <3>2. PICK a \in Nat : a = w[i].number /\ a < n
      BY <1>3, <1>4, <3>1, Zenon
    <3> QED BY <3>1, <3>2
  <2>2. CASE ~(i <= k)
    <3>1. PICK a \in Int : a = n + (i - k) - 1 /\ a < n + m
      BY <1>6
    <3> QED BY <1>5, <1>6, <2>2, <3>1, Zenon
  <2> QED BY <2>1, <2>2
<1>7. ASSUME NEW i \in 1..((k + m) - 1)
      PROVE  u[i].number < u[i + 1].number
  <2>1. i \in 1..(k + m) /\ i + 1 \in 1..(k + m)
    BY <1>7
  <2>2. CASE i + 1 <= k
    <3>1. i <= k /\ i \in 1..(k - 1)
      BY <1>7, <2>2
    <3> QED BY <1>3, <1>5, <2>1, <2>2, <3>1, Zenon
  <2>3. CASE i <= k /\ ~(i + 1 <= k)
    <3>1. i \in 1..k /\ n + ((i + 1) - k) - 1 = n
      BY <1>7, <2>3
    <3> QED BY <1>3, <1>5, <2>1, <2>3, <3>1, Zenon
  <2>4. CASE ~(i <= k)
    <3>1. PICK a \in Int, b \in Int : a = n + (i - k) - 1 /\ b = n + ((i + 1) - k) - 1 /\ a < b
      BY <1>7
    <3>2. ~(i + 1 <= k)
      BY <1>7, <2>4
    <3> QED BY <1>5, <2>1, <2>4, <3>1, <3>2, Zenon
  <2> QED BY <2>2, <2>3, <2>4
<1> QED BY <1>1, <1>2, <1>6, <1>7, Zenon DEF InOrder

JoinsTo(S, a, b, c, d) ==
    /\ a \o b \in Seq(S) /\ a \o b \o c \in Seq(S) /\ a \o b \o c \o d \in Seq(S)
    /\ b \o c \in Seq(S) /\ b \o c \o d \in Seq(S) /\ c \o d \in Seq(S)
    /\ a \o b \o c = a \o (b \o c)
    /\ a \o b \o c \o d = a \o (b \o c \o d)
    /\ a \o b \o c \o d = (a \o b) \o (c \o d)
    /\ a \o << >> = a /\ << >> \o a = a /\ b \o << >> = b /\ << >> \o b = b

LEMMA FourParts ==
  ASSUME NEW S, NEW a \in Seq(S), NEW b \in Seq(S), NEW c \in Seq(S), NEW d \in Seq(S)
  PROVE  JoinsTo(S, a, b, c, d)
<1>1. /\ a \o b \in Seq(S) /\ b \o c \in Seq(S) /\ c \o d \in Seq(S)
      /\ a \o b \o c \in Seq(S) /\ b \o c \o d \in Seq(S) /\ a \o b \o c \o d \in Seq(S)
  BY ConcatProperties
<1>2. (a \o b) \o c = a \o (b \o c)
  BY ConcatAssociative, SMTT(30)
<1>3. (a \o b) \o (c \o d) = ((a \o b) \o c) \o d
  BY <1>1, ConcatAssociative, SMTT(30)
<1>4. (a \o (b \o c)) \o d = a \o ((b \o c) \o d)
  BY <1>1, ConcatAssociative, SMTT(30)
<1>5. a \o << >> = a /\ << >> \o a = a /\ b \o << >> = b /\ << >> \o b = b
  BY ConcatEmptySeq, Zenon
<1> QED BY <1>1, <1>2, <1>3, <1>4, <1>5, Zenon DEF JoinsTo

LEMMA LinesParts ==
  ASSUME LinesInv
  PROVE  /\ LinesFields /\ LinesTyped /\ LinesPlace /\ LinesOrder
         /\ Coming \in Seq(Letter) /\ Written \in Seq(Letter)
         /\ app.out \o app.buffer \in Seq(Letter)
         /\ app.out \o app.buffer \o Coming \in Seq(Letter)
<1>1. LinesFields /\ LinesTyped /\ LinesPlace /\ LinesOrder
  BY DEF LinesInv
<1>2. Coming \in Seq(Letter)
  BY <1>1, EmptySeq, Zenon DEF Coming, LinesTyped
<1>3. JoinsTo(Letter, app.out, app.buffer, Coming, app.rest)
  BY <1>1, <1>2, FourParts, Zenon DEF LinesTyped
<1> QED BY <1>1, <1>2, <1>3, Zenon DEF JoinsTo, Written

(* A step that moves a border, and one that drops what is behind it.       *)
LEMMA MovesBorder ==
  ASSUME LinesInv, LinesFields', LinesTyped', LinesPlace', Written' = Written,
         app'.next = app.next, app'.failed = app.failed
  PROVE  LinesInv'
BY Zenon DEF LinesInv, LinesOrder

LEMMA DropsBehind ==
  ASSUME LinesInv, LinesFields', LinesTyped', LinesPlace', NEW w \in Seq(Letter),
         NEW v \in Seq(Letter), Written' = w, Written = w \o v,
         app'.next = app.next, app'.failed = TRUE
  PROVE  LinesInv'
<1>1. InOrder(w, app.next)
  BY BeginsInOrder, Zenon DEF LinesInv, LinesOrder
<1> QED BY <1>1, Zenon DEF LinesInv, LinesOrder

LEMMA WritesText ==
  ASSUME LinesInv, Lines!WriteStr
  PROVE  LinesInv'
<1>0. /\ LinesFields /\ LinesTyped /\ LinesPlace /\ LinesOrder
      /\ app.out \o app.buffer \in Seq(Letter)
  BY LinesParts
<1>1. app.at = "idle"
  BY Zenon DEF Lines!WriteStr, Lines!At
<1>2. PICK n \in 1..MaxText : \E s \in [1..n -> {"x", "n"}] :
        Lines!Set([at |-> "split", rest |-> Lines!Numbered(s), next |-> app.next + n])
  BY Zenon DEF Lines!WriteStr
<1>16. PICK s \in [1..n -> {"x", "n"}] :
        Lines!Set([at |-> "split", rest |-> Lines!Numbered(s), next |-> app.next + n])
  BY <1>2
<1>3. PICK k \in Nat \ {0} : k = app.next
  BY <1>0, Zenon DEF LinesTyped
<1>4. MaxText \in Nat /\ n \in Nat /\ k \in Nat /\ k + n \in Nat \ {0} /\ (k + n) - 1 = (k - 1) + n
  BY LibraryAssumption, <1>3 DEF LibraryAssumption, Lines!LinesAssumption
<1>5. PICK v \in Seq(Letter) :
        v = Lines!Numbered(s) /\ Len(v) = n /\ \A i \in 1..Len(v) : v[i].number = k + i - 1
  <2> DEFINE v == [i \in 1..n |-> [kind |-> s[i], number |-> k + i - 1]]
  <2>1. v = Lines!Numbered(s)
    BY <1>16, <1>3, Zenon DEF Lines!Numbered
  <2>2. \A i \in 1..n : k + i - 1 \in Nat
    BY <1>3, <1>4
  <2>3. \A i \in 1..n : [kind |-> s[i], number |-> k + i - 1] \in Letter
    BY <1>16, <2>2, Zenon DEF Letter
  <2>4. v \in [1..n -> Letter]
    BY <2>3, Zenon
  <2>5. v \in Seq(Letter) /\ Len(v) = n
    <3> HIDE DEF v
    <3> QED BY <1>4, <2>4
  <2>6. \A i \in 1..n : v[i].number = k + i - 1
    BY Zenon
  <2> HIDE DEF v
  <2> QED BY <2>1, <2>5, <2>6, Zenon
<1> DEFINE f == [at |-> "split", rest |-> v, next |-> k + n]
<1>6. DOMAIN f = {"at", "rest", "next"} /\ f.at = "split" /\ f.rest = v /\ f.next = k + n
  OBVIOUS
<1>7. Lines!Set(f)
  BY <1>16, <1>3, <1>5, Zenon
<1> HIDE DEF f
<1>8. /\ LinesFields' /\ app'.at = f.at /\ app'.rest = f.rest /\ app'.next = f.next
      /\ app'.out = app.out /\ app'.buffer = app.buffer /\ app'.line = app.line
      /\ app'.failed = app.failed
  <2>1. /\ DOMAIN app' = DOMAIN app
        /\ \A x \in DOMAIN app \cap DOMAIN f : app'[x] = f[x]
        /\ \A x \in DOMAIN app \ DOMAIN f : app'[x] = app[x]
    BY <1>7, LinesSets, Zenon
  <2>2. /\ {"at", "rest", "next"} \subseteq DOMAIN app \cap DOMAIN f
        /\ {"out", "buffer", "line", "failed"} \subseteq DOMAIN app \ DOMAIN f
    BY <1>0, <1>6 DEF LinesFields
  <2>3. LinesFields'
    BY <1>0, <2>1, Zenon DEF LinesFields
  <2> QED BY <2>1, <2>2, <2>3
<1>9. app'.at = "split" /\ app'.rest = v /\ app'.next = k + n
  BY <1>6, <1>8, Zenon
<1>10. LinesTyped'
  BY <1>0, <1>4, <1>8, <1>9, Zenon DEF LinesTyped
<1>11. LinesPlace'
  <2>1. NoEnd(app.buffer)
    BY <1>0, <1>1 DEF LinesPlace
  <2> QED BY <1>8, <1>9, <2>1 DEF LinesPlace
<1>12. PICK w \in Seq(Letter) : w = app.out \o app.buffer /\ w \o << >> = w
  BY <1>0, ConcatEmptySeq, Zenon
<1>13. Written = w
  <2>1. Coming = << >> /\ app.rest = << >>
    BY <1>0, <1>1 DEF Coming, LinesPlace
  <2> QED BY <1>12, <2>1, Zenon DEF Written
<1>14. Written' = w \o v
  <2>1. Coming' = << >>
    BY <1>9 DEF Coming
  <2> QED BY <1>8, <1>9, <1>12, <2>1, Zenon DEF Written
<1>15. LinesOrder'
  <2>1. InOrder(w, k) /\ (~app.failed => Len(w) = k - 1)
    BY <1>0, <1>3, <1>13, Zenon DEF LinesOrder
  <2>2. InOrder(w \o v, k + Len(v))
    BY <1>4, <1>5, <2>1, GoesOnInOrder, Zenon
  <2>3. Len(w \o v) = Len(w) + n
    BY <1>5, ConcatProperties, ZenonT(40)
  <2> QED BY <1>4, <1>5, <1>8, <1>9, <1>14, <2>1, <2>2, <2>3, Zenon DEF LinesOrder
<1> QED BY <1>8, <1>10, <1>11, <1>15, Zenon DEF LinesInv

(* The writer takes the buffer, or the rest of the write is given up.      *)
LEMMA FlushesBuffer ==
  ASSUME LinesInv, NEW then, Lines!Flush(then),
         \/ then = "put" /\ app.at = "push"
         \/ then = "split" /\ app.at = "pushed" /\ LineEnds(app.line)
  PROVE  LinesInv'
<1>0. /\ LinesFields /\ LinesTyped /\ LinesPlace /\ LinesOrder /\ Coming \in Seq(Letter)
      /\ app.out \o app.buffer \in Seq(Letter)
  BY LinesParts
<1>1. PICK o, b, c, r : o = app.out /\ b = app.buffer /\ c = Coming /\ r = app.rest
  OBVIOUS
<1>2. /\ o \in Seq(Letter) /\ b \in Seq(Letter) /\ c \in Seq(Letter) /\ r \in Seq(Letter)
      /\ o \o b \in Seq(Letter) /\ Written = o \o b \o c \o r
  BY <1>0, <1>1, Zenon DEF LinesTyped, Written
<1>3. NoEnd(<< >>) /\ << >> \in Seq(Letter) /\ Len(<< >>) <= Capacity
  BY EmptySeq, LibraryAssumption DEF NoEnd, LibraryAssumption, Lines!LinesAssumption
<1>4. CASE Lines!Set([at |-> then, out |-> app.out \o app.buffer, buffer |-> << >>])
  <2> DEFINE f == [at |-> then, out |-> o \o b, buffer |-> << >>]
  <2>1. DOMAIN f = {"at", "out", "buffer"} /\ f.at = then /\ f.out = o \o b /\ f.buffer = << >>
    OBVIOUS
  <2>2. Lines!Set(f)
    BY <1>1, <1>4, Zenon
  <2> HIDE DEF f
  <2>3. /\ LinesFields' /\ app'.at = f.at /\ app'.out = f.out /\ app'.buffer = f.buffer
        /\ app'.rest = app.rest /\ app'.next = app.next /\ app'.line = app.line
        /\ app'.failed = app.failed
    <3>1. /\ DOMAIN app' = DOMAIN app
          /\ \A x \in DOMAIN app \cap DOMAIN f : app'[x] = f[x]
          /\ \A x \in DOMAIN app \ DOMAIN f : app'[x] = app[x]
      BY <2>2, LinesSets, Zenon
    <3>2. /\ {"at", "out", "buffer"} \subseteq DOMAIN app \cap DOMAIN f
          /\ {"rest", "next", "line", "failed"} \subseteq DOMAIN app \ DOMAIN f
      BY <1>0, <2>1 DEF LinesFields
    <3>3. LinesFields'
      BY <1>0, <3>1, Zenon DEF LinesFields
    <3> QED BY <3>1, <3>2, <3>3
  <2>4. app'.at = then /\ app'.out = o \o b /\ app'.buffer = << >>
    BY <2>1, <2>3, Zenon
  <2>5. LinesTyped'
    BY <1>0, <1>2, <1>3, <2>3, <2>4, Zenon DEF LinesTyped
  <2>6. LinesPlace'
    BY <1>0, <1>3, <2>3, <2>4 DEF LinesPlace
  <2>7. Coming' = c
    BY <1>1, <2>3, <2>4 DEF Coming
  <2>8. Written' = Written
    <3>1. Written' = (o \o b) \o << >> \o c \o r
      BY <1>1, <2>3, <2>4, <2>7, Zenon DEF Written
    <3>2. (o \o b) \o << >> = o \o b
      BY <1>2, ConcatEmptySeq, Zenon
    <3> QED BY <1>2, <3>1, <3>2, Zenon
  <2> QED BY <2>3, <2>5, <2>6, <2>8, MovesBorder, Zenon
<1>5. CASE Lines!Fails
  <2> DEFINE f == [at |-> "idle", failed |-> TRUE, buffer |-> << >>, rest |-> << >>]
  <2>1. /\ DOMAIN f = {"at", "failed", "buffer", "rest"} /\ f.at = "idle" /\ f.failed = TRUE
        /\ f.buffer = << >> /\ f.rest = << >>
    OBVIOUS
  <2>2. Lines!Set(f)
    BY <1>5, Zenon DEF Lines!Fails
  <2> HIDE DEF f
  <2>3. /\ LinesFields' /\ app'.at = f.at /\ app'.failed = f.failed /\ app'.buffer = f.buffer
        /\ app'.rest = f.rest /\ app'.out = app.out /\ app'.next = app.next
        /\ app'.line = app.line
    <3>1. /\ DOMAIN app' = DOMAIN app
          /\ \A x \in DOMAIN app \cap DOMAIN f : app'[x] = f[x]
          /\ \A x \in DOMAIN app \ DOMAIN f : app'[x] = app[x]
      BY <2>2, LinesSets, Zenon
    <3>2. /\ LinesFields' /\ {"at", "failed", "buffer", "rest"} \subseteq DOMAIN app \cap DOMAIN f
          /\ {"out", "next", "line"} \subseteq DOMAIN app \ DOMAIN f
      BY <1>0, <2>1, <3>1 DEF LinesFields
    <3> QED BY <3>1, <3>2
  <2>4. app'.at = "idle" /\ app'.failed = TRUE /\ app'.buffer = << >> /\ app'.rest = << >>
    BY <2>1, <2>3, Zenon
  <2>5. LinesTyped'
    BY <1>0, <1>3, <2>3, <2>4, Zenon DEF LinesTyped
  <2>6. LinesPlace'
    BY <1>3, <2>4 DEF LinesPlace
  <2>7. Written' = o
    <3>1. Coming' = << >>
      BY <2>4 DEF Coming
    <3>2. o \o << >> = o
      BY <1>2, ConcatEmptySeq, Zenon
    <3> QED BY <1>1, <2>3, <2>4, <3>1, <3>2, Zenon DEF Written
  <2>8. PICK v \in Seq(Letter) : Written = o \o v
    <3>1. o \o b \o c \o r = o \o (b \o c \o r) /\ b \o c \o r \in Seq(Letter)
      <4>1. JoinsTo(Letter, o, b, c, r)
        BY <1>2, FourParts, Zenon
      <4> QED BY <4>1, Zenon DEF JoinsTo
    <3> QED BY <1>2, <3>1, Zenon
  <2> QED BY <1>2, <2>3, <2>4, <2>5, <2>6, <2>7, <2>8, DropsBehind, Zenon
<1> QED BY <1>4, <1>5, Zenon DEF Lines!Flush

(* Every nonempty set of naturals has a least element.  The library's      *)
(* well-foundedness of < stands in for induction.                          *)
LEMMA LeastNat ==
  ASSUME NEW M \in SUBSET Nat, M # {}
  PROVE  \E m \in M : \A k \in M : m <= k
<1> DEFINE R == {p \in Nat \X Nat : p[1] < p[2]}
<1>1. R = OpToRel(<, Nat)
  BY DEF OpToRel
<1>2. IsWellFoundedOn(R, Nat)
  BY <1>1, NatLessThanWellFounded
<1>3. PICK m \in M : \A k \in M : ~(<<k, m>> \in R)
  BY <1>2, WFMin
<1>4. ASSUME NEW k \in M PROVE m <= k
  <2>1. k \in Nat /\ m \in Nat /\ <<k, m>> \in Nat \X Nat
    OBVIOUS
  <2>2. k < m => <<k, m>> \in R
    BY <2>1
  <2> QED BY <1>3, <2>1, <2>2
<1> QED BY <1>4

(* A sequence cut in two.                                                  *)
CutAt(S, s, n) ==
    /\ SubSeq(s, 1, n) \in Seq(S) /\ Len(SubSeq(s, 1, n)) = n
    /\ \A i \in 1..n : SubSeq(s, 1, n)[i] = s[i]
    /\ SubSeq(s, n + 1, Len(s)) \in Seq(S) /\ Len(SubSeq(s, n + 1, Len(s))) = Len(s) - n
    /\ \A i \in 1..(Len(s) - n) : SubSeq(s, n + 1, Len(s))[i] = s[n + i]
    /\ SubSeq(s, 1, n) \o SubSeq(s, n + 1, Len(s)) = s

LEMMA CutsInTwo ==
  ASSUME NEW S, NEW s \in Seq(S), NEW n \in 0..Len(s)
  PROVE  CutAt(S, s, n)
<1>1. PICK m \in Nat : m = Len(s) /\ \A i \in 1..m : s[i] \in S
  BY LenProperties, ElementOfSeq
<1>2. n \in Nat /\ n + 1 \in Int /\ n \in 0..m /\ n <= m
  BY <1>1
<1>3. /\ SubSeq(s, 1, n) \in Seq(S) /\ Len(SubSeq(s, 1, n)) = IF 1 <= n THEN n - 1 + 1 ELSE 0
      /\ \A i \in 1..(n - 1 + 1) : SubSeq(s, 1, n)[i] = s[1 + i - 1]
  <2>1. 1 \in Int /\ n \in Int /\ \A i \in 1..n : s[i] \in S
    BY <1>1, <1>2
  <2> QED BY <2>1, SubSeqProperties
<1>4. /\ SubSeq(s, n + 1, m) \in Seq(S)
      /\ Len(SubSeq(s, n + 1, m)) = IF n + 1 <= m THEN m - (n + 1) + 1 ELSE 0
      /\ \A i \in 1..(m - (n + 1) + 1) : SubSeq(s, n + 1, m)[i] = s[(n + 1) + i - 1]
  <2>1. m \in Int /\ n + 1 \in Int /\ \A i \in (n + 1)..m : s[i] \in S
    BY <1>1, <1>2
  <2> QED BY <2>1, SubSeqProperties
<1>5. SubSeq(s, 1, n) \o SubSeq(s, n + 1, m) = s
  <2>1. 1 \in 1..(Len(s) + 1) /\ n \in (1 - 1)..Len(s) /\ m \in n..Len(s)
    BY <1>1, <1>2
  <2>2. SubSeq(s, 1, n) \o SubSeq(s, n + 1, m) = SubSeq(s, 1, m)
    BY <2>1, ConcatAdjacentSubSeq
  <2> QED BY <1>1, <2>2, SubSeqFull
<1>6. Len(SubSeq(s, 1, n)) = n /\ \A i \in 1..n : SubSeq(s, 1, n)[i] = s[i]
  BY <1>2, <1>3
<1>7. /\ Len(SubSeq(s, n + 1, m)) = m - n
      /\ \A i \in 1..(m - n) : SubSeq(s, n + 1, m)[i] = s[n + i]
  BY <1>1, <1>2, <1>4
<1> QED BY <1>1, <1>3, <1>4, <1>5, <1>6, <1>7, Zenon DEF CutAt

(* What Split cuts off is one line, or all there is.                       *)
LEMMA CutsLine ==
  ASSUME NEW s \in Seq(Letter)
  PROVE  \E n \in 0..Len(s), l \in Seq(Letter), r \in Seq(Letter) :
            /\ n = Lines!Newline(s)
            /\ l = SubSeq(s, 1, n) /\ r = SubSeq(s, n + 1, Len(s)) /\ l \o r = s
            /\ OneLine(l) /\ (~LineEnds(l) => r = << >>)
<1>1. PICK m \in Nat : m = Len(s)
  BY LenProperties, Zenon
<1>2. PICK ends : ends = {i \in 1..m : s[i].kind = "n"}
  OBVIOUS
<1>3. PICK n \in 0..m :
        /\ n = Lines!Newline(s)
        /\ \A i \in 1..(n - 1) : s[i].kind # "n"
        /\ n = m \/ (n \in 1..m /\ s[n].kind = "n")
        /\ n = m /\ ~(n \in 1..m /\ s[n].kind = "n") => \A i \in 1..m : s[i].kind # "n"
  <2>1. CASE ends = {}
    <3>1. m = Lines!Newline(s)
      BY <1>1, <1>2, <2>1, Zenon DEF Lines!Newline
    <3>2. \A i \in 1..m : s[i].kind # "n"
      BY <1>2, <2>1, Zenon
    <3>3. m \in 0..m /\ \A i \in 1..(m - 1) : i \in 1..m
      BY <1>1
    <3> QED BY <3>1, <3>2, <3>3, Zenon
  <2>2. CASE ends # {}
    <3>1. PICK n \in ends : \A j \in ends : n <= j
      <4>1. ends \in SUBSET Nat
        BY <1>1, <1>2
      <4> QED BY <2>2, <4>1, LeastNat, Zenon
    <3>2. PICK n2 : n2 = Lines!Min(ends)
      OBVIOUS
    <3>3. n2 \in ends /\ \A j \in ends : n2 <= j
      BY <3>1, <3>2, Zenon DEF Lines!Min
    <3>4. n2 = Lines!Newline(s)
      BY <1>1, <1>2, <2>2, <3>2, Zenon DEF Lines!Newline
    <3>5. n2 \in 1..m /\ s[n2].kind = "n"
      BY <1>2, <3>3, Zenon
    <3>6. ASSUME NEW i \in 1..(n2 - 1)
          PROVE  s[i].kind # "n"
      <4>1. i \in 1..m /\ ~(n2 <= i)
        BY <3>5, <3>6
      <4> QED BY <1>2, <3>3, <4>1, Zenon
    <3>7. n2 \in 0..m
      BY <3>5
    <3> QED BY <3>4, <3>5, <3>6, <3>7, Zenon
  <2> QED BY <2>1, <2>2
<1>4. n \in Nat /\ 1 \in 1..(m + 1) /\ n \in 0..m /\ m \in n..m /\ n <= m
  BY <1>1
<1>5. CutAt(Letter, s, n)
  BY <1>1, <1>3, CutsInTwo, Zenon
<1>6. PICK l \in Seq(Letter), r \in Seq(Letter) :
        l = SubSeq(s, 1, n) /\ r = SubSeq(s, n + 1, m)
  BY <1>1, <1>5, Zenon DEF CutAt
<1>7. l \o r = s /\ Len(l) = n /\ \A i \in 1..n : l[i] = s[i]
  BY <1>1, <1>5, <1>6, Zenon DEF CutAt
<1>8. OneLine(l)
  BY <1>3, <1>4, <1>7 DEF OneLine
<1>9. ~LineEnds(l) => n = m
  <2>1. n \in 1..m /\ s[n].kind = "n" => LineEnds(l)
    <3> SUFFICES ASSUME n \in 1..m, s[n].kind = "n"
                 PROVE  LineEnds(l)
      OBVIOUS
    <3>1. n \in 1..n /\ n # 0
      BY <1>1
    <3>2. l # << >>
      BY <1>7, <3>1, EmptySeq, Zenon
    <3> QED BY <1>7, <3>1, <3>2, Zenon DEF LineEnds
  <2> QED BY <1>3, <2>1, Zenon
<1>10. n = m => r = << >>
  <2>1. m < m + 1
    BY <1>1
  <2> QED BY <1>1, <1>6, <2>1, SubSeqEmpty
<1> QED BY <1>1, <1>3, <1>6, <1>7, <1>8, <1>9, <1>10, Zenon

LEMMA SplitsLine ==
  ASSUME LinesInv, Lines!Split
  PROVE  LinesInv'
<1>0. LinesFields /\ LinesTyped /\ LinesPlace /\ LinesOrder
  BY LinesParts
<1>1. app.at = "split"
  BY Zenon DEF Lines!Split, Lines!At
<1>2. PICK o, b, t : o = app.out /\ b = app.buffer /\ t = app.rest
  OBVIOUS
<1>3. o \in Seq(Letter) /\ b \in Seq(Letter) /\ t \in Seq(Letter)
  BY <1>0, <1>2, Zenon DEF LinesTyped
<1>4. PICK l \in Seq(Letter), r \in Seq(Letter) :
        /\ Lines!Set([at |-> "push", line |-> l, rest |-> r])
        /\ l \o r = t /\ OneLine(l) /\ (~LineEnds(l) => r = << >>)
  <2>1. PICK n \in 0..Len(t), l \in Seq(Letter), r \in Seq(Letter) :
            /\ n = Lines!Newline(t)
            /\ l = SubSeq(t, 1, n) /\ r = SubSeq(t, n + 1, Len(t)) /\ l \o r = t
            /\ OneLine(l) /\ (~LineEnds(l) => r = << >>)
    BY <1>3, CutsLine, Zenon
  <2> QED BY <1>2, <2>1, Zenon DEF Lines!Split
<1> DEFINE f == [at |-> "push", line |-> l, rest |-> r]
<1>5. DOMAIN f = {"at", "line", "rest"} /\ f.at = "push" /\ f.line = l /\ f.rest = r
  OBVIOUS
<1>6. Lines!Set(f)
  BY <1>4, Zenon
<1> HIDE DEF f
<1>7. /\ LinesFields' /\ app'.at = f.at /\ app'.line = f.line /\ app'.rest = f.rest
      /\ app'.out = app.out /\ app'.buffer = app.buffer /\ app'.next = app.next
      /\ app'.failed = app.failed
  BY <1>0, <1>5, <1>6, LinesSets, SMTT(30) DEF LinesFields
<1>8. app'.at = "push" /\ app'.line = l /\ app'.rest = r
  BY <1>5, <1>7, Zenon
<1>9. LinesTyped'
  BY <1>0, <1>4, <1>7, <1>8, Zenon DEF LinesTyped
<1>10. LinesPlace'
  BY <1>0, <1>1, <1>4, <1>7, <1>8 DEF LinesPlace
<1>11. Written' = Written
  <2>1. Coming = << >> /\ Coming' = l
    BY <1>1, <1>8 DEF Coming
  <2>2. Written' = o \o b \o l \o r
    BY <1>2, <1>7, <1>8, <2>1, Zenon DEF Written
  <2>3. Written = o \o b \o << >> \o t
    BY <1>2, <2>1, Zenon DEF Written
  <2>4. o \o b \in Seq(Letter) /\ o \o b \o l \o r = (o \o b) \o (l \o r)
    <3>1. JoinsTo(Letter, o, b, l, r)
      BY <1>3, <1>4, FourParts, Zenon
    <3> QED BY <3>1, Zenon DEF JoinsTo
  <2>5. (o \o b) \o << >> = o \o b
    BY <2>4, ConcatEmptySeq, Zenon
  <2> QED BY <1>4, <2>2, <2>3, <2>4, <2>5, Zenon
<1> QED BY <1>7, <1>9, <1>10, <1>11, MovesBorder, Zenon

(* What a line adds to a buffer without newlines.                          *)
LEMMA BufferGrows ==
  ASSUME NEW b \in Seq(Letter), NEW l \in Seq(Letter), NoEnd(b), OneLine(l), ~LineEnds(l)
  PROVE  NoEnd(b \o l)
<1>1. PICK k \in Nat, m \in Nat : k = Len(b) /\ m = Len(l)
  BY LenProperties, Zenon
<1>2. PICK u \in Seq(Letter) :
        /\ u = b \o l /\ Len(u) = k + m
        /\ \A i \in 1..(k + m) : u[i] = IF i <= k THEN b[i] ELSE l[i - k]
  <2>1. /\ b \o l \in Seq(Letter) /\ Len(b \o l) = Len(b) + Len(l)
        /\ \A i \in 1 .. Len(b) + Len(l) :
              (b \o l)[i] = IF i <= Len(b) THEN b[i] ELSE l[i - Len(b)]
    BY ConcatProperties
  <2> QED BY <1>1, <2>1, Zenon
<1>3. \A i \in 1..m : l[i].kind # "n"
  <2> SUFFICES ASSUME NEW i \in 1..m PROVE l[i].kind # "n"
    OBVIOUS
  <2>1. i \in 1..(m - 1) \/ i = m
    BY <1>1
  <2>2. l # << >>
    <3>1. m # 0
      BY <1>1
    <3> QED BY <1>1, <3>1, EmptySeq, Zenon
  <2> QED BY <1>1, <2>1, <2>2, Zenon DEF OneLine, LineEnds
<1>4. ASSUME NEW i \in 1..(k + m)
      PROVE  u[i].kind # "n"
  <2>1. IF i <= k THEN i \in 1..k ELSE i - k \in 1..m
    BY <1>4
  <2> QED BY <1>1, <1>2, <1>3, <2>1, Zenon DEF NoEnd
<1> QED BY <1>2, <1>4, Zenon DEF NoEnd

LEMMA PutsLine ==
  ASSUME LinesInv, Lines!Put
  PROVE  LinesInv'
<1>0. LinesFields /\ LinesTyped /\ LinesPlace /\ LinesOrder
  BY LinesParts
<1>1. app.at = "put" \/ (app.at = "push" /\ Lines!Fits)
  BY Zenon DEF Lines!Put, Lines!At
<1>2. PICK o, b, l, r : o = app.out /\ b = app.buffer /\ l = app.line /\ r = app.rest
  OBVIOUS
<1>3. /\ o \in Seq(Letter) /\ b \in Seq(Letter) /\ l \in Seq(Letter) /\ r \in Seq(Letter)
      /\ OneLine(l) /\ (~LineEnds(l) => r = << >>) /\ NoEnd(b)
      /\ (app.at = "put" => b = << >>)
  BY <1>0, <1>1, <1>2, Zenon DEF LinesTyped, LinesPlace
<1>4. Coming = l /\ Written = o \o b \o l \o r
  <2>1. Coming = l
    BY <1>1, <1>2 DEF Coming
  <2> QED BY <1>2, <2>1, Zenon DEF Written
<1>5. Capacity \in Nat
  BY LibraryAssumption DEF LibraryAssumption, Lines!LinesAssumption
<1>6. PICK k \in Nat, m \in Nat : k = Len(b) /\ m = Len(l)
  BY <1>3, LenProperties, Zenon
<1>7. k <= Capacity /\ (b = << >> => k = 0) /\ (app.at = "push" => k + m <= Capacity)
  <2>1. k <= Capacity /\ (b = << >> => k = 0)
    BY <1>0, <1>2, <1>6, EmptySeq, Zenon DEF LinesTyped
  <2>2. app.at = "push" => k + m <= Capacity
    BY <1>1, <1>2, <1>6 DEF Lines!Fits
  <2> QED BY <2>1, <2>2
<1>8. /\ << >> \in Seq(Letter) /\ o \o b \in Seq(Letter) /\ b \o l \in Seq(Letter)
      /\ o \o l \in Seq(Letter) /\ l \o r \in Seq(Letter)
      /\ (o \o b) \o << >> = o \o b /\ o \o << >> = o /\ (o \o l) \o << >> = o \o l
      /\ (o \o (b \o l)) \o << >> = o \o (b \o l)
      /\ o \o b \o l \o r = (o \o b) \o (l \o r)
      /\ o \o b \o l = o \o (b \o l)
  <2>1. << >> \in Seq(Letter)
    BY EmptySeq, Zenon
  <2>2. /\ o \o b \in Seq(Letter) /\ b \o l \in Seq(Letter) /\ l \o r \in Seq(Letter)
        /\ o \o b \o l \o r = (o \o b) \o (l \o r) /\ o \o b \o l = o \o (b \o l)
    <3>1. JoinsTo(Letter, o, b, l, r)
      BY <1>3, FourParts, Zenon
    <3> QED BY <3>1, Zenon DEF JoinsTo
  <2>3. o \o l \in Seq(Letter) /\ o \o (b \o l) \in Seq(Letter)
    BY <1>3, <2>2, ConcatProperties, Zenon
  <2> QED BY <1>3, <2>1, <2>2, <2>3, ConcatEmptySeq, Zenon
<1>9. CASE Lines!Set([at |-> "pushed", out |-> o \o l]) /\ Len(l) > Capacity
  <2> DEFINE f == [at |-> "pushed", out |-> o \o l]
  <2>1. DOMAIN f = {"at", "out"} /\ f.at = "pushed" /\ f.out = o \o l
    OBVIOUS
  <2>2. Lines!Set(f)
    BY <1>9, Zenon
  <2> HIDE DEF f
  <2>3. /\ LinesFields' /\ app'.at = f.at /\ app'.out = f.out /\ app'.buffer = app.buffer
        /\ app'.rest = app.rest /\ app'.next = app.next /\ app'.line = app.line
        /\ app'.failed = app.failed
    BY <1>0, <2>1, <2>2, LinesSets, SMTT(30) DEF LinesFields
  <2>4. app'.at = "pushed" /\ app'.out = o \o l
    BY <2>1, <2>3, Zenon
  <2>5. b = << >>
    <3>1. app.at # "push"
      BY <1>5, <1>6, <1>7, <1>9
    <3> QED BY <1>1, <1>3, <3>1, Zenon
  <2>6. LinesTyped'
    BY <1>0, <1>8, <2>3, <2>4, Zenon DEF LinesTyped
  <2>7. LinesPlace'
    BY <1>2, <1>3, <2>3, <2>4 DEF LinesPlace
  <2>8. Written' = Written
    <3>1. Coming' = << >>
      BY <2>4 DEF Coming
    <3>2. Written' = (o \o l) \o << >> \o << >> \o r
      BY <1>2, <2>3, <2>4, <2>5, <3>1, Zenon DEF Written
    <3>3. Written' = (o \o l) \o r
      BY <1>8, <3>2, Zenon
    <3> QED BY <1>4, <1>8, <2>5, <3>3, Zenon
  <2> QED BY <2>3, <2>6, <2>7, <2>8, MovesBorder, Zenon
<1>10. CASE Lines!Set([at |-> "idle", failed |-> TRUE, rest |-> << >>])
  <2> DEFINE f == [at |-> "idle", failed |-> TRUE, rest |-> << >>]
  <2>1. /\ DOMAIN f = {"at", "failed", "rest"} /\ f.at = "idle" /\ f.failed = TRUE
        /\ f.rest = << >>
    OBVIOUS
  <2>2. Lines!Set(f)
    BY <1>10, Zenon
  <2> HIDE DEF f
  <2>3. /\ LinesFields' /\ app'.at = f.at /\ app'.failed = f.failed /\ app'.rest = f.rest
        /\ app'.buffer = app.buffer /\ app'.out = app.out /\ app'.next = app.next
        /\ app'.line = app.line
    BY <1>0, <2>1, <2>2, LinesSets, SMTT(30) DEF LinesFields
  <2>4. app'.at = "idle" /\ app'.failed = TRUE /\ app'.rest = << >>
    BY <2>1, <2>3, Zenon
  <2>5. LinesTyped'
    BY <1>0, <1>8, <2>3, <2>4, Zenon DEF LinesTyped
  <2>6. LinesPlace'
    BY <1>2, <1>3, <2>3, <2>4 DEF LinesPlace
  <2>7. Written' = o \o b
    <3>1. Coming' = << >>
      BY <2>4 DEF Coming
    <3> QED BY <1>2, <1>8, <2>3, <2>4, <3>1, ZenonT(40) DEF Written
  <2> QED BY <1>4, <1>8, <2>3, <2>4, <2>5, <2>6, <2>7, DropsBehind, Zenon
<1>11. CASE Lines!Set([at |-> "pushed", buffer |-> b \o l]) /\ ~(Len(l) > Capacity)
  <2> DEFINE f == [at |-> "pushed", buffer |-> b \o l]
  <2>1. DOMAIN f = {"at", "buffer"} /\ f.at = "pushed" /\ f.buffer = b \o l
    OBVIOUS
  <2>2. Lines!Set(f)
    BY <1>11, Zenon
  <2> HIDE DEF f
  <2>3. /\ LinesFields' /\ app'.at = f.at /\ app'.buffer = f.buffer /\ app'.out = app.out
        /\ app'.rest = app.rest /\ app'.next = app.next /\ app'.line = app.line
        /\ app'.failed = app.failed
    BY <1>0, <2>1, <2>2, LinesSets, SMTT(30) DEF LinesFields
  <2>4. app'.at = "pushed" /\ app'.buffer = b \o l
    BY <2>1, <2>3, Zenon
  <2>5. Len(b \o l) <= Capacity
    <3>1. Len(b \o l) = k + m
      BY <1>3, <1>6, ConcatProperties, Zenon
    <3>2. k + m <= Capacity
      BY <1>1, <1>3, <1>5, <1>6, <1>7, <1>11
    <3> QED BY <3>1, <3>2, Zenon
  <2>6. LinesTyped'
    BY <1>0, <1>8, <2>3, <2>4, <2>5, Zenon DEF LinesTyped
  <2>7. LinesPlace'
    <3>1. ~LineEnds(l) => NoEnd(b \o l)
      BY <1>3, BufferGrows, Zenon
    <3> QED BY <1>2, <1>3, <2>3, <2>4, <3>1 DEF LinesPlace
  <2>8. Written' = Written
    <3>1. Coming' = << >>
      BY <2>4 DEF Coming
    <3>2. Written' = o \o (b \o l) \o << >> \o r
      BY <1>2, <2>3, <2>4, <3>1, Zenon DEF Written
    <3> QED BY <1>4, <1>8, <3>2, Zenon
  <2> QED BY <2>3, <2>6, <2>7, <2>8, MovesBorder, Zenon
<1> QED BY <1>2, <1>9, <1>10, <1>11, Zenon DEF Lines!Put

LEMMA LinePushed ==
  ASSUME LinesInv, Lines!Pushed
  PROVE  LinesInv'
<1>0. LinesFields /\ LinesTyped /\ LinesPlace /\ LinesOrder
  BY LinesParts
<1>1. app.at = "pushed"
  BY Zenon DEF Lines!Pushed, Lines!At
<1>2. Lines!Ended <=> LineEnds(app.line)
  BY Zenon DEF Lines!Ended, LineEnds
<1>3. CASE LineEnds(app.line)
  <2>1. PICK then : then = "split" /\ Lines!Flush(then)
    BY <1>2, <1>3, Zenon DEF Lines!Pushed
  <2> QED BY <1>1, <1>3, <2>1, FlushesBuffer, Zenon
<1>4. CASE ~LineEnds(app.line)
  <2> DEFINE f == [at |-> "idle"]
  <2>1. DOMAIN f = {"at"} /\ f.at = "idle"
    OBVIOUS
  <2>2. Lines!Set(f)
    BY <1>2, <1>4, Zenon DEF Lines!Pushed
  <2> HIDE DEF f
  <2>3. /\ LinesFields' /\ app'.at = f.at /\ app'.buffer = app.buffer /\ app'.out = app.out
        /\ app'.rest = app.rest /\ app'.next = app.next /\ app'.line = app.line
        /\ app'.failed = app.failed
    BY <1>0, <2>1, <2>2, LinesSets, SMTT(30) DEF LinesFields
  <2>4. app'.at = "idle"
    BY <2>1, <2>3, Zenon
  <2>5. LinesTyped'
    BY <1>0, <2>3, Zenon DEF LinesTyped
  <2>6. LinesPlace'
    BY <1>0, <1>1, <1>4, <2>3, <2>4 DEF LinesPlace
  <2>7. Coming' = Coming
    BY <1>1, <2>4 DEF Coming
  <2>8. Written' = Written
    BY <2>3, <2>7, Zenon DEF Written
  <2> QED BY <2>3, <2>5, <2>6, <2>8, MovesBorder, Zenon
<1> QED BY <1>3, <1>4

LEMMA LinesInit ==
  ASSUME Lines!Init
  PROVE  LinesInv
<1>1. app = [buffer |-> << >>, rest |-> << >>, line |-> << >>, at |-> "idle",
             out |-> << >>, next |-> 1, failed |-> FALSE]
  BY Zenon DEF Lines!Init
<1>2. /\ LinesFields /\ app.buffer = << >> /\ app.rest = << >> /\ app.line = << >>
      /\ app.at = "idle" /\ app.out = << >> /\ app.next = 1 /\ app.failed = FALSE
  BY <1>1 DEF LinesFields
<1>3. << >> \in Seq(Letter) /\ Len(<< >>) = 0 /\ << >> \o << >> = << >>
  BY EmptySeq, ConcatEmptySeq, Zenon
<1>4. LinesTyped
  <2>1. 1 \in Nat \ {0} /\ 0 <= Capacity
    BY LibraryAssumption DEF LibraryAssumption, Lines!LinesAssumption
  <2> QED BY <1>2, <1>3, <2>1, Zenon DEF LinesTyped
<1>5. LinesPlace
  <2>1. NoEnd(<< >>)
    BY DEF NoEnd
  <2> QED BY <1>2, <2>1 DEF LinesPlace
<1>6. LinesOrder
  <2>1. Coming = << >>
    BY <1>2 DEF Coming
  <2>2. Written = << >>
    BY <1>2, <1>3, <2>1, Zenon DEF Written
  <2>3. InOrder(<< >>, 1) /\ 0 = 1 - 1
    BY DEF InOrder
  <2> QED BY <1>2, <1>3, <2>2, <2>3, Zenon DEF LinesOrder
<1> QED BY <1>2, <1>4, <1>5, <1>6 DEF LinesInv

LEMMA LinesStep ==
  ASSUME LinesInv, Lines!Next
  PROVE  LinesInv'
<1>1. CASE Lines!MakeRoom
  <2>1. PICK then : then = "put" /\ Lines!Flush(then) /\ app.at = "push"
    BY <1>1, Zenon DEF Lines!MakeRoom, Lines!At
  <2> QED BY <2>1, FlushesBuffer, Zenon
<1> QED BY <1>1, WritesText, SplitsLine, PutsLine, LinePushed, Zenon DEF Lines!Next

LEMMA LinesInOrder ==
  ASSUME LinesInv
  PROVE  Lines!TextInOrder
<1>0. /\ LinesFields /\ LinesTyped /\ LinesPlace /\ LinesOrder /\ Coming \in Seq(Letter)
      /\ app.out \o app.buffer \in Seq(Letter)
  BY LinesParts
<1>1. PICK all \in Seq(Letter) : all = app.out \o app.buffer
  BY <1>0, Zenon
<1>2. PICK v \in Seq(Letter) : Written = all \o v /\ (app.at = "idle" => v = << >>)
  <2>1. app.rest \in Seq(Letter) /\ Coming \o app.rest \in Seq(Letter)
    BY <1>0, ConcatProperties, Zenon DEF LinesTyped
  <2>2. Written = all \o (Coming \o app.rest)
    <3>1. all \in Seq(Letter) /\ Written = (all \o Coming) \o app.rest
      BY <1>1, Zenon DEF Written
    <3>2. PICK c, r : c = Coming /\ r = app.rest
      OBVIOUS
    <3>3. c \in Seq(Letter) /\ r \in Seq(Letter)
      BY <1>0, <2>1, <3>2, Zenon
    <3>4. (all \o c) \o r = all \o (c \o r)
      BY <3>1, <3>3, ConcatAssociative
    <3> QED BY <3>1, <3>2, <3>4, Zenon
  <2>3. app.at = "idle" => Coming = << >> /\ app.rest = << >>
    BY <1>0 DEF Coming, LinesPlace
  <2>4. << >> \o << >> = << >>
    BY EmptySeq, ConcatEmptySeq, Zenon
  <2> QED BY <2>1, <2>2, <2>3, <2>4, Zenon
<1>3. InOrder(all, app.next)
  BY <1>0, <1>2, BeginsInOrder, Zenon DEF LinesOrder
<1>4. app.at = "idle" /\ ~app.failed => Len(all) = app.next - 1
  <2>1. all \o << >> = all
    BY ConcatEmptySeq, Zenon
  <2> QED BY <1>0, <1>2, <2>1, Zenon DEF LinesOrder
<1>5. app.at = "idle" => \A i \in DOMAIN app.buffer : app.buffer[i].kind # "n"
  <2>1. DOMAIN app.buffer = 1..Len(app.buffer)
    BY <1>0, LenProperties, Zenon DEF LinesTyped
  <2>2. app.at = "idle" => NoEnd(app.buffer)
    BY <1>0 DEF LinesPlace
  <2> QED BY <2>1, <2>2, Zenon DEF NoEnd
<1> QED BY <1>0, <1>1, <1>3, <1>4, <1>5, Zenon
        DEF Lines!TextInOrder, Lines!At, InOrder, LinesTyped
=============================================================================
