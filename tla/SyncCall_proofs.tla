--------------------------- MODULE SyncCall_proofs ----------------------------
(***************************************************************************)
(* The blocking calls, for every set of functions and every depth of       *)
(* nesting, with any system call refused: first their type correctness and *)
(* memory safety under every application, reentrant or not; then what a    *)
(* call returns and what it leaves behind when no call in progress shares  *)
(* its slot, and that a call which another one overtakes was reported.     *)
(***************************************************************************)
EXTENDS SyncCall, TockKernel_proofs, SequenceTheorems

(* The counter of a call that is lending or taking back is at a buffer.    *)
NextInRange ==
    \A d \in 1..depth :
        Stage(d) \in {"lend", "unlend"}
            => frame[d].next \in 1..Len(frame[d].api.lends)

(***************************************************************************)
(* The inductive invariant: the properties are nearly inductive together,  *)
(* because LentBy and UpcallLive say for every stage what is shared then.  *)
(***************************************************************************)
Inv == SyncTypeOK /\ NoDanglingUpcall /\ NoDanglingBuffer /\ NextInRange

(* No call is in progress at first, and nothing is shared.                 *)
LEMMA InitInv == Init => Inv
<1> SUFFICES ASSUME Init PROVE Inv
  OBVIOUS
<1> USE KernelAssumption, SyncAssumption DEF Init, KernelInit
<1>1. KernelTypeOK
  BY DEF KernelTypeOK, Entry
<1>2. SyncTypeOK
  BY <1>1 DEF SyncTypeOK
<1>3. NoDanglingUpcall /\ NoDanglingBuffer /\ NextInRange
  BY DEF NoDanglingUpcall, NoDanglingBuffer, NextInRange
<1> QED BY <1>2, <1>3 DEF Inv

(* The frame on top of a stack that is not empty is a frame.               *)
LEMMA TopFrame ==
  ASSUME SyncTypeOK, depth > 0
  PROVE  /\ depth \in Target /\ depth \in 1..MaxDepth
         /\ top \in Frames /\ api \in Api /\ api \in ApiRecord
BY SyncAssumption DEF SyncTypeOK, top, api, Frames

(***************************************************************************)
(* What a step that neither subscribes nor lends may do to the frame d: it *)
(* goes on to a stage at which no less is shared.                          *)
(***************************************************************************)
Shares(f, i) ==
    /\ f.at = "lend" => i < f.next
    /\ f.at = "unlend" => i >= f.next
    /\ f.at # "unsubscribe"

Keeps(f, g) ==
    /\ g \in Frames
    /\ g.api = f.api
    /\ f.at \notin {"lend", "subscribe"} => g.at \notin {"lend", "subscribe"}
    /\ \A i \in 1..Len(f.api.lends) : Shares(f, i) => Shares(g, i)
    /\ g.at \in {"lend", "unlend"} => g.next \in 1..Len(g.api.lends)

(* The queue gains at most upcalls for registrations in force.             *)
QueueFollows ==
    /\ queue' \in Seq(Entry)
    /\ \A i \in 1..Len(queue') :
          \/ \E j \in 1..Len(queue) : queue'[i] = queue[j]
          \/ /\ upcall[queue'[i].slot] # Null
             /\ queue'[i].target = upcall[queue'[i].slot]

(* Frames that keep what they share keep the kernel's references live.     *)
LEMMA KeepsSafe ==
  ASSUME Inv, UNCHANGED <<upcall, allowed>>, QueueFollows,
         depth' \in 0..MaxDepth, depth <= depth',
         \A d \in 1..depth : Keeps(frame[d], frame'[d])
  PROVE  NoDanglingUpcall' /\ NoDanglingBuffer'
<1> USE SyncAssumption
<1>1. /\ depth \in 0..MaxDepth
      /\ queue \in Seq(Entry) /\ upcall \in [Slot -> Target \cup {Null}]
      /\ allowed \in [Slot -> Target \cup {Null}]
  BY DEF Inv, SyncTypeOK, KernelTypeOK
<1>2. \A d \in 1..depth :
        /\ d \in 1..depth'
        /\ frame'[d].api = frame[d].api
        /\ frame[d].at \notin {"lend", "subscribe"}
              => frame'[d].at \notin {"lend", "subscribe"}
  BY <1>1 DEF Keeps
<1>3. NoDanglingUpcall'
  <2>1. \A s \in Slot : upcall'[s] # Null => UpcallLive(s, upcall[s])'
    BY <1>1, <1>2 DEF Inv, NoDanglingUpcall, UpcallLive, Stage
  <2>2. ASSUME NEW i \in 1..Len(queue')
        PROVE  UpcallLive(queue[i].slot, queue[i].target)'
    <3>1. queue'[i] \in Entry
      BY DEF QueueFollows
    <3>2. CASE \E j \in 1..Len(queue) : queue'[i] = queue[j]
      <4>1. UpcallLive(queue'[i].slot, queue'[i].target)
        BY <3>2 DEF Inv, NoDanglingUpcall
      <4> QED BY <1>1, <1>2, <3>1, <4>1 DEF UpcallLive, Stage
    <3>3. CASE /\ upcall[queue'[i].slot] # Null
               /\ queue'[i].target = upcall[queue'[i].slot]
      <4>1. /\ queue'[i].slot \in Slot
            /\ UpcallLive(queue'[i].slot, queue'[i].target)
        BY <3>1, <3>3 DEF Inv, NoDanglingUpcall, Entry
      <4> QED BY <1>2, <4>1 DEF UpcallLive, Stage
    <3> QED BY <3>2, <3>3 DEF QueueFollows
  <2> QED BY <2>1, <2>2 DEF NoDanglingUpcall
<1>4. NoDanglingBuffer'
  BY <1>1, <1>2 DEF Inv, NoDanglingBuffer, LentBy, Stage, Keeps, Shares
<1> QED BY <1>3, <1>4

(* A queue that does not change, that loses its head, or that a driver     *)
(* adds to follows.                                                        *)
LEMMA QueueSame ==
  ASSUME KernelTypeOK, UNCHANGED queue PROVE QueueFollows
BY DEF KernelTypeOK, QueueFollows

(* A queue that lost its head holds no new upcall,                         *)
LEMMA QueueTail ==
  ASSUME KernelTypeOK, queue # << >>, queue' = Tail(queue)
  PROVE  QueueFollows
<1>1. /\ queue \in Seq(Entry) /\ Tail(queue) \in Seq(Entry)
      /\ Len(Tail(queue)) = Len(queue) - 1 /\ Len(queue) \in Nat
      /\ \A i \in 1..Len(Tail(queue)) : Tail(queue)[i] = queue[i + 1]
  BY HeadTailProperties DEF KernelTypeOK
<1> QED BY <1>1 DEF QueueFollows

(* and one that gained an upcall gained one of its slot's registration.    *)
LEMMA QueueScheduled ==
  ASSUME KernelTypeOK, NEW s \in Slot, outstanding[s] # Null,
         queue' = Scheduled(s, outstanding[s])
  PROVE  QueueFollows
<1>1. outstanding[s] \in Target
  BY DEF KernelTypeOK
<1>2. CASE upcall[s] = Null
  BY <1>2, QueueSame DEF Scheduled
<1>3. CASE upcall[s] # Null
  <2>1. /\ queue' \in Seq(Entry)
        /\ \A i \in 1..Len(queue') :
             \/ i \in 1..Len(queue) /\ queue'[i] = queue[i]
             \/ queue'[i].slot = s /\ queue'[i].target = upcall[s]
    BY <1>1, ScheduledProperties
  <2> QED BY <1>3, <2>1 DEF QueueFollows
<1> QED BY <1>2, <1>3

-----------------------------------------------------------------------------
(***************************************************************************)
(* One lemma per kind of step.                                             *)
(***************************************************************************)
(* A step that changes only the top frame, as Keeps allows.                *)
LEMMA TopStep ==
  ASSUME Inv, depth > 0, UNCHANGED <<upcall, allowed, depth, reported>>,
         QueueFollows, outstanding' \in [Slot -> Target \cup {Null}],
         bytes' \in [Target -> Target \cup {Null}],
         NEW g, Keeps(top, g), frame' = [frame EXCEPT ![depth] = g]
  PROVE  Inv'
<1> USE SyncAssumption
<1>1. /\ SyncTypeOK /\ KernelTypeOK /\ depth \in Target /\ depth \in 1..MaxDepth
      /\ depth \in 0..MaxDepth /\ top \in Frames
  BY TopFrame DEF Inv, SyncTypeOK
<1>2. g \in Frames /\ g # NoFrame
  BY DEF Keeps, Frames, NoFrame, Stages
<1>3. SyncTypeOK'
  BY <1>1, <1>2 DEF SyncTypeOK, KernelTypeOK, QueueFollows
<1>4. /\ frame'[depth] = g
      /\ \A d \in 1..depth : d # depth => frame'[d] = frame[d]
      /\ \A d \in 1..depth : frame[d] \in Frames
  BY <1>1 DEF SyncTypeOK
<1>5. \A d \in 1..depth : Keeps(frame[d], frame'[d])
  BY <1>4 DEF Keeps, top, Inv, NextInRange, Stage
<1>6. NoDanglingUpcall' /\ NoDanglingBuffer'
  BY <1>1, <1>5, KeepsSafe
<1>7. NextInRange'
  BY <1>5 DEF NextInRange, Stage, Keeps
<1> QED BY <1>3, <1>6, <1>7 DEF Inv

(* Leaving the scope: the call goes to the drop of its first share.        *)
LEMMA LeaveKeeps ==
  ASSUME Inv, depth > 0, Leave,
         top.at \notin {"unlend", "unsubscribe"}
  PROVE  \E g : Keeps(top, g) /\ frame' = [frame EXCEPT ![depth] = g]
<1> DEFINE stage == IF api.lends = << >> THEN "unsubscribe" ELSE "unlend"
<1>1. /\ depth \in Target /\ top \in Frames /\ top.api = api
      /\ api.lends \in Seq(Slot)
  BY TopFrame DEF Inv, api, ApiRecord
<1> DEFINE g == [top EXCEPT !.at = stage, !.next = 1]
<1>2. stage \in Stages
  BY DEF Stages
<1> HIDE DEF stage
<1>3. g \in Frames /\ g.api = api /\ g.at = stage /\ g.next = 1
  BY <1>1, <1>2 DEF Frames, NoFrame, Stages
<1> HIDE DEF g
<1>7. frame' = [frame EXCEPT ![depth] = g]
  BY <1>1 DEF Leave, top, Inv, SyncTypeOK, g, stage
<1>4. api.lends # << >> => 1 \in 1..Len(api.lends)
  BY <1>1
<1>5. api.lends = << >> => 1..Len(api.lends) = {}
  BY <1>1
<1>6. Keeps(top, g)
  BY <1>1, <1>3, <1>4, <1>5 DEF Keeps, Shares, stage
<1> QED BY <1>6, <1>7

(* A step that changes any of the frames in use, as Keeps allows.          *)
LEMMA FramesStep ==
  ASSUME Inv, UNCHANGED <<upcall, allowed, depth, outstanding, bytes, reported>>,
         QueueFollows,
         frame' \in [Target -> Frames \cup {NoFrame}],
         \A d \in Target : frame'[d] # NoFrame <=> frame[d] # NoFrame,
         \A d \in 1..depth : Keeps(frame[d], frame'[d])
  PROVE  Inv'
<1> USE SyncAssumption
<1>1. SyncTypeOK /\ KernelTypeOK /\ depth \in 0..MaxDepth
  BY DEF Inv, SyncTypeOK
<1>2. SyncTypeOK'
  BY <1>1 DEF SyncTypeOK, KernelTypeOK, QueueFollows
<1>3. NoDanglingUpcall' /\ NoDanglingBuffer'
  BY <1>1, KeepsSafe
<1>4. NextInRange'
  BY DEF NextInRange, Stage, Keeps
<1> QED BY <1>2, <1>3, <1>4 DEF Inv

(* A new frame on top of frames that keep what they share.                 *)
LEMMA PushStep ==
  ASSUME Inv, UNCHANGED <<upcall, allowed, outstanding, reported>>,
         QueueFollows, NEW f, NEW a \in Api, Push(f, a),
         f \in [Target -> Frames \cup {NoFrame}],
         \A d \in Target : f[d] # NoFrame <=> frame[d] # NoFrame,
         \A d \in 1..depth : Keeps(frame[d], f[d])
  PROVE  Inv'
<1> USE SyncAssumption
<1> DEFINE g == [api |-> a,
                 at |-> IF a.lends = << >> THEN "subscribe" ELSE "lend",
                 next |-> 1, got |-> Null, accepted |-> FALSE]
<1>1. /\ SyncTypeOK /\ KernelTypeOK /\ depth \in 0..MaxDepth
      /\ depth + 1 \in Target /\ depth' = depth + 1
      /\ depth' \in 0..MaxDepth /\ depth <= depth'
      /\ frame' = [f EXCEPT ![depth + 1] = g]
      /\ bytes' = [bytes EXCEPT ![depth + 1] = Null]
  BY DEF Inv, SyncTypeOK, Push
<1>2. g \in Frames /\ g # NoFrame
  BY DEF Frames, NoFrame, Stages
<1>3. /\ frame'[depth + 1] = g
      /\ \A d \in 1..depth : frame'[d] = f[d]
      /\ \A d \in Target : d # depth + 1 => frame'[d] = f[d]
      /\ frame' \in [Target -> Frames \cup {NoFrame}]
  BY <1>1, <1>2
<1>4. SyncTypeOK'
  <2>1. KernelTypeOK'
    BY <1>1 DEF KernelTypeOK, QueueFollows
  <2>2. \A d \in Target : d <= depth' <=> frame'[d] # NoFrame
    BY <1>1, <1>2, <1>3 DEF SyncTypeOK
  <2> QED BY <1>1, <1>3, <2>1, <2>2 DEF SyncTypeOK
<1>5. NoDanglingUpcall' /\ NoDanglingBuffer'
  BY <1>1, <1>3, KeepsSafe
<1>6. a.lends \in Seq(Slot) /\ (a.lends # << >> => 1 \in 1..Len(a.lends))
  BY DEF ApiRecord
<1>7. NextInRange'
  <2>1. ASSUME NEW d \in 1..depth', Stage(d)' \in {"lend", "unlend"}
        PROVE  frame'[d].next \in 1..Len(frame'[d].api.lends)
    <3>1. CASE d = depth + 1
      BY <1>3, <1>6, <2>1, <3>1 DEF Stage
    <3>2. CASE d \in 1..depth
      BY <1>3, <2>1, <3>2 DEF Keeps, Stage
    <3> QED BY <1>1, <3>1, <3>2
  <2> QED BY <2>1 DEF NextInRange, Stage
<1> QED BY <1>4, <1>5, <1>7 DEF Inv

(* A buffer is lent to the driver.                                         *)
LEMMA LendStep ==
  ASSUME Inv, depth > 0, Lend PROVE Inv'
<1> USE SyncAssumption
<1>1. /\ SyncTypeOK /\ KernelTypeOK /\ depth \in Target /\ depth \in 1..MaxDepth
      /\ top \in Frames /\ api \in ApiRecord /\ top.api = api
      /\ top.at = "lend" /\ top.next \in 1..Len(api.lends)
      /\ top.next \in Nat /\ top.next + 1 \in Nat
      /\ Len(api.lends) \in Nat /\ api.lends[top.next] \in Slot
  BY TopFrame DEF Inv, SyncTypeOK, NextInRange, Stage, Lend, api, top,
     ApiRecord, Frames
<1> DEFINE stage == IF top.next = Len(api.lends) THEN "subscribe" ELSE "lend"
           s0 == api.lends[top.next]
           g == [top EXCEPT !.at = stage, !.next = top.next + 1]
<1>a. stage \in Stages
  BY DEF Stages
<1>b. stage = IF top.next = Len(api.lends) THEN "subscribe" ELSE "lend"
  OBVIOUS
<1> HIDE DEF stage
<1>c. /\ g \in Frames /\ g # NoFrame /\ g.api = api
      /\ g.at = stage /\ g.next = top.next + 1
  BY <1>1, <1>a DEF Frames, NoFrame, Stages
<1>d. g = [top EXCEPT !.at = stage, !.next = top.next + 1]
  OBVIOUS
<1> HIDE DEF g
<1>2. /\ g \in Frames /\ g # NoFrame /\ g.api = api
      /\ g.at = IF top.next = Len(api.lends) THEN "subscribe" ELSE "lend"
      /\ g.next = top.next + 1
  BY <1>b, <1>c
<1>3. /\ frame' = [frame EXCEPT ![depth] = g]
      /\ allowed' = [allowed EXCEPT ![s0] = depth]
      /\ UNCHANGED <<upcall, queue, outstanding, bytes, depth, reported>>
  BY <1>1, <1>b, <1>d DEF Lend, SetAllowed, top, SyncTypeOK
<1> HIDE DEF s0
<1>4. /\ frame'[depth] = g /\ s0 \in Slot
      /\ \A d \in 1..depth : d # depth => frame'[d] = frame[d]
  BY <1>1, <1>3 DEF SyncTypeOK, s0
<1>5. SyncTypeOK'
  <2>1. KernelTypeOK'
    BY <1>1, <1>3, <1>4 DEF KernelTypeOK
  <2>2. /\ frame' \in [Target -> Frames \cup {NoFrame}]
        /\ \A d \in Target : d <= depth' <=> frame'[d] # NoFrame
    BY <1>1, <1>2, <1>3 DEF SyncTypeOK
  <2> QED BY <1>1, <1>3, <2>1, <2>2 DEF SyncTypeOK
<1>6. \A d \in 1..depth :
        /\ frame'[d].api = frame[d].api
        /\ frame[d].at \notin {"lend", "subscribe"}
              => frame'[d].at \notin {"lend", "subscribe"}
  BY <1>1, <1>2, <1>4 DEF top, api
<1>7. NoDanglingUpcall'
  <2>1. queue \in Seq(Entry)
    BY <1>1 DEF KernelTypeOK
  <2> QED BY <1>3, <1>6, <2>1 DEF Inv, NoDanglingUpcall, UpcallLive, Stage
<1>8. NextInRange'
  BY <1>1, <1>2, <1>3, <1>4 DEF Inv, NextInRange, Stage
<1>9. NoDanglingBuffer'
  <2>1. ASSUME NEW s \in Slot, allowed'[s] # Null PROVE LentBy(s, allowed[s])'
    <3>1. CASE s = s0
      <4>1. allowed'[s] = depth
        BY <1>1, <1>3, <3>1 DEF KernelTypeOK
      <4>2. /\ frame'[depth].api = api /\ api.lends[top.next] = s
            /\ frame'[depth].at \in {"subscribe", "lend"}
            /\ frame'[depth].next = top.next + 1
        BY <1>2, <1>4, <3>1 DEF s0
      <4>3. \E i \in 1..Len(api.lends) :
               api.lends[i] = s /\ i < frame'[depth].next
        BY <1>1, <4>2
      <4> QED BY <1>1, <1>3, <4>1, <4>2, <4>3 DEF LentBy, Stage
    <3>2. CASE s # s0
      <4>1. allowed'[s] = allowed[s] /\ LentBy(s, allowed[s])
        BY <1>1, <1>3, <2>1, <3>2 DEF KernelTypeOK, Inv, NoDanglingBuffer
      <4>2. CASE allowed[s] = depth
        <5>1. PICK i \in 1..Len(api.lends) :
                 api.lends[i] = s /\ i < top.next
          BY <1>1, <4>1, <4>2 DEF LentBy, Stage, top, api
        <5>2. /\ frame'[depth].api = api /\ i < frame'[depth].next
              /\ frame'[depth].at \in {"subscribe", "lend"}
          BY <1>1, <1>2, <1>4, <5>1
        <5>3. depth' = depth /\ depth \in 1..depth
          BY <1>1, <1>3
        <5>4. \E k \in 1..Len(frame'[depth].api.lends) :
                 frame'[depth].api.lends[k] = s /\ k < frame'[depth].next
          BY <5>1, <5>2
        <5>5. Stage(depth)' \notin {"unlend", "unsubscribe"}
          BY <5>2, <5>3 DEF Stage
        <5>6. allowed'[s] = depth
          BY <4>1, <4>2
        <5> QED BY <5>3, <5>4, <5>5, <5>6 DEF LentBy
      <4>3. CASE allowed[s] # depth
        <5>1. frame'[allowed[s]] = frame[allowed[s]]
          BY <1>4, <4>1, <4>3 DEF LentBy
        <5> QED BY <1>1, <1>3, <4>1, <5>1 DEF LentBy, Stage
      <4> QED BY <4>2, <4>3
    <3> QED BY <3>1, <3>2
  <2> QED BY <2>1 DEF NoDanglingBuffer
<1> QED BY <1>5, <1>7, <1>8, <1>9 DEF Inv

(* A buffer is taken back.                                                 *)
LEMMA UnlendStep ==
  ASSUME Inv, depth > 0, Unlend PROVE Inv'
<1> USE SyncAssumption, KernelAssumption
<1>1. /\ SyncTypeOK /\ KernelTypeOK /\ depth \in Target /\ depth \in 1..MaxDepth
      /\ top \in Frames /\ api \in ApiRecord /\ top.api = api
      /\ top.at = "unlend" /\ top.next \in 1..Len(api.lends)
      /\ top.next \in Nat /\ top.next + 1 \in Nat
      /\ Len(api.lends) \in Nat /\ api.lends[top.next] \in Slot
  BY TopFrame DEF Inv, SyncTypeOK, NextInRange, Stage, Unlend, api, top,
     ApiRecord, Frames
<1> DEFINE stage == IF top.next = Len(api.lends) THEN "unsubscribe"
                    ELSE "unlend"
           s0 == api.lends[top.next]
           g == [top EXCEPT !.at = stage, !.next = top.next + 1]
<1>a. stage \in Stages
  BY DEF Stages
<1>b. stage = IF top.next = Len(api.lends) THEN "unsubscribe" ELSE "unlend"
  OBVIOUS
<1> HIDE DEF stage
<1>c. /\ g \in Frames /\ g # NoFrame /\ g.api = api
      /\ g.at = stage /\ g.next = top.next + 1
  BY <1>1, <1>a DEF Frames, NoFrame, Stages
<1>d. g = [top EXCEPT !.at = stage, !.next = top.next + 1]
  OBVIOUS
<1> HIDE DEF g
<1>2. /\ g \in Frames /\ g # NoFrame /\ g.api = api
      /\ g.at = IF top.next = Len(api.lends) THEN "unsubscribe" ELSE "unlend"
      /\ g.next = top.next + 1
  BY <1>b, <1>c
<1>3. /\ frame' = [frame EXCEPT ![depth] = g]
      /\ allowed' = [allowed EXCEPT ![s0] = Null]
      /\ UNCHANGED <<upcall, queue, outstanding, bytes, depth, reported>>
  BY <1>1, <1>b, <1>d DEF Unlend, SetAllowed, top, SyncTypeOK
<1> HIDE DEF s0
<1>4. /\ frame'[depth] = g /\ s0 \in Slot
      /\ \A d \in 1..depth : d # depth => frame'[d] = frame[d]
  BY <1>1, <1>3 DEF SyncTypeOK, s0
<1>5. SyncTypeOK'
  <2>1. KernelTypeOK'
    BY <1>1, <1>3, <1>4 DEF KernelTypeOK
  <2>2. /\ frame' \in [Target -> Frames \cup {NoFrame}]
        /\ \A d \in Target : d <= depth' <=> frame'[d] # NoFrame
    BY <1>1, <1>2, <1>3 DEF SyncTypeOK
  <2> QED BY <1>1, <1>3, <2>1, <2>2 DEF SyncTypeOK
<1>6. \A d \in 1..depth :
        /\ frame'[d].api = frame[d].api
        /\ frame[d].at \notin {"lend", "subscribe"}
              => frame'[d].at \notin {"lend", "subscribe"}
  BY <1>1, <1>2, <1>4 DEF top, api
<1>7. NoDanglingUpcall'
  <2>1. queue \in Seq(Entry)
    BY <1>1 DEF KernelTypeOK
  <2> QED BY <1>3, <1>6, <2>1 DEF Inv, NoDanglingUpcall, UpcallLive, Stage
<1>8. NextInRange'
  BY <1>1, <1>2, <1>3, <1>4 DEF Inv, NextInRange, Stage
<1>9. NoDanglingBuffer'
  <2>1. ASSUME NEW s \in Slot, allowed'[s] # Null PROVE LentBy(s, allowed[s])'
    <3>1. s # s0 /\ allowed'[s] = allowed[s] /\ LentBy(s, allowed[s])
      BY <1>1, <1>3, <1>4, <2>1 DEF KernelTypeOK, Inv, NoDanglingBuffer
    <3>2. CASE allowed[s] = depth
      <4>1. PICK i \in 1..Len(api.lends) : api.lends[i] = s /\ i >= top.next
        BY <1>1, <3>1, <3>2 DEF LentBy, Stage, top, api
      <4>2. i # top.next /\ i >= top.next + 1 /\ top.next # Len(api.lends)
        BY <1>1, <3>1, <4>1 DEF s0
      <4>3. /\ frame'[depth].api = api /\ frame'[depth].at = "unlend"
            /\ frame'[depth].next = top.next + 1
        BY <1>2, <1>4, <4>2
      <4> QED BY <1>1, <1>3, <3>1, <3>2, <4>1, <4>2, <4>3 DEF LentBy, Stage
    <3>3. CASE allowed[s] # depth
      BY <1>1, <1>3, <1>4, <3>1, <3>3 DEF LentBy, Stage
    <3> QED BY <3>2, <3>3
  <2> QED BY <2>1 DEF NoDanglingBuffer
<1> QED BY <1>5, <1>7, <1>8, <1>9 DEF Inv

(* Subscribe: the slot's old registration and its queue entries, another   *)
(* call's perhaps, go away together.                                       *)
LEMMA SubscribeStep ==
  ASSUME Inv, depth > 0, Subscribe PROVE Inv'
<1> USE SyncAssumption, KernelAssumption
<1>1. /\ SyncTypeOK /\ KernelTypeOK /\ depth \in Target /\ depth \in 1..MaxDepth
      /\ top \in Frames /\ api \in ApiRecord /\ top.api = api
      /\ top.at = "subscribe" /\ api.slot \in Slot /\ queue \in Seq(Entry)
  BY TopFrame DEF Inv, SyncTypeOK, Subscribe, api, ApiRecord, Frames,
     KernelTypeOK
<1> DEFINE stage == IF api.listener THEN "open" ELSE "command"
           g == [top EXCEPT !.at = stage]
<1>a. stage \in {"open", "command"}
  OBVIOUS
<1> HIDE DEF stage
<1>b. g \in Frames /\ g # NoFrame /\ g.api = api /\ g.at = stage
  BY <1>1, <1>a DEF Frames, NoFrame, Stages
<1>c. g = [top EXCEPT !.at = stage]
  OBVIOUS
<1> HIDE DEF g
<1>2. /\ frame' = [frame EXCEPT ![depth] = g]
      /\ upcall' = [upcall EXCEPT ![api.slot] = depth]
      /\ queue' = Purge(queue, api.slot)
      /\ reported' \subseteq Slot
      /\ UNCHANGED <<allowed, outstanding, bytes, depth>>
  BY <1>1, <1>c DEF Subscribe, SetUpcall, Goto, top, SyncTypeOK, stage
<1>3. /\ queue' \in Seq(Entry)
      /\ \A j \in 1..Len(queue') :
            \E i \in 1..Len(queue) : queue'[j] = queue[i]
  BY <1>1, <1>2, PurgeProperties
<1>4. /\ frame'[depth] = g
      /\ \A d \in 1..depth : d # depth => frame'[d] = frame[d]
  BY <1>1, <1>2 DEF SyncTypeOK
<1>5. SyncTypeOK'
  <2>1. KernelTypeOK'
    BY <1>1, <1>2, <1>3 DEF KernelTypeOK
  <2>2. /\ frame' \in [Target -> Frames \cup {NoFrame}]
        /\ \A d \in Target : d <= depth' <=> frame'[d] # NoFrame
    BY <1>1, <1>2, <1>b DEF SyncTypeOK
  <2> QED BY <1>1, <1>2, <2>1, <2>2 DEF SyncTypeOK
<1>6. \A d \in 1..depth :
        /\ frame'[d].api = frame[d].api
        /\ frame[d].at \notin {"lend", "subscribe"}
              => frame'[d].at \notin {"lend", "subscribe"}
  BY <1>1, <1>4, <1>a, <1>b DEF top, api
<1>7. NoDanglingUpcall'
  <2>1. ASSUME NEW s \in Slot, upcall'[s] # Null
        PROVE  UpcallLive(s, upcall[s])'
    <3>1. CASE s = api.slot
      BY <1>1, <1>2, <1>4, <1>a, <1>b, <3>1 DEF UpcallLive, Stage, KernelTypeOK
    <3>2. CASE s # api.slot
      BY <1>1, <1>2, <1>6, <2>1, <3>2
         DEF Inv, NoDanglingUpcall, UpcallLive, Stage, KernelTypeOK
    <3> QED BY <3>1, <3>2
  <2>2. \A i \in 1..Len(queue') : UpcallLive(queue[i].slot, queue[i].target)'
    BY <1>1, <1>2, <1>3, <1>6 DEF Inv, NoDanglingUpcall, UpcallLive, Stage
  <2> QED BY <2>1, <2>2 DEF NoDanglingUpcall
<1>8. NextInRange'
  BY <1>1, <1>2, <1>4, <1>a, <1>b DEF Inv, NextInRange, Stage
<1>9. NoDanglingBuffer'
  BY <1>1, <1>2, <1>4, <1>a, <1>b
     DEF Inv, NoDanglingBuffer, LentBy, Stage, top, api
<1> QED BY <1>5, <1>7, <1>8, <1>9 DEF Inv

(* The pop: no registration, no queued upcall and no buffer of the frame   *)
(* is left, because each is in a slot the drops have been to.              *)
LEMMA UnsubscribeStep ==
  ASSUME Inv, depth > 0, Unsubscribe PROVE Inv'
<1> USE SyncAssumption, KernelAssumption
<1>1. /\ SyncTypeOK /\ KernelTypeOK /\ depth \in Target /\ depth \in 1..MaxDepth
      /\ top \in Frames /\ api \in ApiRecord /\ top.api = api
      /\ top.at = "unsubscribe" /\ api.slot \in Slot /\ queue \in Seq(Entry)
  BY TopFrame DEF Inv, SyncTypeOK, Unsubscribe, api, ApiRecord, Frames,
     KernelTypeOK
<1>2. /\ frame' = [frame EXCEPT ![depth] = NoFrame]
      /\ upcall' = [upcall EXCEPT ![api.slot] = Null]
      /\ queue' = Purge(queue, api.slot)
      /\ depth' = depth - 1
      /\ UNCHANGED <<allowed, outstanding, bytes, reported>>
  BY DEF Unsubscribe, SetUpcall
<1>3. /\ queue' \in Seq(Entry)
      /\ \A j \in 1..Len(queue') :
            \E i \in 1..Len(queue) :
               queue'[j] = queue[i] /\ queue[i].slot # api.slot
  BY <1>1, <1>2, PurgeProperties
<1>4. /\ \A d \in 1..depth' : frame'[d] = frame[d] /\ d \in 1..depth
      /\ \A d \in 1..depth : d # depth => d \in 1..depth'
      /\ depth' \in 0..MaxDepth
  BY <1>1, <1>2 DEF SyncTypeOK
<1>5. SyncTypeOK'
  <2>1. KernelTypeOK'
    BY <1>1, <1>2, <1>3 DEF KernelTypeOK
  <2>2. /\ frame' \in [Target -> Frames \cup {NoFrame}]
        /\ \A d \in Target : d <= depth' <=> frame'[d] # NoFrame
    BY <1>1, <1>2 DEF SyncTypeOK
  <2> QED BY <1>1, <1>2, <1>4, <2>1, <2>2 DEF SyncTypeOK
<1>6. NoDanglingUpcall'
  <2>1. ASSUME NEW s \in Slot, NEW d, s # api.slot, UpcallLive(s, d)
        PROVE  /\ d \in 1..depth' /\ frame'[d].api.slot = s
               /\ frame'[d].at \notin {"lend", "subscribe"}
    BY <1>1, <1>4, <2>1 DEF UpcallLive, Stage, top, api
  <2>2. ASSUME NEW s \in Slot, upcall'[s] # Null
        PROVE  UpcallLive(s, upcall[s])'
    <3>1. s # api.slot /\ upcall'[s] = upcall[s] /\ UpcallLive(s, upcall[s])
      BY <1>1, <1>2, <2>2 DEF Inv, NoDanglingUpcall, KernelTypeOK
    <3> QED BY <2>1, <3>1 DEF UpcallLive, Stage
  <2>3. ASSUME NEW j \in 1..Len(queue')
        PROVE  UpcallLive(queue[j].slot, queue[j].target)'
    <3>1. PICK i \in 1..Len(queue) :
             queue'[j] = queue[i] /\ queue[i].slot # api.slot
      BY <1>3
    <3>2. /\ queue[i] \in Entry
          /\ UpcallLive(queue[i].slot, queue[i].target)
      BY <1>1 DEF Inv, NoDanglingUpcall
    <3>3. queue[i].slot \in Slot
      BY <3>2 DEF Entry
    <3> QED BY <2>1, <3>1, <3>2, <3>3 DEF UpcallLive, Stage
  <2> QED BY <2>2, <2>3 DEF NoDanglingUpcall
<1>7. NextInRange'
  BY <1>4 DEF Inv, NextInRange, Stage
<1>8. NoDanglingBuffer'
  BY <1>1, <1>2, <1>4 DEF Inv, NoDanglingBuffer, LentBy, Stage, top
<1> QED BY <1>5, <1>6, <1>7, <1>8 DEF Inv

(* An upcall is delivered.                                                 *)
LEMMA YieldStep ==
  ASSUME Inv, depth > 0, Yield PROVE Inv'
<1> USE SyncAssumption, KernelAssumption
<1> DEFINE e == Head(queue)
           g == [top EXCEPT !.at = "woken"]
           f == IF top.at = "open" THEN frame
                ELSE [frame EXCEPT ![depth] = g]
<1>1. /\ SyncTypeOK /\ KernelTypeOK /\ depth \in Target /\ depth \in 1..MaxDepth
      /\ top \in Frames /\ queue \in Seq(Entry) /\ queue # << >>
      /\ top.at \in {"wait", "open"}
      /\ \A d \in 1..depth : frame[d] \in Frames
  BY TopFrame DEF Inv, SyncTypeOK, KernelTypeOK, Yield
<1>2. e \in Entry /\ e.target \in 1..depth /\ e.op \in Target
  <2>1. e = queue[1] /\ 1 \in 1..Len(queue)
    BY <1>1, EmptySeq
  <2>2. e \in Entry
    BY <1>1, <2>1
  <2>3. UpcallLive(queue[1].slot, queue[1].target)
    BY <2>1 DEF Inv, NoDanglingUpcall
  <2> HIDE DEF e
  <2>4. e.target \in 1..depth
    BY <2>1, <2>3 DEF UpcallLive
  <2> QED BY <2>2, <2>4 DEF Entry
<1>3. g \in Frames /\ g # NoFrame /\ Keeps(top, g) /\ g.at = "woken"
  BY <1>1 DEF Frames, NoFrame, Stages, Keeps, Shares
<1>4. /\ UNCHANGED <<upcall, allowed, outstanding, reported>>
      /\ queue' = Tail(queue)
      /\ Deliver(e, f)
  <2>1. [frame EXCEPT ![depth].at = "woken"] = [frame EXCEPT ![depth] = g]
    BY <1>1 DEF top, SyncTypeOK
  <2> QED BY <2>1 DEF Yield
<1> HIDE DEF e, g
<1>5. QueueFollows
  BY <1>1, <1>4, QueueTail
<1>6. /\ f \in [Target -> Frames \cup {NoFrame}]
      /\ \A d \in Target : f[d] # NoFrame <=> frame[d] # NoFrame
      /\ \A d \in 1..depth : Keeps(frame[d], f[d])
  <2>1. f \in [Target -> Frames \cup {NoFrame}]
    BY <1>1, <1>3 DEF SyncTypeOK
  <2>2. \A d \in Target : f[d] = IF d = depth /\ top.at # "open" THEN g
                                 ELSE frame[d]
    BY <1>1, <1>3 DEF SyncTypeOK
  <2>3. \A d \in 1..depth : Keeps(frame[d], frame[d])
    BY <1>1 DEF Keeps, Inv, NextInRange, Stage
  <2>4. frame[depth] = top /\ frame[depth] # NoFrame /\ 1..depth \subseteq Target
    BY <1>1 DEF top, Frames, NoFrame, Stages
  <2> HIDE DEF f
  <2> QED BY <1>3, <2>1, <2>2, <2>3, <2>4
<1> HIDE DEF f
<1>7. CASE frame' = f /\ UNCHANGED <<depth, bytes>>
  BY <1>1, <1>4, <1>5, <1>6, <1>7, FramesStep
<1>8. CASE \E a \in Api : Push(f, a)
  BY <1>1, <1>4, <1>5, <1>6, <1>8, PushStep
<1>9. CASE /\ frame' = [f EXCEPT ![e.target].got = e.op]
           /\ UNCHANGED <<depth, bytes>>
  <2> DEFINE h == [f[e.target] EXCEPT !.got = e.op]
  <2>1. f[e.target] \in Frames /\ e.target \in Target
    BY <1>1, <1>2, <1>6 DEF Keeps
  <2>2. h \in Frames /\ h # NoFrame /\ h.api = f[e.target].api
        /\ h.at = f[e.target].at /\ h.next = f[e.target].next
    BY <1>2, <2>1 DEF Frames, NoFrame, Stages
  <2>3. frame' = [f EXCEPT ![e.target] = h]
    BY <1>6, <1>9, <2>1
  <2> HIDE DEF h
  <2>4. \A d \in 1..depth : Keeps(frame[d], frame'[d])
    <3>1. ASSUME NEW d \in 1..depth PROVE Keeps(frame[d], frame'[d])
      <4>1. CASE d = e.target
        BY <1>6, <2>1, <2>2, <2>3, <4>1 DEF Keeps, Shares
      <4>2. CASE d # e.target
        BY <1>1, <1>6, <2>3, <4>2
      <4> QED BY <4>1, <4>2
    <3> QED BY <3>1
  <2>5. /\ frame' \in [Target -> Frames \cup {NoFrame}]
        /\ \A d \in Target : frame'[d] # NoFrame <=> frame[d] # NoFrame
    BY <1>6, <2>1, <2>2, <2>3 DEF Frames, NoFrame, Stages
  <2> QED BY <1>1, <1>4, <1>5, <1>9, <2>4, <2>5, FramesStep
<1> QED BY <1>4, <1>7, <1>8, <1>9 DEF Deliver
-----------------------------------------------------------------------------
(* A system call of the process, or its call into the kernel's driver,     *)
(* that leaves the registrations and the shares as they are.               *)
LEMMA CommandStep ==
  ASSUME Inv, depth > 0, Command PROVE Inv'
<1> USE SyncAssumption
<1> DEFINE g == [top EXCEPT !.at = "wait", !.accepted = TRUE]
<1>1. /\ SyncTypeOK /\ KernelTypeOK /\ depth \in Target
      /\ top \in Frames /\ top.at = "command"
  BY TopFrame DEF Inv, SyncTypeOK, Command
<1>2. g \in Frames /\ Keeps(top, g)
  BY <1>1 DEF Frames, NoFrame, Stages, Keeps, Shares
<1>3. /\ frame' = [frame EXCEPT ![depth] = g]
      /\ outstanding' = [outstanding EXCEPT ![api.slot] = depth]
      /\ UNCHANGED <<upcall, queue, allowed, bytes, depth, reported>>
  BY <1>1 DEF Command, DriverStart, top, SyncTypeOK
<1> HIDE DEF g
<1>4. /\ QueueFollows /\ bytes' \in [Target -> Target \cup {Null}]
      /\ outstanding' \in [Slot -> Target \cup {Null}]
  BY <1>1, <1>3, QueueSame DEF KernelTypeOK
<1> QED BY <1>2, <1>3, <1>4, TopStep

(* A step that only moves the top frame's counter to where Keeps allows.   *)
LEMMA QuietStep ==
  ASSUME Inv, depth > 0, UNCHANGED <<kernelVars, depth, reported>>,
         NEW g, Keeps(top, g), frame' = [frame EXCEPT ![depth] = g]
  PROVE  Inv'
<1>1. KernelTypeOK
  BY DEF Inv, SyncTypeOK
<1>2. /\ QueueFollows /\ bytes' \in [Target -> Target \cup {Null}]
      /\ outstanding' \in [Slot -> Target \cup {Null}]
  BY <1>1, QueueSame DEF KernelTypeOK, kernelVars
<1> QED BY <1>2, TopStep DEF kernelVars

(* A system call is refused, and the call leaves.                          *)
LEMMA RefuseStep ==
  ASSUME Inv, depth > 0, Refuse PROVE Inv'
<1>1. Leave /\ top.at \notin {"unlend", "unsubscribe"}
  BY DEF Refuse
<1>2. PICK g : Keeps(top, g) /\ frame' = [frame EXCEPT ![depth] = g]
  BY <1>1, LeaveKeeps
<1> QED BY <1>2, QuietStep DEF Refuse

(* The yield has returned, and the caller looks whether it was called.     *)
LEMMA WokenStep ==
  ASSUME Inv, depth > 0, Woken PROVE Inv'
<1>1. SyncTypeOK /\ depth \in Target /\ top \in Frames /\ top.at = "woken"
  BY TopFrame DEF Inv, Woken
<1>2. CASE Leave
  <2>1. PICK g : Keeps(top, g) /\ frame' = [frame EXCEPT ![depth] = g]
    BY <1>1, <1>2, LeaveKeeps
  <2> QED BY <2>1, QuietStep DEF Woken
<1>3. CASE Goto("wait")
  <2> DEFINE g == [top EXCEPT !.at = "wait"]
  <2>1. Keeps(top, g)
    BY <1>1 DEF Frames, NoFrame, Stages, Keeps, Shares
  <2>2. frame' = [frame EXCEPT ![depth] = g]
    BY <1>1, <1>3 DEF Goto, top, SyncTypeOK
  <2> HIDE DEF g
  <2> QED BY <2>1, <2>2, QuietStep DEF Woken
<1> QED BY <1>2, <1>3 DEF Woken

(* The application's calls into its driver, with a listener registered.    *)
LEMMA ControlStep ==
  ASSUME Inv, depth > 0, Control PROVE Inv'
<1> USE SyncAssumption
<1>1. /\ SyncTypeOK /\ KernelTypeOK /\ depth \in Target /\ depth \in 1..MaxDepth
      /\ top \in Frames /\ top.at = "open" /\ api.slot \in Slot
      /\ UNCHANGED <<upcall, allowed, bytes, depth, reported>>
      /\ frame \in [Target -> Frames \cup {NoFrame}]
  BY TopFrame DEF Inv, SyncTypeOK, Control, ApiRecord
<1>2. CASE UNCHANGED frame /\ QueueFollows
           /\ outstanding' \in [Slot -> Target \cup {Null}]
  <2>1. Keeps(top, top)
    BY <1>1 DEF Keeps
  <2>2. frame' = [frame EXCEPT ![depth] = top]
    BY <1>1, <1>2 DEF top
  <2>3. bytes' \in [Target -> Target \cup {Null}]
    BY <1>1 DEF KernelTypeOK
  <2> QED BY <1>1, <1>2, <2>1, <2>2, <2>3, TopStep
<1>3. CASE DriverStart(api.slot, depth) /\ UNCHANGED <<queue, frame>>
  <2>1. outstanding' \in [Slot -> Target \cup {Null}]
    BY <1>1, <1>3 DEF DriverStart, KernelTypeOK
  <2> QED BY <1>1, <1>2, <1>3, <2>1, QueueSame
<1>4. CASE DriverStop(api.slot) /\ UNCHANGED frame
  <2>1. outstanding' \in [Slot -> Target \cup {Null}]
    BY <1>1, <1>4 DEF DriverStop, KernelTypeOK
  <2>2. QueueFollows
    BY <1>1, <1>4, QueueSame, QueueScheduled DEF DriverStop
  <2> QED BY <1>2, <1>4, <2>1, <2>2
<1>5. CASE Leave /\ UNCHANGED <<queue, outstanding>>
  <2>1. PICK g : Keeps(top, g) /\ frame' = [frame EXCEPT ![depth] = g]
    BY <1>1, <1>5, LeaveKeeps
  <2> QED BY <1>1, <1>5, <2>1, QuietStep DEF kernelVars
<1> QED BY <1>3, <1>4, <1>5 DEF Control

(* A new call is a frame with nothing shared.                              *)
LEMMA CallStep ==
  ASSUME Inv, NEW a \in Api, Call(a) PROVE Inv'
<1> USE SyncAssumption
<1>1. /\ SyncTypeOK /\ KernelTypeOK
      /\ Push(frame, a) /\ UNCHANGED <<upcall, queue, allowed, outstanding, reported>>
      /\ frame \in [Target -> Frames \cup {NoFrame}]
      /\ \A d \in 1..depth : frame[d] \in Frames
  BY DEF Inv, SyncTypeOK, Call
<1>2. \A d \in 1..depth : Keeps(frame[d], frame[d])
  BY <1>1 DEF Keeps, Inv, NextInRange, Stage
<1> QED BY <1>1, <1>2, QueueSame, PushStep

(* A driver writes to a buffer and answers; the frames do not change.      *)
LEMMA DriverStep ==
  ASSUME Inv, NEW s \in Slot, Driver(s) PROVE Inv'
<1> USE SyncAssumption
<1>1. /\ SyncTypeOK /\ KernelTypeOK /\ depth \in 0..MaxDepth
      /\ outstanding[s] # Null /\ outstanding[s] \in Target
      /\ UNCHANGED <<upcall, allowed, depth, frame, reported>>
      /\ \A d \in 1..depth : frame[d] \in Frames
  BY DEF Inv, SyncTypeOK, KernelTypeOK, Driver, DriverAnswer, syncVars
<1>2. QueueFollows
  BY <1>1, QueueScheduled DEF Driver, DriverAnswer
<1>3. bytes' \in [Target -> Target \cup {Null}]
  BY <1>1 DEF Driver, DriverAnswer, KernelTypeOK
<1>4. outstanding' \in [Slot -> Target \cup {Null}]
  BY <1>1 DEF Driver, DriverAnswer, KernelTypeOK
<1>5. SyncTypeOK'
  BY <1>1, <1>2, <1>3, <1>4 DEF SyncTypeOK, KernelTypeOK, QueueFollows
<1>6. \A d \in 1..depth : Keeps(frame[d], frame'[d])
  BY <1>1 DEF Keeps, Inv, NextInRange, Stage
<1>7. NoDanglingUpcall' /\ NoDanglingBuffer'
  BY <1>1, <1>2, <1>6, KeepsSafe
<1>8. NextInRange'
  BY <1>1 DEF Inv, NextInRange, Stage
<1> QED BY <1>5, <1>7, <1>8 DEF Inv

(* Inv is inductive.                                                       *)
LEMMA NextInv == Inv /\ [Next]_vars => Inv'
<1> SUFFICES ASSUME Inv, [Next]_vars PROVE Inv'
  OBVIOUS
<1>1. CASE Step
  <2>1. depth > 0
    BY <1>1 DEF Step
  <2> QED BY <1>1, <2>1, LendStep, SubscribeStep, CommandStep, RefuseStep,
             WokenStep, UnlendStep, UnsubscribeStep, YieldStep DEF Step
<1>2. CASE App
  BY <1>2, CallStep, ControlStep, YieldStep DEF App
<1>3. CASE \E s \in Slot : Driver(s)
  BY <1>3, DriverStep
<1>4. CASE UNCHANGED vars
  BY <1>4 DEF vars, kernelVars, syncVars, Inv, SyncTypeOK, KernelTypeOK,
     NoDanglingUpcall, UpcallLive, NoDanglingBuffer, LentBy, NextInRange, Stage
<1> QED BY <1>1, <1>2, <1>3, <1>4 DEF Next

(* The invariant holds of every behaviour.                                 *)
THEOREM Invariance == Spec => []Inv
<1> QED BY InitInv, NextInv, PTL DEF Spec

(* Type correctness: the frames in use are the first depth ones, whatever  *)
(* calls nest and whichever system calls fail.                             *)
THEOREM TypeCorrect == Spec => []SyncTypeOK
<1>1. Inv => SyncTypeOK
  BY DEF Inv
<1> QED BY <1>1, Invariance, PTL

(* No registration and no queued upcall outlives the stack frame it points *)
(* into: Subscribe::drop runs on every way out of share::scope, and the    *)
(* kernel's Subscribe purges the slot's queue.                             *)
THEOREM UpcallsNeverDangle == Spec => []NoDanglingUpcall
<1>1. Inv => NoDanglingUpcall
  BY DEF Inv
<1> QED BY <1>1, Invariance, PTL

(* No driver holds a buffer whose share has been dropped, whichever system *)
(* call failed and however many calls share the slot.                      *)
THEOREM BuffersNeverDangle == Spec => []NoDanglingBuffer
<1>1. Inv => NoDanglingBuffer
  BY DEF Inv
<1> QED BY <1>1, Invariance, PTL

-----------------------------------------------------------------------------
(***************************************************************************)
(* Functions that keep to their discipline, and calls of different slots.  *)
(***************************************************************************)

Mine(d) == frame[d].api.slot

(* Calls in progress are of different slots.                               *)
Alone == \A c, d \in 1..depth : Mine(c) = Mine(d) => c = d

(***************************************************************************)
(* Inv says what the kernel may refer to.  Own says, of slots that are     *)
(* used by one call at a time, that it refers to that call for that call's *)
(* sake.                                                                   *)
(***************************************************************************)

(* Call d is waiting for an answer in slot s and has not heard it.         *)
Awaits(d, s) ==
    /\ d \in 1..depth
    /\ Mine(d) = s
    /\ Stage(d) \in {"wait", "woken"}
    /\ frame[d].got = Null

(* A driver that is serving an operation serves the call that waits.       *)
OwnOperation ==
    \A s \in Slot : outstanding[s] # Null =>
        /\ \E a \in Api : a.slot = s
        /\ s \notin EventSlot => Awaits(outstanding[s], s)

(* An answer in the queue is to its target's own operation, which is over. *)
OwnQueue ==
    \A e \in Waiting : e.slot \notin EventSlot =>
        /\ e.op = e.target
        /\ outstanding[e.slot] = Null
        /\ Awaits(e.op, e.slot)

(* What a call has at each stage: its registration from the subscribe to   *)
(* the answer, an accepted command, and the answer when it leaves.         *)
InOrder(d) ==
    /\ Stage(d) \in {"command", "wait", "woken"} =>
          upcall[Mine(d)] = d /\ ~frame[d].api.listener
    /\ Stage(d) \in {"wait", "woken"} => frame[d].accepted
    /\ Stage(d) \in {"lend", "subscribe", "command", "open"} =>
          ~frame[d].accepted /\ frame[d].got = Null
    /\ frame[d].api.listener => ~frame[d].accepted
    /\ Stage(d) = "open" => frame[d].api.listener
    /\ frame[d].got \in {Null, d}
    /\ Stage(d) \in {"unlend", "unsubscribe"} /\ frame[d].accepted
          => frame[d].got = d

OwnFrames == \A d \in 1..depth : InOrder(d)

(* The driver of the call's slot holds the call's buffer.                  *)
LendsOwn(d) ==
    \E i \in 1..Len(frame[d].api.lends) :
        /\ frame[d].api.lends[i] = Mine(d)
        /\ Stage(d) = "lend" => i < frame[d].next

OwnLent ==
    \A d \in 1..depth :
        Stage(d) \in {"lend", "subscribe", "command", "wait", "woken"} /\ LendsOwn(d)
            => allowed[Mine(d)] = d

(* From the answer on, the buffer holds what the driver wrote for it.      *)
Answered(d) ==
    \/ frame[d].got # Null
    \/ \E e \in Waiting : e.slot = Mine(d) /\ e.target = d

HasOwn(d) == \E i \in 1..Len(frame[d].api.lends) : frame[d].api.lends[i] = Mine(d)

OwnBytes ==
    \A d \in 1..depth :
        ~frame[d].api.listener /\ HasOwn(d) /\ Answered(d) => bytes[d] = d

Own ==
    /\ Alone /\ OneAnswer /\ OwnOperation /\ OwnQueue
    /\ OwnFrames /\ OwnLent /\ OwnBytes

IInv == Inv /\ Own
-----------------------------------------------------------------------------
(* Nothing is in progress at first.                                        *)
LEMMA InitOwn == Init => Own
<1> SUFFICES ASSUME Init PROVE Own
  OBVIOUS
<1>1. /\ depth = 0 /\ queue = << >> /\ \A s \in Slot : outstanding[s] = Null
      /\ 1..depth = {} /\ 1..Len(queue) = {}
  BY DEF Init, KernelInit
<1> QED BY <1>1 DEF Own, Alone, OneAnswer, OwnOperation, OwnQueue, OwnFrames,
       OwnLent, OwnBytes, Waiting

(* What Inv says of the frames in use.                                     *)
LEMMA FramesInUse ==
  ASSUME Inv
  PROVE  /\ KernelTypeOK /\ depth \in Nat /\ depth \in 0..MaxDepth
         /\ \A d \in 1..depth :
               /\ d \in Target /\ d \in Nat /\ d <= depth
               /\ frame[d] \in Frames
               /\ frame[d].api \in Api /\ frame[d].api \in ApiRecord
               /\ Mine(d) \in Slot
               /\ frame[d].api.lends \in Seq(Slot)
               /\ Stage(d) \in Stages
BY SyncAssumption
   DEF Inv, SyncTypeOK, Frames, ApiRecord, Mine, Stage, NoFrame

(* What waits is for a live frame.                                         *)
LEMMA WaitingLive ==
  ASSUME Inv
  PROVE  \A e \in Waiting :
            /\ e \in Entry /\ e.slot \in Slot /\ e.target \in Target
            /\ UpcallLive(e.slot, e.target)
BY WaitingTyped DEF Inv, SyncTypeOK, NoDanglingUpcall, Waiting, Entry

(***************************************************************************)
(* A step that gives the top frame another stage, or another place in its  *)
(* list of buffers, and leaves the rest of the stack as it is.             *)
(***************************************************************************)
MovesTo(stage) ==
    /\ depth' = depth
    /\ \A d \in 1..depth : d # depth => frame'[d] = frame[d]
    /\ frame'[depth].at = stage
    /\ frame'[depth].api = frame[depth].api
    /\ frame'[depth].got = frame[depth].got

(* A frame that goes to its next stage changes no other frame,             *)
LEMMA GotoMoves ==
  ASSUME Inv, depth > 0, depth' = depth, NEW stage, Goto(stage)
  PROVE  /\ MovesTo(stage)
         /\ frame'[depth].accepted = frame[depth].accepted
<1>1. depth \in 1..depth /\ frame[depth] \in Frames /\ depth \in Target
      /\ frame \in [Target -> Frames \cup {NoFrame}]
      /\ \A d \in 1..depth : d \in Target
  BY FramesInUse DEF Inv, SyncTypeOK
<1> DEFINE g == [frame[depth] EXCEPT !.at = stage]
<1>2. /\ g.at = stage /\ g.api = frame[depth].api /\ g.got = frame[depth].got
      /\ g.accepted = frame[depth].accepted
  BY <1>1 DEF Frames
<1>3. frame' = [frame EXCEPT ![depth] = g]
  BY <1>1 DEF Goto
<1> HIDE DEF g
<1> QED BY <1>1, <1>2, <1>3 DEF MovesTo

(* nor does one that also counts a buffer.                                 *)
LEMMA NextMoves ==
  ASSUME Inv, depth > 0, depth' = depth, NEW stage, NEW n,
         frame' = [frame EXCEPT ![depth].at = stage, ![depth].next = n]
  PROVE  /\ MovesTo(stage)
         /\ frame'[depth].next = n
         /\ frame'[depth].accepted = frame[depth].accepted
<1>1. depth \in 1..depth /\ frame[depth] \in Frames /\ depth \in Target
      /\ frame \in [Target -> Frames \cup {NoFrame}]
      /\ \A d \in 1..depth : d \in Target
  BY FramesInUse DEF Inv, SyncTypeOK
<1> DEFINE g == [frame[depth] EXCEPT !.at = stage, !.next = n]
<1>2. /\ g.at = stage /\ g.api = frame[depth].api /\ g.got = frame[depth].got
      /\ g.next = n /\ g.accepted = frame[depth].accepted
  BY <1>1 DEF Frames
<1>3. frame' = [frame EXCEPT ![depth] = g]
  BY <1>1
<1> HIDE DEF g
<1> QED BY <1>1, <1>2, <1>3 DEF MovesTo

-----------------------------------------------------------------------------
(* A call that is woken keeps everything else it has.                      *)
Resumes(f, g) ==
    /\ g.api = f.api /\ g.got = f.got /\ g.accepted = f.accepted /\ g.next = f.next
    /\ \/ g.at = f.at
       \/ f.at = "wait" /\ g.at = "woken"

(* A new call is of a slot that nothing is served or queued for.           *)
LEMMA PushOwn ==
  ASSUME Inv, Own, Disciplined(Api, EventSlot), ~Reentrant,
         NEW f \in [Target -> Frames \cup {NoFrame}], NEW a \in Api, Push(f, a),
         UNCHANGED <<upcall, allowed, outstanding>>,
         Waiting' \subseteq Waiting, OneAnswer',
         \A d \in 1..depth : Resumes(frame[d], f[d])
  PROVE  Own'
<1> USE SyncAssumption, KernelAssumption
<1> DEFINE g == [api |-> a,
                 at |-> IF a.lends = << >> THEN "subscribe" ELSE "lend",
                 next |-> 1, got |-> Null, accepted |-> FALSE]
<1>n. PICK n : n = depth + 1
  OBVIOUS
<1>0. Alone /\ OwnOperation /\ OwnQueue /\ OwnFrames /\ OwnLent /\ OwnBytes
  BY DEF Own
<1>1. /\ depth \in Nat /\ n \in Target /\ depth' = n /\ n \in 1..n
      /\ frame' = [f EXCEPT ![n] = g]
      /\ bytes' = [bytes EXCEPT ![n] = Null]
      /\ \A d \in 1..depth : frame[d].api.slot # a.slot
      /\ \A d \in 1..depth : d \in 1..n /\ d # n
      /\ \A d \in 1..n : d \in 1..depth \/ d = n
      /\ a \in ApiRecord
  BY <1>n, FramesInUse DEF Push
<1>2. /\ g.api = a /\ g.at \in {"subscribe", "lend"} /\ g.next = 1
      /\ g.got = Null /\ g.accepted = FALSE
      /\ g.at = "subscribe" => a.lends = << >>
  OBVIOUS
<1> HIDE DEF g
<1>3. /\ frame'[n] = g
      /\ \A d \in 1..depth : d \in Target /\ Resumes(frame[d], frame'[d])
      /\ \A d \in 1..depth : bytes'[d] = bytes[d]
  BY <1>1, FramesInUse DEF KernelTypeOK
<1>4. /\ Mine(n)' = a.slot
      /\ \A d \in 1..depth : Mine(d)' = Mine(d) /\ Mine(d) # a.slot
  BY <1>1, <1>2, <1>3 DEF Mine, Resumes
<1>5. ~LendsOwn(n)'
  <2>1. ASSUME NEW i \in 1..Len(a.lends) PROVE a.lends # << >> /\ ~(i < 1)
    BY <1>1, EmptySeq DEF ApiRecord
  <2> QED BY <1>2, <1>3, <2>1 DEF LendsOwn, Mine, Stage
<1>6. \A d \in 1..depth, s \in Slot : Awaits(d, s) => Awaits(d, s)'
  BY <1>1, <1>3, <1>4 DEF Awaits, Stage, Resumes
<1>7. Alone'
  BY <1>0, <1>1, <1>4 DEF Alone
<1>8. OwnOperation'
  BY <1>0, <1>6 DEF OwnOperation, Awaits
<1>9. OwnQueue'
  BY <1>0, <1>6, WaitingLive DEF OwnQueue, Awaits
<1>10. OwnFrames'
  <2>1. ASSUME NEW d \in 1..depth PROVE InOrder(d)'
    BY <1>0, <1>3, <1>4 DEF OwnFrames, InOrder, Resumes, Stage
  <2>2. /\ Stage(n)' \notin {"command", "wait", "woken", "open", "unlend", "unsubscribe"}
        /\ ~frame'[n].accepted /\ frame'[n].got = Null
    BY <1>2, <1>3 DEF Stage
  <2>3. InOrder(n)'
    BY <2>2 DEF InOrder
  <2> QED BY <1>1, <2>1, <2>3 DEF OwnFrames
<1>11. OwnLent'
  <2>1. ASSUME NEW d \in 1..depth, LendsOwn(d)',
               Stage(d)' \in {"lend", "subscribe", "command", "wait", "woken"}
        PROVE  allowed'[Mine(d)'] = d
    <3>1. Resumes(frame[d], frame'[d]) /\ Mine(d)' = Mine(d)
      BY <1>3, <1>4
    <3>2. /\ LendsOwn(d)
          /\ Stage(d) \in {"lend", "subscribe", "command", "wait", "woken"}
      BY <2>1, <3>1 DEF LendsOwn, Resumes, Stage
    <3>3. allowed[Mine(d)] = d
      BY <1>0, <3>2 DEF OwnLent
    <3> QED BY <3>1, <3>3
  <2> QED BY <1>1, <1>5, <2>1 DEF OwnLent
<1>12. OwnBytes'
  <2>1. ASSUME NEW d \in 1..depth, ~frame'[d].api.listener, HasOwn(d)', Answered(d)'
        PROVE  bytes'[d] = d
    <3>1. ~frame[d].api.listener /\ HasOwn(d) /\ Answered(d)
      BY <1>3, <1>4, <2>1 DEF HasOwn, Resumes, Answered
    <3> QED BY <1>0, <1>3, <3>1 DEF OwnBytes
  <2>2. ASSUME Answered(n)', ~frame'[n].api.listener PROVE FALSE
    <3>1. PICK e \in Waiting : e.slot = a.slot /\ e.target = n
      BY <1>2, <1>3, <1>4, <2>2 DEF Answered
    <3>2. a.slot \notin EventSlot
      BY <1>2, <1>3, <2>2 DEF Disciplined
    <3> QED BY <1>0, <1>1, <3>1, <3>2 DEF OwnQueue, Awaits, Mine
  <2> QED BY <1>1, <2>1, <2>2 DEF OwnBytes
<1> QED BY <1>7, <1>8, <1>9, <1>10, <1>11, <1>12 DEF Own

(* A listener's upcall runs and makes no call: a call may have woken.      *)
LEMMA ResumeOwn ==
  ASSUME Inv, Own, UNCHANGED <<upcall, allowed, outstanding, bytes, depth>>,
         Waiting' \subseteq Waiting, OneAnswer',
         \A d \in 1..depth : Resumes(frame[d], frame'[d])
  PROVE  Own'
<1>0. Alone /\ OwnOperation /\ OwnQueue /\ OwnFrames /\ OwnLent /\ OwnBytes
  BY DEF Own
<1>1. \A d \in 1..depth : Mine(d)' = Mine(d)
  BY DEF Mine, Resumes
<1>2. \A d \in 1..depth, s \in Slot : Awaits(d, s) => Awaits(d, s)'
  BY <1>1 DEF Awaits, Stage, Resumes
<1>3. Alone'
  BY <1>0, <1>1 DEF Alone
<1>4. OwnOperation'
  BY <1>0, <1>2 DEF OwnOperation, Awaits
<1>5. OwnQueue'
  BY <1>0, <1>2, WaitingLive DEF OwnQueue, Awaits
<1>6. OwnFrames'
  BY <1>0, <1>1 DEF OwnFrames, InOrder, Resumes, Stage
<1>7. OwnLent'
  BY <1>0, <1>1 DEF OwnLent, LendsOwn, Resumes, Stage
<1>8. OwnBytes'
  BY <1>0, <1>1 DEF OwnBytes, HasOwn, Answered, Resumes
<1> QED BY <1>3, <1>4, <1>5, <1>6, <1>7, <1>8 DEF Own

(* An answer is heard: it is the target's own, and no other is queued.     *)
LEMMA HearOwn ==
  ASSUME Inv, Own, UNCHANGED <<upcall, allowed, outstanding, bytes, depth>>,
         NEW e \in Waiting, e.slot \notin EventSlot,
         Waiting' \subseteq Waiting, OneAnswer',
         \A x \in Waiting' : x.slot # e.slot,
         NEW f \in [Target -> Frames \cup {NoFrame}],
         \A d \in 1..depth : Resumes(frame[d], f[d]) /\ f[d] \in Frames,
         frame' = [f EXCEPT ![e.target].got = e.op]
  PROVE  Own'
<1>0. Alone /\ OwnOperation /\ OwnQueue /\ OwnFrames /\ OwnLent /\ OwnBytes
  BY DEF Own
<1>t. PICK t : t = e.target
  OBVIOUS
<1>1. /\ t \in 1..depth /\ t \in Target /\ Mine(t) = e.slot /\ e.op = t
      /\ e.slot \in Slot /\ outstanding[e.slot] = Null /\ Awaits(t, e.slot)
      /\ frame' = [f EXCEPT ![t].got = t]
  BY <1>0, <1>t, WaitingLive, FramesInUse DEF OwnQueue, Awaits
<1>2. \A d \in 1..depth :
        /\ frame'[d].api = frame[d].api /\ frame'[d].accepted = frame[d].accepted
        /\ frame'[d].next = frame[d].next
        /\ \/ frame'[d].at = frame[d].at
           \/ frame[d].at = "wait" /\ frame'[d].at = "woken"
        /\ frame'[d].got = IF d = t THEN t ELSE frame[d].got
  <2> TAKE d \in 1..depth
  <2>1. CASE d = t
    BY <1>1, <2>1 DEF Resumes, Frames
  <2>2. CASE d # t
    <3>0. d \in Target /\ f \in [Target -> Frames \cup {NoFrame}]
      BY FramesInUse
    <3>1. frame'[d] = f[d]
      BY <1>1, <2>2, <3>0
    <3>2. Resumes(frame[d], f[d])
      OBVIOUS
    <3> QED BY <2>2, <3>1, <3>2 DEF Resumes
  <2> QED BY <2>1, <2>2
<1>3. \A d \in 1..depth : Mine(d)' = Mine(d)
  BY <1>2 DEF Mine
<1>4. \A d \in 1..depth, s \in Slot : s # e.slot /\ Awaits(d, s) => Awaits(d, s)'
  BY <1>1, <1>2, <1>3 DEF Awaits, Stage
<1>5. Alone'
  BY <1>0, <1>3 DEF Alone
<1>6. OwnOperation'
  BY <1>0, <1>1, <1>4 DEF OwnOperation, Awaits
<1>7. OwnQueue'
  BY <1>0, <1>4, WaitingLive DEF OwnQueue, Awaits
<1>8. OwnFrames'
  BY <1>0, <1>1, <1>2, <1>3 DEF OwnFrames, InOrder, Awaits, Stage
<1>9. OwnLent'
  BY <1>0, <1>2, <1>3 DEF OwnLent, LendsOwn, Stage
<1>10. OwnBytes'
  BY <1>0, <1>1, <1>2, <1>3, <1>t DEF OwnBytes, HasOwn, Answered
<1> QED BY <1>5, <1>6, <1>7, <1>8, <1>9, <1>10 DEF Own

(* A yield delivers to the frame that is registered for the slot.          *)
LEMMA YieldOwn ==
  ASSUME Inv, Own, Disciplined(Api, EventSlot), ~Reentrant, depth > 0, Yield
  PROVE  Own'
<1> USE SyncAssumption, KernelAssumption
<1>f. PICK f : f = IF top.at = "open" THEN frame
                   ELSE [frame EXCEPT ![depth].at = "woken"]
  OBVIOUS
<1>e. PICK e : e = Head(queue)
  OBVIOUS
<1>1. /\ KernelTypeOK /\ queue # << >> /\ queue' = Tail(queue)
      /\ UNCHANGED <<upcall, allowed, outstanding>>
      /\ top.at \in {"wait", "open"}
      /\ Deliver(e, f)
  BY <1>e, <1>f, FramesInUse DEF Yield
<1>2. /\ e \in Waiting /\ Waiting' \subseteq Waiting /\ OneAnswer'
      /\ e.slot \notin EventSlot => \A x \in Waiting' : x.slot # e.slot
  BY <1>1, <1>e, TailWaiting, TailOne DEF Own
<1>3. /\ f \in [Target -> Frames \cup {NoFrame}]
      /\ \A d \in 1..depth : Resumes(frame[d], f[d]) /\ f[d] \in Frames
  <2>1. /\ frame \in [Target -> Frames \cup {NoFrame}]
        /\ depth \in Target /\ frame[depth] \in Frames /\ frame[depth] = top
        /\ \A d \in 1..depth : d \in Target /\ frame[d] \in Frames
    BY FramesInUse DEF Inv, SyncTypeOK, top
  <2> DEFINE g == [top EXCEPT !.at = "woken"]
  <2>2. g \in Frames /\ (top.at = "wait" => Resumes(top, g))
    BY <2>1 DEF Frames, Stages, Resumes
  <2>3. f = IF top.at = "open" THEN frame ELSE [frame EXCEPT ![depth] = g]
    BY <1>f, <2>1
  <2> HIDE DEF g
  <2>4. \A d \in 1..depth : Resumes(frame[d], frame[d])
    BY DEF Resumes
  <2> QED BY <1>1, <2>1, <2>2, <2>3, <2>4
<1>4. e.target \in 1..depth /\ frame[e.target].api.slot = e.slot
      /\ frame[e.target].api \in Api
  BY <1>2, WaitingLive, FramesInUse DEF UpcallLive
<1>5. frame[e.target].api.listener <=> e.slot \in EventSlot
  BY <1>4 DEF Disciplined
<1>6. CASE frame' = f /\ UNCHANGED <<depth, bytes>>
  BY <1>1, <1>2, <1>3, <1>6, ResumeOwn
<1>7. CASE \E a \in Api : Push(f, a)
  BY <1>1, <1>2, <1>3, <1>7, PushOwn
<1>8. CASE /\ ~frame[e.target].api.listener
           /\ frame' = [f EXCEPT ![e.target].got = e.op]
           /\ UNCHANGED <<depth, bytes>>
  BY <1>1, <1>2, <1>3, <1>5, <1>8, HearOwn
<1> QED BY <1>1, <1>6, <1>7, <1>8 DEF Deliver

(* A new call has nothing with the kernel yet.                             *)
LEMMA CallOwn ==
  ASSUME Inv, Own, Disciplined(Api, EventSlot), ~Reentrant, NEW a \in Api, Call(a)
  PROVE  Own'
<1>1. /\ Push(frame, a) /\ UNCHANGED <<upcall, queue, allowed, outstanding>>
      /\ frame \in [Target -> Frames \cup {NoFrame}]
  BY DEF Call, Inv, SyncTypeOK
<1>2. \A d \in 1..depth : Resumes(frame[d], frame[d])
  BY DEF Resumes
<1>3. Waiting' = Waiting /\ OneAnswer'
  BY <1>1 DEF Waiting, OneAnswer, Own
<1> QED BY <1>1, <1>2, <1>3, PushOwn

-----------------------------------------------------------------------------
(* A call leaves before its command is accepted, or with its answer.       *)
LEMMA LeaveOwn ==
  ASSUME Inv, Own, depth > 0, Leave,
         UNCHANGED <<upcall, queue, allowed, outstanding, bytes, depth>>,
         \/ top.at \in {"lend", "subscribe", "command", "open"}
         \/ top.at = "woken" /\ top.got # Null
  PROVE  Own'
<1>0. Alone /\ OneAnswer /\ OwnOperation /\ OwnQueue /\ OwnFrames /\ OwnLent /\ OwnBytes
  BY DEF Own
<1>1. \E stage \in {"unlend", "unsubscribe"} :
         MovesTo(stage) /\ frame'[depth].accepted = frame[depth].accepted
  BY NextMoves DEF Leave
<1>2. PICK top0 \in 1..depth : top0 = depth
  BY FramesInUse
<1>3. /\ \A d \in 1..depth : d # top0 => frame'[d] = frame[d]
      /\ Stage(top0)' \in {"unlend", "unsubscribe"}
      /\ frame'[top0].api = frame[top0].api
      /\ frame'[top0].got = frame[top0].got
      /\ frame'[top0].accepted = frame[top0].accepted
      /\ depth' = depth
  BY <1>1, <1>2 DEF MovesTo, Stage
<1>4. /\ frame[top0].accepted => frame[top0].got = top0
      /\ \A s : ~Awaits(top0, s)
  <2>1. InOrder(top0) /\ frame[top0] = top
    BY <1>0, <1>2 DEF OwnFrames, top
  <2> QED BY <2>1 DEF InOrder, Awaits, Stage
<1>5. Waiting' = Waiting
  BY DEF Waiting
<1>6. \A d \in 1..depth : Mine(d)' = Mine(d)
  BY <1>2, <1>3 DEF Mine
<1>7. \A d, s : Awaits(d, s) => Awaits(d, s)'
  BY <1>3, <1>4 DEF Awaits, Mine, Stage
<1>8. Alone'
  BY <1>0, <1>3, <1>6 DEF Alone
<1>9. OneAnswer'
  BY <1>0 DEF OneAnswer
<1>10. OwnOperation'
  BY <1>0, <1>7 DEF OwnOperation
<1>11. OwnQueue'
  BY <1>0, <1>5, <1>7 DEF OwnQueue
<1>12. OwnFrames'
  <2>1. ASSUME NEW d \in 1..depth PROVE InOrder(d)'
    <3>1. CASE d = top0
      BY <1>0, <1>3, <1>4, <1>6, <3>1 DEF OwnFrames, InOrder, Stage
    <3>2. CASE d # top0
      BY <1>0, <1>3, <1>6, <3>2 DEF OwnFrames, InOrder, Stage
    <3> QED BY <3>1, <3>2
  <2> QED BY <1>3, <2>1 DEF OwnFrames
<1>13. OwnLent'
  BY <1>0, <1>3, <1>6 DEF OwnLent, LendsOwn, Stage
<1>14. OwnBytes'
  BY <1>0, <1>3, <1>5, <1>6 DEF OwnBytes, HasOwn, Answered
<1> QED BY <1>8, <1>9, <1>10, <1>11, <1>12, <1>13, <1>14 DEF Own

(* A refused call leaves, and unsubscribes and unallows all the same.      *)
LEMMA RefuseOwn ==
  ASSUME Inv, Own, depth > 0, Refuse
  PROVE  Own'
BY LeaveOwn DEF Refuse, kernelVars

(* A call that finds its answer goes on to its end.                        *)
LEMMA WokenOwn ==
  ASSUME Inv, Own, Disciplined(Api, EventSlot), depth > 0, Woken
  PROVE  Own'
<1>0. Alone /\ OneAnswer /\ OwnOperation /\ OwnQueue /\ OwnFrames /\ OwnLent /\ OwnBytes
  BY DEF Own
<1>1. /\ UNCHANGED <<upcall, queue, allowed, outstanding, bytes, depth>>
      /\ top.at = "woken" /\ api.loops
      /\ IF top.got = Null THEN Goto("wait") ELSE Leave
  BY TopFrame DEF Woken, kernelVars, Disciplined, Inv
<1>2. CASE top.got # Null
  BY <1>1, <1>2, LeaveOwn
<1>3. CASE top.got = Null
  <2>1. MovesTo("wait") /\ frame'[depth].accepted = frame[depth].accepted
    BY <1>1, <1>3, GotoMoves
  <2>2. PICK top0 \in 1..depth : top0 = depth
    BY FramesInUse
  <2>3. /\ \A d \in 1..depth : d # top0 => frame'[d] = frame[d]
        /\ Stage(top0)' = "wait" /\ Stage(top0) = "woken"
        /\ frame'[top0].api = frame[top0].api
        /\ frame'[top0].got = frame[top0].got
        /\ frame'[top0].accepted = frame[top0].accepted
        /\ depth' = depth
    BY <1>1, <2>1, <2>2 DEF MovesTo, Stage, top
  <2>4. Waiting' = Waiting
    BY <1>1 DEF Waiting
  <2>5. \A d \in 1..depth : Mine(d)' = Mine(d)
    BY <2>2, <2>3 DEF Mine
  <2>6. \A d, s : Awaits(d, s) => Awaits(d, s)'
    BY <2>3 DEF Awaits, Mine, Stage
  <2>7. Alone'
    BY <1>0, <2>3, <2>5 DEF Alone
  <2>8. OneAnswer'
    BY <1>0, <1>1 DEF OneAnswer
  <2>9. OwnOperation'
    BY <1>0, <1>1, <2>6 DEF OwnOperation
  <2>10. OwnQueue'
    BY <1>0, <1>1, <2>4, <2>6 DEF OwnQueue
  <2>11. OwnFrames'
    <3>1. ASSUME NEW d \in 1..depth PROVE InOrder(d)'
      <4>1. CASE d = top0
        BY <1>0, <1>1, <2>3, <2>5, <4>1 DEF OwnFrames, InOrder, Stage
      <4>2. CASE d # top0
        BY <1>0, <1>1, <2>3, <2>5, <4>2 DEF OwnFrames, InOrder, Stage
      <4> QED BY <4>1, <4>2
    <3> QED BY <2>3, <3>1 DEF OwnFrames
  <2>12. OwnLent'
    BY <1>0, <1>1, <2>3, <2>5 DEF OwnLent, LendsOwn, Stage
  <2>13. OwnBytes'
    BY <1>0, <1>1, <2>3, <2>4, <2>5 DEF OwnBytes, HasOwn, Answered
  <2> QED BY <2>7, <2>8, <2>9, <2>10, <2>11, <2>12, <2>13 DEF Own
<1> QED BY <1>2, <1>3

(* The command is accepted: the driver serves the call, which is           *)
(* registered and finds no older answer in the queue.                      *)
LEMMA CommandOwn ==
  ASSUME Inv, Own, Disciplined(Api, EventSlot), depth > 0, Command
  PROVE  Own'
<1> USE SyncAssumption, KernelAssumption
<1>0. Alone /\ OneAnswer /\ OwnOperation /\ OwnQueue /\ OwnFrames /\ OwnLent /\ OwnBytes
  BY DEF Own
<1>2. PICK top0 \in 1..depth : top0 = depth
  BY FramesInUse
<1>3. /\ \A d \in 1..depth : d # top0 => frame'[d] = frame[d]
      /\ Stage(top0)' = "wait" /\ Stage(top0) = "command"
      /\ frame'[top0].api = frame[top0].api
      /\ frame'[top0].got = frame[top0].got
      /\ frame'[top0].accepted = TRUE
      /\ depth' = depth
  <2>1. top0 \in Target /\ frame[top0] \in Frames
        /\ frame \in [Target -> Frames \cup {NoFrame}]
        /\ \A d \in 1..depth : d \in Target
    BY FramesInUse DEF Inv, SyncTypeOK
  <2> DEFINE g == [frame[top0] EXCEPT !.at = "wait", !.accepted = TRUE]
  <2>2. /\ g.at = "wait" /\ g.api = frame[top0].api /\ g.got = frame[top0].got
        /\ g.accepted = TRUE
    BY <2>1 DEF Frames
  <2>3. /\ frame' = [frame EXCEPT ![top0] = g] /\ depth' = depth
        /\ Stage(top0) = "command"
    BY <1>2, <2>1 DEF Command, Stage, top
  <2> HIDE DEF g
  <2> QED BY <2>1, <2>2, <2>3 DEF Stage
<1>4. /\ UNCHANGED <<upcall, queue, allowed, bytes>>
      /\ Mine(top0) \in Slot /\ frame[top0].api \in Api
      /\ outstanding' = [outstanding EXCEPT ![Mine(top0)] = top0]
      /\ outstanding \in [Slot -> Target \cup {Null}]
  BY <1>2, FramesInUse DEF Command, DriverStart, Mine, top, api, KernelTypeOK
<1>5. InOrder(top0) /\ top0 \in Target /\ Mine(top0) \notin EventSlot
  BY <1>0, <1>3, <1>4, FramesInUse DEF OwnFrames, InOrder, Mine, Disciplined
<1>6. \A d \in 1..depth : Mine(d)' = Mine(d)
  BY <1>2, <1>3 DEF Mine
<1>7. /\ \A d, s : Awaits(d, s) => d # top0 /\ Awaits(d, s)'
      /\ \A d : Awaits(d, Mine(top0)) => FALSE
  BY <1>0, <1>3 DEF Awaits, Mine, Stage, Alone
<1>8. frame[top0].got = Null
  BY <1>3, <1>5 DEF InOrder
<1>9. Waiting' = Waiting
  BY <1>4 DEF Waiting
<1>10. \A e \in Waiting : e.slot # Mine(top0)
  BY <1>0, <1>5, <1>7 DEF OwnQueue
<1>11. Alone'
  BY <1>0, <1>3, <1>6 DEF Alone
<1>12. OneAnswer'
  BY <1>0, <1>4 DEF OneAnswer
<1>13. OwnOperation'
  <2>1. ASSUME NEW s \in Slot, outstanding'[s] # Null
        PROVE  /\ \E a \in Api : a.slot = s
               /\ s \notin EventSlot => Awaits(outstanding[s], s)'
    <3>1. CASE s = Mine(top0)
      <4>1. outstanding'[s] = top0
        BY <1>4, <3>1
      <4>2. Awaits(top0, s)'
        BY <1>2, <1>3, <1>6, <1>8, <3>1 DEF Awaits, Stage
      <4>3. Awaits(outstanding[s], s)'
        BY <4>1, <4>2 DEF Awaits, Stage, Mine
      <4> QED BY <1>4, <3>1, <4>3 DEF Mine
    <3>2. CASE s # Mine(top0)
      <4>1. outstanding'[s] = outstanding[s]
        BY <1>4, <3>2
      <4>2. /\ \E a \in Api : a.slot = s
            /\ s \notin EventSlot => Awaits(outstanding[s], s)
        BY <1>0, <2>1, <4>1 DEF OwnOperation
      <4>3. s \notin EventSlot => Awaits(outstanding[s], s)'
        BY <1>7, <4>1, <4>2 DEF Awaits, Stage, Mine
      <4> QED BY <4>2, <4>3
    <3> QED BY <3>1, <3>2
  <2> QED BY <2>1 DEF OwnOperation
<1>14. OwnQueue'
  BY <1>0, <1>4, <1>7, <1>9, <1>10, WaitingLive DEF OwnQueue
<1>15. OwnFrames'
  <2>1. ASSUME NEW d \in 1..depth PROVE InOrder(d)'
    <3>1. CASE d = top0
      BY <1>0, <1>3, <1>4, <1>6, <3>1 DEF OwnFrames, InOrder, Stage
    <3>2. CASE d # top0
      BY <1>0, <1>3, <1>4, <1>6, <3>2 DEF OwnFrames, InOrder, Stage
    <3> QED BY <3>1, <3>2
  <2> QED BY <1>3, <2>1 DEF OwnFrames
<1>16. OwnLent'
  BY <1>0, <1>3, <1>4, <1>6 DEF OwnLent, LendsOwn, Stage
<1>17. OwnBytes'
  BY <1>0, <1>3, <1>4, <1>6, <1>9 DEF OwnBytes, HasOwn, Answered
<1> QED BY <1>11, <1>12, <1>13, <1>14, <1>15, <1>16, <1>17 DEF Own

(* Lend: no other call's buffer is in the slot that is lent to.            *)
LEMMA LendOwn ==
  ASSUME Inv, Own, Disciplined(Api, EventSlot), depth > 0, Lend
  PROVE  Own'
<1> USE SyncAssumption, KernelAssumption
<1>0. Alone /\ OneAnswer /\ OwnOperation /\ OwnQueue /\ OwnFrames /\ OwnLent /\ OwnBytes
  BY DEF Own
<1>2. PICK top0 \in 1..depth : top0 = depth
  BY FramesInUse
<1>3. /\ \A d \in 1..depth : d # top0 => frame'[d] = frame[d]
      /\ Stage(top0) = "lend" /\ Stage(top0)' \in {"lend", "subscribe"}
      /\ frame'[top0].api = frame[top0].api
      /\ frame'[top0].got = frame[top0].got
      /\ frame'[top0].accepted = frame[top0].accepted
      /\ frame'[top0].next = frame[top0].next + 1
      /\ Stage(top0)' = "subscribe"
            => frame[top0].next = Len(frame[top0].api.lends)
      /\ depth' = depth
  BY <1>2, NextMoves DEF Lend, MovesTo, Stage, top, api
<1>s. PICK s0 : s0 = frame[top0].api.lends[frame[top0].next]
  OBVIOUS
<1>4. /\ UNCHANGED <<upcall, queue, outstanding, bytes>>
      /\ allowed' = [allowed EXCEPT ![s0] = top0]
      /\ allowed \in [Slot -> Target \cup {Null}]
      /\ frame[top0].api \in Api
      /\ frame[top0].next \in 1..Len(frame[top0].api.lends)
      /\ Len(frame[top0].api.lends) \in Nat
      /\ frame[top0].api.lends \in Seq(Slot)
      /\ s0 \in Slot
  <2>1. /\ UNCHANGED <<upcall, queue, outstanding, bytes>>
        /\ allowed' = [allowed EXCEPT ![s0] = top0]
    BY <1>2, <1>s DEF Lend, SetAllowed, top, api
  <2>2. frame[top0].next \in 1..Len(frame[top0].api.lends)
    BY <1>3 DEF Inv, NextInRange
  <2>3. frame[top0].api \in Api /\ frame[top0].api.lends \in Seq(Slot)
        /\ allowed \in [Slot -> Target \cup {Null}]
    BY FramesInUse DEF KernelTypeOK
  <2> QED BY <1>s, <2>1, <2>2, <2>3
<1>6. \A d \in 1..depth : Mine(d)' = Mine(d)
  BY <1>2, <1>3 DEF Mine
<1>7. \A d, s : Awaits(d, s) => Awaits(d, s)'
  BY <1>3 DEF Awaits, Mine, Stage
<1>8. Waiting' = Waiting
  BY <1>4 DEF Waiting
<1>9. \A d \in 1..depth : s0 = Mine(d) => d = top0
  BY <1>0, <1>4, <1>s, FramesInUse DEF Alone, Disciplined, Mine
<1>11. Alone'
  BY <1>0, <1>3, <1>6 DEF Alone
<1>12. OneAnswer'
  BY <1>0, <1>4 DEF OneAnswer
<1>13. OwnOperation'
  BY <1>0, <1>4, <1>7 DEF OwnOperation
<1>14. OwnQueue'
  BY <1>0, <1>4, <1>7, <1>8 DEF OwnQueue
<1>15. OwnFrames'
  <2>1. ASSUME NEW d \in 1..depth PROVE InOrder(d)'
    <3>1. CASE d = top0
      BY <1>0, <1>3, <1>4, <1>6, <3>1 DEF OwnFrames, InOrder, Stage
    <3>2. CASE d # top0
      BY <1>0, <1>3, <1>4, <1>6, <3>2 DEF OwnFrames, InOrder, Stage
    <3> QED BY <3>1, <3>2
  <2> QED BY <1>3, <2>1 DEF OwnFrames
<1>16. OwnLent'
  <2>1. ASSUME NEW d \in 1..depth, LendsOwn(d)',
               Stage(d)' \in {"lend", "subscribe", "command", "wait", "woken"}
        PROVE  allowed'[Mine(d)] = d
    <3>1. Mine(d) \in Slot
      BY FramesInUse
    <3>2. CASE d = top0 /\ s0 = Mine(d)
      BY <1>4, <3>1, <3>2
    <3>3. CASE d = top0 /\ s0 # Mine(d)
      <4>1. PICK i \in 1..Len(frame[top0].api.lends) :
               /\ frame[top0].api.lends[i] = Mine(top0)
               /\ Stage(top0)' = "lend" => i < frame[top0].next + 1
        BY <1>3, <1>6, <2>1, <3>3 DEF LendsOwn, Stage
      <4>2. i # frame[top0].next
        BY <1>s, <3>3, <4>1
      <4>3. i < frame[top0].next
        BY <1>3, <1>4, <4>1, <4>2
      <4>4. allowed[Mine(top0)] = top0
        BY <1>0, <1>3, <4>1, <4>3 DEF OwnLent, LendsOwn
      <4> QED BY <1>4, <3>1, <3>3, <4>4
    <3>4. CASE d # top0
      <4>0. /\ LendsOwn(d)
            /\ Stage(d) \in {"lend", "subscribe", "command", "wait", "woken"}
        BY <1>3, <1>6, <2>1, <3>4 DEF LendsOwn, Stage
      <4>1. allowed[Mine(d)] = d
        BY <1>0, <1>3, <4>0 DEF OwnLent
      <4> QED BY <1>4, <1>9, <3>1, <3>4, <4>1
    <3> QED BY <3>2, <3>3, <3>4
  <2> QED BY <1>3, <1>6, <2>1 DEF OwnLent
<1>17. OwnBytes'
  <2>1. ASSUME NEW d \in 1..depth, ~frame'[d].api.listener, HasOwn(d)', Answered(d)'
        PROVE  bytes'[d] = d
    <3>1. /\ frame'[d].api = frame[d].api
          /\ frame'[d].got = frame[d].got
      BY <1>3
    <3>2. ~frame[d].api.listener /\ HasOwn(d) /\ Answered(d)
      BY <1>6, <1>8, <2>1, <3>1 DEF HasOwn, Answered
    <3> QED BY <1>0, <1>4, <3>2 DEF OwnBytes
  <2> QED BY <1>3, <2>1 DEF OwnBytes
<1> QED BY <1>11, <1>12, <1>13, <1>14, <1>15, <1>16, <1>17 DEF Own

(* Subscribe: no call of that slot but this one has a registration or an   *)
(* answer that could be lost.                                              *)
LEMMA SubscribeOwn ==
  ASSUME Inv, Own, Disciplined(Api, EventSlot), depth > 0, Subscribe
  PROVE  Own'
<1> USE SyncAssumption, KernelAssumption
<1>0. Alone /\ OneAnswer /\ OwnOperation /\ OwnQueue /\ OwnFrames /\ OwnLent /\ OwnBytes
  BY DEF Own
<1>2. PICK top0 \in 1..depth : top0 = depth
  BY FramesInUse
<1>t. /\ top0 \in Target /\ Mine(top0) \in Slot /\ KernelTypeOK
      /\ frame[top0].api \in Api
  BY FramesInUse
<1>3. /\ \A d \in 1..depth : d # top0 => frame'[d] = frame[d]
      /\ Stage(top0) = "subscribe"
      /\ Stage(top0)' = IF frame[top0].api.listener THEN "open" ELSE "command"
      /\ frame'[top0].api = frame[top0].api
      /\ frame'[top0].got = frame[top0].got
      /\ frame'[top0].accepted = frame[top0].accepted
      /\ depth' = depth
  BY <1>2, GotoMoves DEF Subscribe, MovesTo, Stage, top, api
<1>4. /\ UNCHANGED <<outstanding, allowed, bytes>>
      /\ SetUpcall(Mine(top0), top0)
      /\ upcall' = [upcall EXCEPT ![Mine(top0)] = top0]
      /\ upcall \in [Slot -> Target \cup {Null}]
  BY <1>2, <1>t DEF Subscribe, SetUpcall, Mine, top, api, KernelTypeOK
<1>5. /\ Waiting' = {e \in Waiting : e.slot # Mine(top0)}
      /\ OneAnswer'
  BY <1>0, <1>t, <1>4, SubscribeWaiting, SubscribeOne
<1>6. \A d \in 1..depth : Mine(d)' = Mine(d) /\ (d # top0 => Mine(d) # Mine(top0))
  BY <1>0, <1>2, <1>3 DEF Mine, Alone
<1>7. \A d, s : Awaits(d, s) => Awaits(d, s)'
  BY <1>3 DEF Awaits, Mine, Stage
<1>11. Alone'
  BY <1>0, <1>3, <1>6 DEF Alone
<1>13. OwnOperation'
  BY <1>0, <1>4, <1>7 DEF OwnOperation
<1>14. OwnQueue'
  BY <1>0, <1>4, <1>5, <1>7 DEF OwnQueue
<1>15. OwnFrames'
  <2>1. ASSUME NEW d \in 1..depth PROVE InOrder(d)'
    <3>1. CASE d = top0
      BY <1>0, <1>3, <1>4, <1>t, <1>6, <3>1 DEF OwnFrames, InOrder, Stage
    <3>2. CASE d # top0
      <4>1. upcall'[Mine(d)] = upcall[Mine(d)]
        BY <1>4, <1>6, <3>2, FramesInUse
      <4> QED BY <1>0, <1>3, <1>6, <3>2, <4>1 DEF OwnFrames, InOrder, Stage
    <3> QED BY <3>1, <3>2
  <2> QED BY <1>3, <2>1 DEF OwnFrames
<1>16. OwnLent'
  BY <1>0, <1>3, <1>4, <1>6 DEF OwnLent, LendsOwn, Stage
<1>17. OwnBytes'
  BY <1>0, <1>3, <1>4, <1>5, <1>6 DEF OwnBytes, HasOwn, Answered
<1> QED BY <1>5, <1>11, <1>13, <1>14, <1>15, <1>16, <1>17 DEF Own

(* Unlend: nothing is said any more of the buffers of a call that leaves.  *)
LEMMA UnlendOwn ==
  ASSUME Inv, Own, Disciplined(Api, EventSlot), depth > 0, Unlend
  PROVE  Own'
<1> USE SyncAssumption, KernelAssumption
<1>0. Alone /\ OneAnswer /\ OwnOperation /\ OwnQueue /\ OwnFrames /\ OwnLent /\ OwnBytes
  BY DEF Own
<1>2. PICK top0 \in 1..depth : top0 = depth
  BY FramesInUse
<1>3. /\ \A d \in 1..depth : d # top0 => frame'[d] = frame[d]
      /\ Stage(top0) = "unlend" /\ Stage(top0)' \in {"unlend", "unsubscribe"}
      /\ frame'[top0].api = frame[top0].api
      /\ frame'[top0].got = frame[top0].got
      /\ frame'[top0].accepted = frame[top0].accepted
      /\ depth' = depth
  BY <1>2, NextMoves DEF Unlend, MovesTo, Stage, top, api
<1>s. PICK s0 : s0 = frame[top0].api.lends[frame[top0].next]
  OBVIOUS
<1>4. /\ UNCHANGED <<upcall, queue, outstanding, bytes>>
      /\ allowed' = [allowed EXCEPT ![s0] = Null]
      /\ allowed \in [Slot -> Target \cup {Null}]
      /\ frame[top0].api \in Api
      /\ frame[top0].next \in 1..Len(frame[top0].api.lends)
  <2>1. /\ UNCHANGED <<upcall, queue, outstanding, bytes>>
        /\ allowed' = [allowed EXCEPT ![s0] = Null]
    BY <1>2, <1>s DEF Unlend, SetAllowed, top, api
  <2>2. frame[top0].next \in 1..Len(frame[top0].api.lends)
    BY <1>3 DEF Inv, NextInRange
  <2>3. frame[top0].api \in Api /\ allowed \in [Slot -> Target \cup {Null}]
    BY FramesInUse DEF KernelTypeOK
  <2> QED BY <2>1, <2>2, <2>3
<1>6. \A d \in 1..depth : Mine(d)' = Mine(d)
  BY <1>2, <1>3 DEF Mine
<1>7. \A d, s : Awaits(d, s) => Awaits(d, s)'
  BY <1>3 DEF Awaits, Mine, Stage
<1>8. Waiting' = Waiting
  BY <1>4 DEF Waiting
<1>9. \A d \in 1..depth : s0 = Mine(d) => d = top0
  BY <1>0, <1>4, <1>s, FramesInUse DEF Alone, Disciplined, Mine
<1>11. Alone'
  BY <1>0, <1>3, <1>6 DEF Alone
<1>12. OneAnswer'
  BY <1>0, <1>4 DEF OneAnswer
<1>13. OwnOperation'
  BY <1>0, <1>4, <1>7 DEF OwnOperation
<1>14. OwnQueue'
  BY <1>0, <1>4, <1>7, <1>8 DEF OwnQueue
<1>15. OwnFrames'
  <2>1. ASSUME NEW d \in 1..depth PROVE InOrder(d)'
    <3>1. CASE d = top0
      BY <1>0, <1>3, <1>4, <1>6, <3>1 DEF OwnFrames, InOrder, Stage
    <3>2. CASE d # top0
      BY <1>0, <1>3, <1>4, <1>6, <3>2 DEF OwnFrames, InOrder, Stage
    <3> QED BY <3>1, <3>2
  <2> QED BY <1>3, <2>1 DEF OwnFrames
<1>16. OwnLent'
  <2>1. ASSUME NEW d \in 1..depth, LendsOwn(d)',
               Stage(d)' \in {"lend", "subscribe", "command", "wait", "woken"}
        PROVE  allowed'[Mine(d)] = d
    <3>1. d # top0 /\ Mine(d) \in Slot
      BY <1>3, <2>1, FramesInUse
    <3>2. allowed[Mine(d)] = d
      BY <1>0, <1>3, <1>6, <2>1, <3>1 DEF OwnLent, LendsOwn, Stage
    <3> QED BY <1>4, <1>9, <3>1, <3>2
  <2> QED BY <1>3, <1>6, <2>1 DEF OwnLent
<1>17. OwnBytes'
  <2>1. ASSUME NEW d \in 1..depth, ~frame'[d].api.listener, HasOwn(d)', Answered(d)'
        PROVE  bytes'[d] = d
    <3>1. /\ frame'[d].api = frame[d].api
          /\ frame'[d].got = frame[d].got
      BY <1>3
    <3>2. ~frame[d].api.listener /\ HasOwn(d) /\ Answered(d)
      BY <1>6, <1>8, <2>1, <3>1 DEF HasOwn, Answered
    <3> QED BY <1>0, <1>4, <3>2 DEF OwnBytes
  <2> QED BY <1>3, <2>1 DEF OwnBytes
<1> QED BY <1>11, <1>12, <1>13, <1>14, <1>15, <1>16, <1>17 DEF Own

(* Unsubscribe: the call that returns awaits nothing.                      *)
LEMMA UnsubscribeOwn ==
  ASSUME Inv, Own, depth > 0, Unsubscribe
  PROVE  Own'
<1> USE SyncAssumption, KernelAssumption
<1>0. Alone /\ OneAnswer /\ OwnOperation /\ OwnQueue /\ OwnFrames /\ OwnLent /\ OwnBytes
  BY DEF Own
<1>2. PICK top0 \in 1..depth : top0 = depth
  BY FramesInUse
<1>t. /\ top0 \in Target /\ Mine(top0) \in Slot /\ KernelTypeOK
      /\ frame[top0].api \in Api /\ Stage(top0) = "unsubscribe"
  BY <1>2, FramesInUse DEF Unsubscribe, Stage, top
<1>3. /\ depth' = depth - 1
      /\ \A d \in 1..depth' : d \in 1..depth /\ d # top0 /\ frame'[d] = frame[d]
      /\ \A d \in 1..depth : d # top0 => d \in 1..depth'
  BY <1>2, FramesInUse DEF Unsubscribe
<1>4. /\ UNCHANGED <<outstanding, allowed, bytes>>
      /\ SetUpcall(Mine(top0), Null)
      /\ upcall' = [upcall EXCEPT ![Mine(top0)] = Null]
      /\ upcall \in [Slot -> Target \cup {Null}]
  BY <1>2, <1>t DEF Unsubscribe, SetUpcall, Mine, top, api, KernelTypeOK
<1>5. /\ Waiting' = {e \in Waiting : e.slot # Mine(top0)}
      /\ OneAnswer'
  BY <1>0, <1>t, <1>4, SubscribeWaiting, SubscribeOne
<1>6. \A d \in 1..depth' : Mine(d)' = Mine(d) /\ Mine(d) # Mine(top0)
  BY <1>0, <1>2, <1>3 DEF Mine, Alone
<1>7. \A d, s : Awaits(d, s) => Awaits(d, s)'
  BY <1>3, <1>t DEF Awaits, Mine, Stage
<1>11. Alone'
  BY <1>0, <1>3, <1>6 DEF Alone
<1>13. OwnOperation'
  BY <1>0, <1>4, <1>7 DEF OwnOperation
<1>14. OwnQueue'
  BY <1>0, <1>4, <1>5, <1>7 DEF OwnQueue
<1>15. OwnFrames'
  <2>1. ASSUME NEW d \in 1..depth' PROVE InOrder(d)'
    <3>1. upcall'[Mine(d)] = upcall[Mine(d)]
      BY <1>3, <1>4, <1>6, FramesInUse
    <3> QED BY <1>0, <1>3, <1>6, <3>1 DEF OwnFrames, InOrder, Stage
  <2> QED BY <2>1 DEF OwnFrames
<1>16. OwnLent'
  BY <1>0, <1>3, <1>4, <1>6 DEF OwnLent, LendsOwn, Stage
<1>17. OwnBytes'
  BY <1>0, <1>3, <1>4, <1>5, <1>6 DEF OwnBytes, HasOwn, Answered
<1> QED BY <1>5, <1>11, <1>13, <1>14, <1>15, <1>16, <1>17 DEF Own

(* A listener starts and stops a driver of events, of which Own says       *)
(* nothing; or it leaves.                                                  *)
LEMMA ControlOwn ==
  ASSUME Inv, Own, Disciplined(Api, EventSlot), depth > 0, Control
  PROVE  Own'
<1> USE SyncAssumption, KernelAssumption
<1>0. Alone /\ OneAnswer /\ OwnOperation /\ OwnQueue /\ OwnFrames /\ OwnLent /\ OwnBytes
  BY DEF Own
<1>2. PICK top0 \in 1..depth : top0 = depth
  BY FramesInUse
<1>3. /\ Stage(top0) = "open" /\ UNCHANGED <<upcall, allowed, bytes, depth>>
      /\ top.at = "open" /\ api.slot = Mine(top0)
      /\ frame[top0].api \in Api /\ Mine(top0) \in Slot /\ KernelTypeOK
  BY <1>2, FramesInUse DEF Control, Stage, top, api, Mine
<1>4. Mine(top0) \in EventSlot
  BY <1>0, <1>3 DEF OwnFrames, InOrder, Disciplined, Mine
<1>5. CASE Leave /\ UNCHANGED <<queue, outstanding>>
  BY <1>3, <1>5, LeaveOwn
<1>6. CASE /\ \E t : outstanding' = [outstanding EXCEPT ![Mine(top0)] = t]
           /\ UNCHANGED <<queue, frame>>
  <2>1. \A s \in Slot : outstanding'[s] # outstanding[s] => s = Mine(top0)
    BY <1>3, <1>6 DEF KernelTypeOK
  <2>2. Waiting' = Waiting /\ \A d : Mine(d)' = Mine(d) /\ Stage(d)' = Stage(d)
    BY <1>6 DEF Waiting, Mine, Stage
  <2>3. \A d, s : Awaits(d, s)' <=> Awaits(d, s)
    BY <1>3, <1>6, <2>2 DEF Awaits
  <2>4. OwnOperation'
    <3>1. ASSUME NEW s \in Slot, outstanding'[s] # Null
          PROVE  /\ \E a \in Api : a.slot = s
                 /\ s \notin EventSlot => Awaits(outstanding[s], s)'
      <4>1. CASE s = Mine(top0)
        BY <1>3, <1>4, <4>1 DEF Mine
      <4>2. CASE s # Mine(top0)
        <5>1. outstanding'[s] = outstanding[s]
          BY <2>1, <4>2
        <5>2. /\ \E a \in Api : a.slot = s
              /\ s \notin EventSlot => Awaits(outstanding[s], s)
          BY <1>0, <3>1, <5>1 DEF OwnOperation
        <5> QED BY <1>3, <1>6, <5>1, <5>2 DEF Awaits, Mine, Stage
      <4> QED BY <4>1, <4>2
    <3> QED BY <3>1 DEF OwnOperation
  <2>5. OwnQueue'
    BY <1>0, <1>4, <2>1, <2>2, <2>3, WaitingLive DEF OwnQueue
  <2>6. OwnFrames' /\ Alone' /\ OneAnswer'
    BY <1>0, <1>3, <1>6, <2>2 DEF OwnFrames, InOrder, Alone, OneAnswer
  <2>7. OwnLent' /\ OwnBytes'
    BY <1>0, <1>3, <1>6, <2>2 DEF OwnLent, LendsOwn, OwnBytes, HasOwn, Answered
  <2> QED BY <2>4, <2>5, <2>6, <2>7 DEF Own
<1> QED BY <1>3, <1>4, <1>5, <1>6 DEF Control, DriverStart, DriverStop

(* A driver answers: what it writes and what it queues is for the call     *)
(* that waits in its slot.                                                 *)
LEMMA DriverOwn ==
  ASSUME Inv, Own, Disciplined(Api, EventSlot), NEW s \in Slot, Driver(s)
  PROVE  Own'
<1> USE SyncAssumption, KernelAssumption
<1>0. Alone /\ OneAnswer /\ OwnOperation /\ OwnQueue /\ OwnFrames /\ OwnLent /\ OwnBytes
  BY DEF Own
<1>1. /\ outstanding[s] # Null /\ UNCHANGED <<upcall, allowed, depth, frame>>
      /\ bytes' = IF allowed[s] = Null THEN bytes
                  ELSE [bytes EXCEPT ![allowed[s]] = outstanding[s]]
      /\ queue' = Scheduled(s, outstanding[s])
      /\ outstanding' = IF s \in EventSlot THEN outstanding
                        ELSE [outstanding EXCEPT ![s] = Null]
      /\ KernelTypeOK
  BY FramesInUse DEF Driver, DriverAnswer, syncVars
<1>t. /\ outstanding \in [Slot -> Target \cup {Null}]
      /\ allowed \in [Slot -> Target \cup {Null}]
      /\ bytes \in [Target -> Target \cup {Null}]
  BY <1>1 DEF KernelTypeOK
<1>2. \E a \in Api : a.slot = s
  BY <1>0, <1>1 DEF OwnOperation
<1>p. PICK op \in Target : op = outstanding[s]
  BY <1>1, <1>t
<1>3. s \notin EventSlot =>
        /\ Awaits(op, s) /\ upcall[s] = op /\ op \in 1..depth
        /\ \A e \in Waiting : e.slot # s
  BY <1>0, <1>1, <1>p DEF OwnOperation, OwnQueue, OwnFrames, InOrder, Awaits
<1>4. /\ OneAnswer'
      /\ Waiting' = IF upcall[s] = Null THEN Waiting
                    ELSE Waiting \cup {[slot |-> s, target |-> upcall[s], op |-> op]}
  BY <1>0, <1>1, <1>3, <1>p, ScheduleWaiting, ScheduleOne
<1>5. \A d : Mine(d)' = Mine(d) /\ Stage(d)' = Stage(d)
  BY <1>1 DEF Mine, Stage
<1>6. \A d, r : Awaits(d, r)' <=> Awaits(d, r)
  BY <1>1, <1>5 DEF Awaits
<1>7. \A r \in Slot : /\ r # s => outstanding'[r] = outstanding[r]
                      /\ s \in EventSlot => outstanding'[r] = outstanding[r]
                      /\ s \notin EventSlot => outstanding'[s] = Null
  BY <1>1, <1>t
<1>8. Alone' /\ OwnFrames' /\ OwnLent'
  BY <1>0, <1>1, <1>5 DEF Alone, OwnFrames, InOrder, OwnLent, LendsOwn
<1>9. OwnOperation'
  <2>1. ASSUME NEW r \in Slot, outstanding'[r] # Null
        PROVE  /\ \E a \in Api : a.slot = r
               /\ r \notin EventSlot => Awaits(outstanding[r], r)'
    <3>1. outstanding'[r] = outstanding[r]
      BY <1>7, <2>1
    <3>2. /\ \E a \in Api : a.slot = r
          /\ r \notin EventSlot => Awaits(outstanding[r], r)
      BY <1>0, <2>1, <3>1 DEF OwnOperation
    <3> QED BY <1>1, <3>1, <3>2 DEF Awaits, Mine, Stage
  <2> QED BY <2>1 DEF OwnOperation
<1>10. OwnQueue'
  <2>1. ASSUME NEW e \in Waiting', e.slot \notin EventSlot
        PROVE  e.op = e.target /\ outstanding'[e.slot] = Null /\ Awaits(e.op, e.slot)
    <3>1. CASE e \in Waiting
      BY <1>0, <1>3, <1>7, <2>1, <3>1, WaitingLive DEF OwnQueue
    <3>2. CASE e = [slot |-> s, target |-> upcall[s], op |-> op]
      BY <1>3, <1>7, <2>1, <3>2
    <3> QED BY <1>4, <2>1, <3>1, <3>2
  <2> QED BY <1>6, <2>1 DEF OwnQueue
<1>11. OwnBytes'
  <2>1. ASSUME NEW d \in 1..depth, ~frame[d].api.listener, HasOwn(d), Answered(d)'
        PROVE  bytes'[d] = d
    <3>0. d \in Target /\ frame[d].api \in Api /\ Mine(d) \notin EventSlot
      BY <2>1, FramesInUse DEF Disciplined, Mine
    <3>1. CASE Mine(d) = s
      <4>1. d = op /\ Stage(d) \in {"wait", "woken"}
        BY <1>0, <1>3, <3>0, <3>1 DEF Alone, Awaits
      <4>2. LendsOwn(d)
        BY <2>1, <4>1 DEF LendsOwn, HasOwn
      <4>3. allowed[s] = d
        BY <1>0, <3>1, <4>1, <4>2 DEF OwnLent
      <4> QED BY <1>1, <1>p, <1>t, <3>0, <4>1, <4>3
    <3>2. CASE Mine(d) # s
      <4>1. Answered(d)
        BY <1>1, <1>4, <1>5, <2>1, <3>2 DEF Answered
      <4>2. bytes[d] = d
        BY <1>0, <2>1, <4>1 DEF OwnBytes
      <4>3. ASSUME allowed[s] = d PROVE FALSE
        <5>1. LentBy(s, d)
          BY <3>0, <4>3 DEF Inv, NoDanglingBuffer
        <5>2. PICK i \in 1..Len(frame[d].api.lends) : frame[d].api.lends[i] = s
          BY <5>1 DEF LentBy
        <5> QED BY <1>2, <3>0, <3>2, <5>2 DEF Disciplined, Mine
      <4> QED BY <1>1, <1>t, <3>0, <4>2, <4>3
    <3> QED BY <3>1, <3>2
  <2> QED BY <1>1, <1>5, <2>1 DEF OwnBytes, HasOwn
<1> QED BY <1>4, <1>8, <1>9, <1>10, <1>11 DEF Own

(* Every step keeps each slot its caller's.                                *)
LEMMA NextOwn ==
  ASSUME Disciplined(Api, EventSlot), ~Reentrant
  PROVE  IInv /\ [Next]_vars => IInv'
<1> SUFFICES ASSUME IInv, [Next]_vars PROVE Own'
  BY NextInv DEF IInv
<1>0. Inv /\ Own
  BY DEF IInv
<1>1. CASE Step
  <2>1. depth > 0
    BY <1>1 DEF Step
  <2> QED BY <1>0, <1>1, <2>1, LendOwn, SubscribeOwn, CommandOwn, RefuseOwn,
             WokenOwn, UnlendOwn, UnsubscribeOwn, YieldOwn DEF Step
<1>2. CASE App
  BY <1>0, <1>2, CallOwn, ControlOwn, YieldOwn DEF App
<1>3. CASE \E s \in Slot : Driver(s)
  BY <1>0, <1>3, DriverOwn
<1>4. CASE UNCHANGED vars
  <2>1. UNCHANGED <<upcall, queue, allowed, outstanding, bytes, depth, frame>>
    BY <1>4 DEF vars, kernelVars, syncVars
  <2>2. Waiting' = Waiting /\ OneAnswer'
    BY <1>0, <2>1 DEF Waiting, OneAnswer, Own
  <2>3. \A d \in 1..depth : Resumes(frame[d], frame'[d])
    BY <2>1 DEF Resumes
  <2> QED BY <1>0, <2>1, <2>2, <2>3, ResumeOwn
<1> QED BY <1>1, <1>2, <1>3, <1>4 DEF Next

(* The invariant holds of every behaviour in which no two calls in         *)
(* progress share a slot.                                                  *)
THEOREM OwnInvariance ==
  ASSUME Disciplined(Api, EventSlot), ~Reentrant
  PROVE  Spec => []IInv
<1>1. Init => IInv
  BY InitInv, InitOwn DEF IInv
<1>2. IInv /\ [Next]_vars => IInv'
  BY NextOwn
<1> QED BY <1>1, <1>2, PTL DEF Spec

(* A call whose command was accepted returns with the answer to its own    *)
(* command and with what its driver wrote for it, whatever listeners run   *)
(* while it waits, whatever calls those make, and whichever system call is *)
(* refused: the loop looks at the call's own cell, and no other call's     *)
(* driver may write to its buffer.                                         *)
THEOREM AnswersAreOwn ==
  ASSUME Disciplined(Api, EventSlot), ~Reentrant
  PROVE  Spec => []OwnAnswer
<1>1. IInv => OwnAnswer
  <2> SUFFICES ASSUME IInv, NEW d \in 1..depth,
                      Stage(d) \in {"unlend", "unsubscribe"}, frame[d].accepted
               PROVE  /\ frame[d].got = d
                      /\ \A i \in 1..Len(frame[d].api.lends) :
                            frame[d].api.lends[i] = frame[d].api.slot
                                => bytes[d] = d
    BY DEF OwnAnswer
  <2>1. frame[d].got = d /\ ~frame[d].api.listener
    BY DEF IInv, Own, OwnFrames, InOrder
  <2>2. d # Null
    BY KernelAssumption, FramesInUse DEF IInv
  <2>3. HasOwn(d) => bytes[d] = d
    BY <2>1, <2>2 DEF IInv, Own, OwnBytes, Answered
  <2> QED BY <2>1, <2>3 DEF HasOwn, Mine
<1> QED BY <1>1, OwnInvariance, PTL

(* A call that has returned leaves no operation running and no upcall      *)
(* queued: a call that was refused never started one, and one that was     *)
(* answered had no other.                                                  *)
THEOREM NothingIsLeft ==
  ASSUME Disciplined(Api, EventSlot), ~Reentrant
  PROVE  Spec => []NothingLeft
<1>1. IInv => NothingLeft
  <2> SUFFICES ASSUME IInv PROVE NothingLeft
    OBVIOUS
  <2>1. ASSUME NEW i \in 1..Len(queue) PROVE queue[i] \in Waiting
    BY DEF Waiting
  <2> QED BY <2>1 DEF NothingLeft, IInv, Own, OwnOperation, OwnQueue, Awaits
<1> QED BY <1>1, OwnInvariance, PTL

-----------------------------------------------------------------------------
(***************************************************************************)
(* Calls that share a slot.  What their registrations were is the history  *)
(* of the stack: a call above that has subscribed took the registration    *)
(* of one below that still waits, or found it taken.  An upcall that is    *)
(* replaced is reported; a share that is dropped without having subscribed *)
(* takes a registration away and is not.  So nothing is said when both a   *)
(* slot is shared and a system call may be refused.                        *)
(***************************************************************************)
Unanswered(d) == Stage(d) \in {"command", "wait", "woken"} /\ frame[d].got = Null

Reported ==
    \A d \in 1..depth : Unanswered(d) /\ upcall[Mine(d)] # d => Mine(d) \in reported

Overtaken ==
    \A c, d \in 1..depth :
        /\ c < d /\ Mine(c) = Mine(d)
        /\ Unanswered(c)
        /\ Stage(d) \notin {"lend", "subscribe"}
        => Mine(c) \in reported

Stuck == Reported /\ Overtaken /\ (~Reentrant => Alone)

(* What a step does to a frame when it neither subscribes nor is refused.  *)
Proceeds(f, g) ==
    /\ g.api = f.api
    /\ g.at \in {"command", "wait", "woken"} /\ g.got = Null =>
          f.at \in {"command", "wait", "woken"} /\ f.got = Null
    /\ g.at \notin {"lend", "subscribe"} => f.at \notin {"lend", "subscribe"}

(* Frames that only go on overtake nobody.                                 *)
LEMMA ProceedStuck ==
  ASSUME Stuck, UNCHANGED <<upcall, depth, reported>>,
         \A d \in 1..depth : Proceeds(frame[d], frame'[d])
  PROVE  Stuck'
<1>1. \A d \in 1..depth : /\ Mine(d)' = Mine(d)
                          /\ Unanswered(d)' => Unanswered(d)
                          /\ Stage(d)' \notin {"lend", "subscribe"}
                                => Stage(d) \notin {"lend", "subscribe"}
  BY DEF Proceeds, Mine, Unanswered, Stage
<1>2. Reported'
  BY <1>1 DEF Stuck, Reported
<1>3. Overtaken'
  BY <1>1 DEF Stuck, Overtaken
<1>4. (~Reentrant => Alone)'
  BY <1>1 DEF Stuck, Alone
<1> QED BY <1>2, <1>3, <1>4 DEF Stuck

(* The same for a step of the top frame alone.                             *)
LEMMA MovesStuck ==
  ASSUME Inv, Stuck, depth > 0, UNCHANGED <<upcall, reported>>,
         NEW stage, MovesTo(stage),
         stage \in {"command", "wait", "woken"} =>
            top.at \in {"command", "wait", "woken"},
         stage \notin {"lend", "subscribe"} => top.at \notin {"lend", "subscribe"}
  PROVE  Stuck'
<1>1. UNCHANGED depth
  BY DEF MovesTo
<1>2. ASSUME NEW d \in 1..depth PROVE Proceeds(frame[d], frame'[d])
  <2>1. CASE d = depth
    BY <2>1 DEF MovesTo, Proceeds, top
  <2>2. CASE d # depth
    BY <2>2 DEF MovesTo, Proceeds
  <2> QED BY <2>1, <2>2
<1> QED BY <1>1, <1>2, ProceedStuck

(* A call that has not subscribed yet overtakes nobody either.             *)
LEMMA PushStuck ==
  ASSUME Inv, Stuck, NEW f \in [Target -> Frames \cup {NoFrame}], NEW a \in Api,
         Push(f, a), UNCHANGED <<upcall, reported>>,
         \A d \in 1..depth : Resumes(frame[d], f[d])
  PROVE  Stuck'
<1> USE SyncAssumption
<1> DEFINE g == [api |-> a,
                 at |-> IF a.lends = << >> THEN "subscribe" ELSE "lend",
                 next |-> 1, got |-> Null, accepted |-> FALSE]
<1>n. PICK n : n = depth + 1
  OBVIOUS
<1>1. /\ depth \in Nat /\ n \in Target /\ depth' = n /\ n \in 1..n
      /\ frame' = [f EXCEPT ![n] = g]
      /\ Reentrant \/ \A d \in 1..depth : frame[d].api.slot # a.slot
      /\ \A d \in 1..depth : d \in 1..n /\ d # n
      /\ \A d \in 1..n : d \in 1..depth \/ d = n
      /\ \A d \in 1..n : ~(n < d)
  BY <1>n, FramesInUse DEF Push
<1>2. g.api = a /\ g.at \in {"subscribe", "lend"}
  OBVIOUS
<1> HIDE DEF g
<1>3. /\ frame'[n] = g
      /\ \A d \in 1..depth : Resumes(frame[d], frame'[d])
  BY <1>1, FramesInUse
<1>4. /\ Stage(n)' \in {"lend", "subscribe"} /\ ~Unanswered(n)'
      /\ Mine(n)' = a.slot
      /\ \A d \in 1..depth : /\ Mine(d)' = Mine(d)
                             /\ Unanswered(d)' => Unanswered(d)
                             /\ Stage(d)' \notin {"lend", "subscribe"}
                                   => Stage(d) \notin {"lend", "subscribe"}
  BY <1>2, <1>3 DEF Resumes, Mine, Unanswered, Stage
<1>5. Reported'
  BY <1>1, <1>4 DEF Stuck, Reported
<1>6. Overtaken'
  BY <1>1, <1>4 DEF Stuck, Overtaken
<1>7. (~Reentrant => Alone)'
  BY <1>1, <1>4 DEF Stuck, Alone, Mine
<1> QED BY <1>5, <1>6, <1>7 DEF Stuck

(* An upcall sets a cell, or a listener makes a call.                      *)
LEMMA YieldStuck ==
  ASSUME Inv, Stuck, depth > 0, Yield
  PROVE  Stuck'
<1> USE SyncAssumption, KernelAssumption
<1>f. PICK f : f = IF top.at = "open" THEN frame
                   ELSE [frame EXCEPT ![depth].at = "woken"]
  OBVIOUS
<1>e. PICK e : e = Head(queue)
  OBVIOUS
<1>1. /\ KernelTypeOK /\ queue # << >> /\ queue' = Tail(queue)
      /\ UNCHANGED <<upcall, reported>>
      /\ top.at \in {"wait", "open"}
      /\ Deliver(e, f)
  BY <1>e, <1>f, FramesInUse DEF Yield
<1>2. e \in Waiting
  BY <1>1, <1>e, TailWaiting
<1>3. /\ f \in [Target -> Frames \cup {NoFrame}]
      /\ \A d \in 1..depth : Resumes(frame[d], f[d]) /\ f[d] \in Frames
  <2>1. /\ frame \in [Target -> Frames \cup {NoFrame}]
        /\ depth \in Target /\ frame[depth] \in Frames /\ frame[depth] = top
        /\ \A d \in 1..depth : d \in Target /\ frame[d] \in Frames
    BY FramesInUse DEF Inv, SyncTypeOK, top
  <2> DEFINE g == [top EXCEPT !.at = "woken"]
  <2>2. g \in Frames /\ (top.at = "wait" => Resumes(top, g))
    BY <2>1 DEF Frames, Stages, Resumes
  <2>3. f = IF top.at = "open" THEN frame ELSE [frame EXCEPT ![depth] = g]
    BY <1>f, <2>1
  <2> HIDE DEF g
  <2>4. \A d \in 1..depth : Resumes(frame[d], frame[d])
    BY DEF Resumes
  <2> QED BY <1>1, <2>1, <2>2, <2>3, <2>4
<1>4. e.target \in 1..depth /\ e.target \in Target
  BY <1>2, WaitingLive DEF UpcallLive
<1>5. e.op \in Target /\ e.op # Null
  BY <1>2, WaitingLive DEF Entry
<1>6. CASE frame' = f /\ UNCHANGED <<depth, bytes>>
  <2>1. \A d \in 1..depth : Proceeds(frame[d], frame'[d])
    BY <1>3, <1>6 DEF Proceeds, Resumes
  <2> QED BY <1>1, <1>6, <2>1, ProceedStuck
<1>7. CASE \E a \in Api : Push(f, a)
  BY <1>1, <1>3, <1>7, PushStuck
<1>8. CASE /\ frame' = [f EXCEPT ![e.target].got = e.op]
           /\ UNCHANGED <<depth, bytes>>
  <2>1. ASSUME NEW d \in 1..depth PROVE Proceeds(frame[d], frame'[d])
    <3>0. d \in Target
      BY FramesInUse
    <3>1. CASE d = e.target
      <4>1. /\ frame'[d].got = e.op /\ frame'[d].at = f[d].at
            /\ frame'[d].api = f[d].api
        BY <1>3, <1>4, <1>8, <3>1 DEF Frames
      <4> QED BY <1>3, <1>5, <4>1 DEF Proceeds, Resumes
    <3>2. CASE d # e.target
      <4>1. frame'[d] = f[d]
        BY <1>3, <1>4, <1>8, <3>0, <3>2
      <4> QED BY <1>3, <4>1 DEF Proceeds, Resumes
    <3> QED BY <3>1, <3>2
  <2> QED BY <1>1, <1>8, <2>1, ProceedStuck
<1> QED BY <1>1, <1>6, <1>7, <1>8 DEF Deliver

(* Subscribe: a registration that it replaces is reported, and one that a  *)
(* waiting call has already lost was.                                      *)
LEMMA SubscribeStuck ==
  ASSUME Inv, Stuck, depth > 0, Subscribe
  PROVE  Stuck'
<1> USE SyncAssumption, KernelAssumption
<1>2. PICK top0 \in 1..depth : top0 = depth
  BY FramesInUse
<1>3. /\ \A d \in 1..depth : d # top0 => frame'[d] = frame[d]
      /\ frame'[top0].api = frame[top0].api
      /\ depth' = depth /\ depth \in Nat
  BY <1>2, GotoMoves, FramesInUse DEF Subscribe, MovesTo, top, api
<1>4. /\ upcall' = [upcall EXCEPT ![Mine(top0)] = top0]
      /\ upcall \in [Slot -> Target \cup {Null}]
      /\ reported' = IF upcall[Mine(top0)] = Null THEN reported
                     ELSE reported \cup {Mine(top0)}
  BY <1>2, FramesInUse DEF Subscribe, SetUpcall, Mine, top, api, KernelTypeOK
<1>5. \A d \in 1..depth : Mine(d)' = Mine(d) /\ Mine(d) \in Slot /\ d \in Target
  BY <1>2, <1>3, FramesInUse DEF Mine
<1>6. \A d \in 1..depth : d # top0 => /\ Unanswered(d)' <=> Unanswered(d)
                                      /\ Stage(d)' = Stage(d)
  BY <1>3 DEF Unanswered, Stage
<1>7. ASSUME NEW d \in 1..depth, d # top0, Unanswered(d), Mine(d) = Mine(top0)
      PROVE  Mine(d) \in reported'
  <2>1. CASE upcall[Mine(top0)] = Null
    BY <1>4, <1>5, <1>7, <2>1 DEF Stuck, Reported
  <2>2. CASE upcall[Mine(top0)] # Null
    BY <1>4, <1>7, <2>2
  <2> QED BY <2>1, <2>2
<1>8. Reported'
  <2>1. ASSUME NEW d \in 1..depth, Unanswered(d)', upcall'[Mine(d)] # d
        PROVE  Mine(d) \in reported'
    <3>1. d # top0
      BY <1>4, <1>5, <2>1
    <3>2. CASE Mine(d) = Mine(top0)
      BY <1>6, <1>7, <2>1, <3>1, <3>2
    <3>3. CASE Mine(d) # Mine(top0)
      <4>1. upcall[Mine(d)] # d /\ Unanswered(d)
        BY <1>4, <1>5, <1>6, <2>1, <3>1, <3>3
      <4>2. Mine(d) \in reported
        BY <4>1 DEF Stuck, Reported
      <4> QED BY <1>4, <4>2
    <3> QED BY <3>2, <3>3
  <2> QED BY <1>3, <1>5, <2>1 DEF Reported
<1>9. Overtaken'
  <2>1. ASSUME NEW c \in 1..depth, NEW d \in 1..depth, c < d, Mine(c) = Mine(d),
               Unanswered(c)', Stage(d)' \notin {"lend", "subscribe"}
        PROVE  Mine(c) \in reported'
    <3>1. c # top0
      BY <1>2, <1>3, <2>1
    <3>2. CASE d = top0
      BY <1>6, <1>7, <2>1, <3>1, <3>2
    <3>3. CASE d # top0
      <4>1. Mine(c) \in reported
        BY <1>6, <2>1, <3>1, <3>3 DEF Stuck, Overtaken
      <4> QED BY <1>4, <4>1
    <3> QED BY <3>2, <3>3
  <2> QED BY <1>3, <1>5, <2>1 DEF Overtaken
<1>10. (~Reentrant => Alone)'
  BY <1>3, <1>5 DEF Stuck, Alone
<1> QED BY <1>8, <1>9, <1>10 DEF Stuck

(* Unsubscribe: the call that returns had subscribed, or shares no slot.   *)
LEMMA UnsubscribeStuck ==
  ASSUME Inv, Stuck, depth > 0, Unsubscribe
  PROVE  Stuck'
<1> USE SyncAssumption, KernelAssumption
<1>2. PICK top0 \in 1..depth : top0 = depth
  BY FramesInUse
<1>3. /\ depth' = depth - 1 /\ UNCHANGED reported
      /\ \A d \in 1..depth' : d \in 1..depth /\ d < top0 /\ frame'[d] = frame[d]
      /\ Stage(top0) = "unsubscribe"
  BY <1>2, FramesInUse DEF Unsubscribe, Stage, top
<1>4. /\ upcall' = [upcall EXCEPT ![Mine(top0)] = Null]
      /\ upcall \in [Slot -> Target \cup {Null}]
  BY <1>2, FramesInUse DEF Unsubscribe, SetUpcall, Mine, top, api, KernelTypeOK
<1>5. \A d \in 1..depth' : Mine(d)' = Mine(d) /\ Mine(d) \in Slot /\ Stage(d)' = Stage(d)
                           /\ (Unanswered(d)' <=> Unanswered(d))
  BY <1>3, FramesInUse DEF Mine, Stage, Unanswered
<1>6. Reported'
  <2>1. ASSUME NEW d \in 1..depth', Unanswered(d), upcall'[Mine(d)] # d
        PROVE  Mine(d) \in reported
    <3>1. CASE Mine(d) = Mine(top0)
      BY <1>3, <2>1, <3>1 DEF Stuck, Overtaken
    <3>2. CASE Mine(d) # Mine(top0)
      BY <1>3, <1>4, <1>5, <2>1, <3>2 DEF Stuck, Reported
    <3> QED BY <3>1, <3>2
  <2> QED BY <1>3, <1>5, <2>1 DEF Reported
<1>7. Overtaken'
  BY <1>3, <1>5 DEF Stuck, Overtaken
<1>8. (~Reentrant => Alone)'
  BY <1>3, <1>5 DEF Stuck, Alone
<1> QED BY <1>6, <1>7, <1>8 DEF Stuck

(* Leave: on a refusal, no other call is of the slot.                      *)
LEMMA LeaveStuck ==
  ASSUME Inv, Stuck, depth > 0, Leave, UNCHANGED <<upcall, depth, reported>>,
         top.at \in {"lend", "subscribe"} => ~Reentrant
  PROVE  Stuck'
<1>1. \E stage \in {"unlend", "unsubscribe"} : MovesTo(stage)
  BY NextMoves DEF Leave
<1>2. CASE top.at \notin {"lend", "subscribe"}
  BY <1>1, <1>2, MovesStuck
<1>3. CASE top.at \in {"lend", "subscribe"}
  <2>1. Alone
    BY <1>3 DEF Stuck
  <2>2. PICK top0 \in 1..depth : top0 = depth
    BY FramesInUse
  <2>3. /\ \A d \in 1..depth : d # top0 => frame'[d] = frame[d]
        /\ frame'[top0].api = frame[top0].api
        /\ frame'[top0].at \in {"unlend", "unsubscribe"}
    BY <1>1, <2>2 DEF MovesTo
  <2>4. \A d \in 1..depth : /\ Mine(d)' = Mine(d) /\ d \in Nat
                            /\ Unanswered(d)' => Unanswered(d)
    BY <2>3, FramesInUse DEF Mine, Unanswered, Stage
  <2>5. Alone'
    BY <2>1, <2>4 DEF Alone
  <2>6. Reported'
    BY <2>4 DEF Stuck, Reported
  <2>7. Overtaken'
    BY <2>4, <2>5 DEF Overtaken, Alone
  <2> QED BY <2>5, <2>6, <2>7 DEF Stuck
<1> QED BY <1>2, <1>3

(* Every step keeps what the overtaken calls were told.                    *)
LEMMA NextStuck ==
  ASSUME ~Refusals \/ ~Reentrant
  PROVE  Inv /\ Stuck /\ [Next]_vars => Stuck'
<1> SUFFICES ASSUME Inv, Stuck, [Next]_vars PROVE Stuck'
  OBVIOUS
<1>s. ASSUME depth > 0, UNCHANGED <<upcall, depth, reported, frame>> PROVE Stuck'
  BY <1>s, ProceedStuck DEF Proceeds
<1>1. ASSUME depth > 0, Lend PROVE Stuck'
  BY <1>1, NextMoves, MovesStuck DEF Lend
<1>2. ASSUME depth > 0, Command PROVE Stuck'
  <2>1. /\ top.at = "command" /\ UNCHANGED <<upcall, depth, reported>>
        /\ frame' = [frame EXCEPT ![depth].at = "wait", ![depth].accepted = TRUE]
    BY <1>2 DEF Command
  <2>2. frame \in [Target -> Frames \cup {NoFrame}] /\ depth \in Target
        /\ frame[depth] = top /\ top \in Frames /\ \A d \in 1..depth : d \in Target
    BY <1>2, FramesInUse, TopFrame DEF Inv, SyncTypeOK, top
  <2> DEFINE g == [top EXCEPT !.at = "wait", !.accepted = TRUE]
  <2>3. Proceeds(top, g)
    BY <2>1, <2>2 DEF Frames, Proceeds
  <2>4. frame' = [frame EXCEPT ![depth] = g]
    BY <2>1, <2>2
  <2> HIDE DEF g
  <2>5. \A d \in 1..depth : Proceeds(frame[d], frame'[d])
    BY <2>2, <2>3, <2>4 DEF Proceeds
  <2> QED BY <2>1, <2>5, ProceedStuck
<1>3. ASSUME depth > 0, Refuse PROVE Stuck'
  BY <1>3, LeaveStuck DEF Refuse, kernelVars
<1>4. ASSUME depth > 0, Woken PROVE Stuck'
  <2>1. CASE Leave
    BY <1>4, <2>1, LeaveStuck DEF Woken, kernelVars
  <2>2. CASE Goto("wait")
    BY <1>4, <2>2, GotoMoves, MovesStuck DEF Woken, kernelVars
  <2> QED BY <1>4, <2>1, <2>2 DEF Woken
<1>5. ASSUME depth > 0, Unlend PROVE Stuck'
  BY <1>5, NextMoves, MovesStuck DEF Unlend
<1>6. ASSUME depth > 0, Control PROVE Stuck'
  BY <1>6, <1>s, LeaveStuck DEF Control
<1>7. ASSUME NEW a \in Api, Call(a) PROVE Stuck'
  BY <1>7, PushStuck DEF Call, Resumes, Inv, SyncTypeOK
<1>8. CASE UNCHANGED <<upcall, depth, reported, frame>>
  BY <1>8, ProceedStuck DEF Proceeds
<1>9. CASE Step
  <2>1. depth > 0
    BY <1>9 DEF Step
  <2> QED BY <1>1, <1>2, <1>3, <1>4, <1>5, <1>9, <2>1, SubscribeStuck,
             UnsubscribeStuck, YieldStuck DEF Step
<1>10. CASE App
  BY <1>6, <1>7, <1>10, YieldStuck DEF App
<1>11. CASE \E s \in Slot : Driver(s)
  BY <1>8, <1>11 DEF Driver, DriverAnswer, syncVars
<1> QED BY <1>8, <1>9, <1>10, <1>11 DEF Next, vars, kernelVars, syncVars

(* A call that can never be answered, because a call above it took its     *)
(* registration or dropped it, was reported, however deep the nesting: by  *)
(* the time the upper call drops the registration it has replaced the      *)
(* lower one's.                                                            *)
THEOREM StuckIsReported ==
  ASSUME ~Refusals \/ ~Reentrant
  PROVE  Spec => []StuckWasReported
<1>1. Init => Stuck
  BY DEF Init, Stuck, Reported, Overtaken, Alone
<1>2. Inv /\ Stuck /\ [Next]_vars => Stuck'
  BY NextStuck
<1>3. Inv /\ Stuck => StuckWasReported
  BY DEF Stuck, Reported, Unanswered, StuckWasReported, Mine
<1> QED BY <1>1, <1>2, <1>3, Invariance, PTL DEF Spec
=============================================================================
