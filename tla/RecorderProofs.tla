--------------------------- MODULE RecorderProofs ----------------------------
(***************************************************************************)
(* Theorems about Recorder: the type of its state, that no container is    *)
(* left behind, that a stop() that resolved has saved what it owed, and    *)
(* that saves do not undo each other.                                      *)
(***************************************************************************)
EXTENDS Recorder, SequenceTheorems, TLAPS

-----------------------------------------------------------------------------
(* Sequences                                                               *)

\* The part of a sequence from m on up to n has the elements of the sequence, moved by m - 1.
LEMMA PartOfSequence ==
  ASSUME NEW S, NEW q \in Seq(S), NEW m \in Nat, NEW n \in Nat, 1 <= m, n <= Len(q), m <= n + 1
  PROVE  /\ SubSeq(q, m, n) \in Seq(S)
         /\ Len(SubSeq(q, m, n)) = n + 1 - m
         /\ \A j \in 1..(n + 1 - m) : SubSeq(q, m, n)[j] = q[m + j - 1]
<1>1. Len(q) \in Nat /\ q \in [1..Len(q) -> S]
  BY LenProperties
<1>2. \A i \in m..n : q[i] \in S
  BY <1>1, ElementOfSeq
<1>3. m \in Int /\ n \in Int
  OBVIOUS
<1>4. SubSeq(q, m, n) \in Seq(S)
  BY <1>2, <1>3, SubSeqProperties
<1>5. Len(SubSeq(q, m, n)) = IF m <= n THEN n - m + 1 ELSE 0
  BY <1>2, <1>3, SubSeqProperties
<1>6. \A j \in 1..Len(SubSeq(q, m, n)) : SubSeq(q, m, n)[j] = q[m + j - 1]
  BY <1>2, <1>3, SubSeqProperties
<1> QED
  BY <1>4, <1>5, <1>6

\* A sequence without its i-th element: those before it stay, those after it move up.
LEMMA RemoveAtProperties ==
  ASSUME NEW S, NEW q \in Seq(S), NEW i \in 1..Len(q)
  PROVE  /\ RemoveAt(q, i) \in Seq(S)
         /\ Len(RemoveAt(q, i)) = Len(q) - 1
         /\ \A j \in 1..(Len(q) - 1) : RemoveAt(q, i)[j] = IF j < i THEN q[j] ELSE q[j + 1]
<1> DEFINE a == SubSeq(q, 1, i - 1)
           b == SubSeq(q, i + 1, Len(q))
<1>1. Len(q) \in Nat /\ i \in Nat /\ 1 <= i /\ i <= Len(q)
  BY LenProperties
<1>2. /\ a \in Seq(S) /\ Len(a) = i - 1
      /\ \A j \in 1..(i - 1) : a[j] = q[j]
  <2>1. i - 1 \in Nat /\ 1 \in Nat /\ 1 <= (i - 1) + 1 /\ i - 1 <= Len(q)
    BY <1>1
  <2>2. a \in Seq(S) /\ Len(a) = (i - 1) + 1 - 1
    BY <2>1, PartOfSequence
  <2>3. \A j \in 1..((i - 1) + 1 - 1) : a[j] = q[1 + j - 1]
    BY <2>1, PartOfSequence
  <2> QED BY <1>1, <2>2, <2>3
<1>3. /\ b \in Seq(S) /\ Len(b) = Len(q) - i
      /\ \A j \in 1..(Len(q) - i) : b[j] = q[i + j]
  <2>1. i + 1 \in Nat /\ 1 <= i + 1 /\ i + 1 <= Len(q) + 1 /\ Len(q) <= Len(q)
    BY <1>1
  <2>2. b \in Seq(S) /\ Len(b) = Len(q) + 1 - (i + 1)
    BY <1>1, <2>1, PartOfSequence
  <2>3. \A j \in 1..(Len(q) + 1 - (i + 1)) : b[j] = q[(i + 1) + j - 1]
    BY <1>1, <2>1, PartOfSequence
  <2> QED BY <1>1, <2>2, <2>3
<1>4. RemoveAt(q, i) = a \o b
  BY DEF RemoveAt
<1> HIDE DEF a, b
<1>5. /\ a \o b \in Seq(S) /\ Len(a \o b) = Len(a) + Len(b)
      /\ \A j \in 1..(Len(a) + Len(b)) :
           (a \o b)[j] = IF j <= Len(a) THEN a[j] ELSE b[j - Len(a)]
  BY <1>2, <1>3, ConcatProperties
<1>6. Len(a) + Len(b) = Len(q) - 1
  BY <1>1, <1>2, <1>3
<1>7. ASSUME NEW j \in 1..(Len(q) - 1)
      PROVE  (a \o b)[j] = IF j < i THEN q[j] ELSE q[j + 1]
  <2>1. CASE j < i
    <3>1. (a \o b)[j] = a[j]
      BY <1>1, <1>2, <1>5, <1>6, <2>1
    <3>2. a[j] = q[j]
      BY <1>1, <1>2, <2>1
    <3> QED BY <2>1, <3>1, <3>2
  <2>2. CASE j >= i
    <3>1. (a \o b)[j] = b[j - (i - 1)]
      BY <1>1, <1>2, <1>5, <1>6, <2>2
    <3>2. j - (i - 1) \in 1..(Len(q) - i) /\ i + (j - (i - 1)) = j + 1
      BY <1>1, <2>2
    <3>3. b[j - (i - 1)] = q[i + (j - (i - 1))]
      BY <1>3, <3>2
    <3> QED BY <1>1, <2>2, <3>1, <3>2, <3>3
  <2>3. j < i \/ j >= i
    BY <1>1
  <2> QED BY <2>1, <2>2, <2>3
<1> QED
  BY <1>4, <1>5, <1>6, <1>7

\* Front drops the last element.
LEMMA FrontDropsLast ==
  ASSUME NEW S, NEW q \in Seq(S), q # <<>>
  PROVE  /\ Front(q) \in Seq(S) /\ Len(Front(q)) = Len(q) - 1
         /\ \A j \in 1..(Len(q) - 1) : Front(q)[j] = q[j]
<1>1. Len(q) \in Nat /\ Len(q) # 0
  BY LenProperties, EmptySeq
<1>2. PICK n \in Nat : n = Len(q) - 1
  BY <1>1
<1>3. 1 <= 1 /\ n <= Len(q) /\ 1 <= n + 1
  BY <1>1, <1>2
<1>4. SubSeq(q, 1, n) \in Seq(S) /\ Len(SubSeq(q, 1, n)) = n + 1 - 1
  BY <1>3, PartOfSequence
<1>5. \A j \in 1..(n + 1 - 1) : SubSeq(q, 1, n)[j] = q[1 + j - 1]
  BY <1>3, PartOfSequence
<1>6. \A j \in 1..n : SubSeq(q, 1, n)[j] = q[j]
  BY <1>5
<1> QED
  BY <1>1, <1>2, <1>4, <1>6 DEF Front

-----------------------------------------------------------------------------
(* What the parts of an action do to the state                             *)

\* A save adds all the steps of the session to the end of what is on its way.
LEMMA PersistAppends ==
  ASSUME TypeOK, NEW s \in Sessions, NEW by \in Enders \cup {"flush"}, Persist(s, by)
  PROVE  /\ pending' \in [Sessions -> Seq(Upsert)]
         /\ \A t \in Sessions \ {s} : pending'[t] = pending[t]
         /\ Len(pending'[s]) = Len(pending[s]) + 1
         /\ \A j \in 1..Len(pending[s]) : pending'[s][j] = pending[s][j]
         /\ pending'[s][Len(pending[s]) + 1].saved = steps[s]
         /\ pending'[s][Len(pending[s]) + 1].by = by
<1> DEFINE u == [saved |-> steps[s], by |-> by]
<1>1. pending[s] \in Seq(Upsert) /\ pending \in [Sessions -> Seq(Upsert)]
  BY DEF TypeOK
<1>2. u \in Upsert /\ u.saved = steps[s] /\ u.by = by
  <2>1. steps[s] \in Nat
    BY BoundsAssumption DEF TypeOK
  <2> QED BY <2>1 DEF Upsert
<1>3. pending' = [pending EXCEPT ![s] = Append(pending[s], u)]
  BY DEF Persist
<1> HIDE DEF u
<1>4. /\ Append(pending[s], u) \in Seq(Upsert)
      /\ Len(Append(pending[s], u)) = Len(pending[s]) + 1
      /\ \A j \in 1..Len(pending[s]) : Append(pending[s], u)[j] = pending[s][j]
      /\ Append(pending[s], u)[Len(pending[s]) + 1] = u
  BY <1>1, <1>2, AppendProperties
<1>5. pending'[s] = Append(pending[s], u)
  BY <1>1, <1>3
<1> QED
  BY <1>1, <1>2, <1>3, <1>4, <1>5

\* An upsert that was served or failed is on its way no more; the others keep their order.
LEMMA RemovalShortens ==
  ASSUME TypeOK, NEW s \in Sessions, NEW i \in 1..Len(pending[s]),
         pending' = [pending EXCEPT ![s] = RemoveAt(@, i)]
  PROVE  /\ pending' \in [Sessions -> Seq(Upsert)]
         /\ \A t \in Sessions \ {s} : pending'[t] = pending[t]
         /\ \A j \in 1..Len(pending'[s]) :
              \E n \in 1..Len(pending[s]) : pending'[s][j] = pending[s][n]
         /\ \A j, k \in 1..Len(pending'[s]) : j <= k =>
              \E m, n \in 1..Len(pending[s]) :
                m <= n /\ pending'[s][j] = pending[s][m] /\ pending'[s][k] = pending[s][n]
<1>1. pending[s] \in Seq(Upsert) /\ pending \in [Sessions -> Seq(Upsert)]
  BY DEF TypeOK
<1>2. pending'[s] = RemoveAt(pending[s], i)
  BY <1>1
<1>3. PICK r, q : r = pending'[s] /\ q = pending[s]
  OBVIOUS
<1>4. q \in Seq(Upsert) /\ i \in 1..Len(q) /\ r = RemoveAt(q, i)
  BY <1>1, <1>2, <1>3
<1>5. Len(q) \in Nat /\ i \in Nat /\ 1 <= i /\ i <= Len(q)
  BY <1>4, LenProperties
<1>6. r \in Seq(Upsert) /\ Len(r) = Len(q) - 1
  BY <1>4, RemoveAtProperties
<1>7. \A j \in 1..(Len(q) - 1) : r[j] = IF j < i THEN q[j] ELSE q[j + 1]
  BY <1>4, RemoveAtProperties
<1> DEFINE From(j) == IF j < i THEN j ELSE j + 1
<1>8. \A j \in 1..Len(r) : From(j) \in 1..Len(q) /\ r[j] = q[From(j)]
  BY <1>5, <1>6, <1>7
<1>9. \A j, k \in 1..Len(r) : j <= k => From(j) <= From(k)
  BY <1>5, <1>6
<1> HIDE DEF From
<1>10. \A j \in 1..Len(r) : \E n \in 1..Len(q) : r[j] = q[n]
  BY <1>8
<1>11. \A j, k \in 1..Len(r) : j <= k =>
         \E m, n \in 1..Len(q) : m <= n /\ r[j] = q[m] /\ r[k] = q[n]
  BY <1>8, <1>9
<1>12. pending' = [pending EXCEPT ![s] = r]
  BY <1>1, <1>2, <1>3
<1>13. pending' \in [Sessions -> Seq(Upsert)] /\ \A t \in Sessions \ {s} : pending'[t] = pending[t]
  BY <1>1, <1>6, <1>12
<1> QED
  BY <1>3, <1>10, <1>11, <1>13

\* The answer to an upsert moves the ender that awaited it, and no other.
LEMMA AnswerMovesOne ==
  ASSUME TypeOK, NEW s \in Sessions, NEW i \in 1..Len(pending[s]), NEW failed \in BOOLEAN,
         Answered(s, i, failed)
  PROVE  /\ ender' \in [Sessions -> [Enders -> Ender]]
         /\ \A t \in Sessions \ {s} : ender'[t] = ender[t]
         /\ \A x \in Enders :
              \/ ender'[s][x] = ender[s][x]
              \/ /\ x = pending[s][i].by /\ ender[s][x].pc = "saving"
                 /\ ender'[s][x].pc = "destroying" /\ ender'[s][x].owes = ender[s][x].owes
                 /\ ender'[s][x].failed = failed
<1>1. ender \in [Sessions -> [Enders -> Ender]] /\ ender[s] \in [Enders -> Ender]
  BY DEF TypeOK
<1>2. CASE ender' = ender
  BY <1>1, <1>2
<1>3. ASSUME NEW y \in Enders, y = pending[s][i].by, ender[s][y].pc = "saving",
             ender' = [ender EXCEPT ![s][y].pc = "destroying", ![s][y].failed = failed]
      PROVE  /\ ender' \in [Sessions -> [Enders -> Ender]]
             /\ \A t \in Sessions \ {s} : ender'[t] = ender[t]
             /\ \A x \in Enders \ {y} : ender'[s][x] = ender[s][x]
             /\ ender'[s][y].pc = "destroying" /\ ender'[s][y].owes = ender[s][y].owes
             /\ ender'[s][y].failed = failed
  <2>1. ender[s][y] \in Ender
    BY <1>1
  <2> DEFINE d == [ender[s][y] EXCEPT !.pc = "destroying", !.failed = failed]
  <2>2. /\ d \in Ender /\ d.pc = "destroying" /\ d.owes = ender[s][y].owes
        /\ d.failed = failed
    BY <2>1 DEF Ender
  <2>3. ender' = [ender EXCEPT ![s] = [ender[s] EXCEPT ![y] = d]]
    BY <1>1, <1>3
  <2> HIDE DEF d
  <2>4. [ender[s] EXCEPT ![y] = d] \in [Enders -> Ender]
    BY <1>1, <2>2
  <2>5. ender'[s] = [ender[s] EXCEPT ![y] = d]
    BY <1>1, <2>3
  <2>6. ender'[s][y] = d /\ \A x \in Enders \ {y} : ender'[s][x] = ender[s][x]
    BY <1>1, <2>5
  <2> QED BY <1>1, <2>2, <2>3, <2>4, <2>6
<1>4. \/ pending[s][i].by \in Enders /\ ender[s][pending[s][i].by].pc = "saving"
      \/ ender' = ender
  BY DEF Answered
<1>5. CASE pending[s][i].by \in Enders /\ ender[s][pending[s][i].by].pc = "saving"
  <2>1. PICK y \in Enders : y = pending[s][i].by
    BY <1>5
  <2>2. ender' = [ender EXCEPT ![s][y].pc = "destroying", ![s][y].failed = failed]
    BY <1>5, <2>1 DEF Answered
  <2> QED BY <1>3, <1>5, <2>1, <2>2
<1> QED
  BY <1>2, <1>4, <1>5

\* An ender begins: the record of a call that saves.
LEMMA EnderBegins ==
  ASSUME TypeOK, NEW s \in Sessions, NEW x \in Enders,
         ender' = [ender EXCEPT ![s][x] = [pc |-> "saving", owes |-> steps[s], failed |-> FALSE]]
  PROVE  /\ ender' \in [Sessions -> [Enders -> Ender]]
         /\ \A t \in Sessions \ {s} : ender'[t] = ender[t]
         /\ \A y \in Enders \ {x} : ender'[s][y] = ender[s][y]
         /\ ender'[s][x].pc = "saving" /\ ender'[s][x].owes = steps[s]
<1> DEFINE d == [pc |-> "saving", owes |-> steps[s], failed |-> FALSE]
<1>1. ender \in [Sessions -> [Enders -> Ender]] /\ ender[s] \in [Enders -> Ender]
  BY DEF TypeOK
<1>2. d \in Ender /\ d.pc = "saving" /\ d.owes = steps[s]
  <2>1. steps[s] \in Nat
    BY BoundsAssumption DEF TypeOK
  <2> QED BY <2>1 DEF Ender
<1> HIDE DEF d
<1>3. ender' = [ender EXCEPT ![s] = [ender[s] EXCEPT ![x] = d]]
  BY <1>1 DEF d
<1>4. [ender[s] EXCEPT ![x] = d] \in [Enders -> Ender]
  BY <1>1, <1>2
<1> QED
  BY <1>1, <1>2, <1>3, <1>4

\* An ender is done: its label, and nothing else of it.
LEMMA EnderIsDone ==
  ASSUME TypeOK, NEW s \in Sessions, NEW x \in Enders, ender' = [ender EXCEPT ![s][x].pc = "done"]
  PROVE  /\ ender' \in [Sessions -> [Enders -> Ender]]
         /\ \A t \in Sessions \ {s} : ender'[t] = ender[t]
         /\ \A y \in Enders \ {x} : ender'[s][y] = ender[s][y]
         /\ ender'[s][x].pc = "done"
<1> DEFINE d == [ender[s][x] EXCEPT !.pc = "done"]
<1>1. ender \in [Sessions -> [Enders -> Ender]] /\ ender[s] \in [Enders -> Ender]
  BY DEF TypeOK
<1>2. d \in Ender /\ d.pc = "done"
  BY <1>1 DEF Ender
<1>3. ender' = [ender EXCEPT ![s] = [ender[s] EXCEPT ![x] = d]]
  BY <1>1
<1> HIDE DEF d
<1>4. [ender[s] EXCEPT ![x] = d] \in [Enders -> Ender]
  BY <1>1, <1>2
<1> QED
  BY <1>1, <1>2, <1>3, <1>4

\* The container after an attempt to destroy it; without "remove" it is gone.
LEMMA DestroyTyped ==
  ASSUME TypeOK, NEW s \in Sessions, DestroyBox(s)
  PROVE  /\ box' \in [Sessions -> {"absent", "created", "running", "exited"}]
         /\ \A t \in Sessions \ {s} : box'[t] = box[t]
         /\ "remove" \notin faults => box'[s] = "absent"
  BY DEF TypeOK, DestroyBox

-----------------------------------------------------------------------------
(* The type of the state                                                   *)

LEMMA TypeInit == Init => TypeOK
<1> SUFFICES ASSUME Init PROVE TypeOK
  OBVIOUS
<1>1. IdleEnder \in Ender /\ NoRecording \in Recording
  BY DEF IdleEnder, Ender, NoRecording, Recording
<1>2. pending \in [Sessions -> Seq(Upsert)]
  BY EmptySeq DEF Init
<1>3. faults \subseteq FaultKinds
  BY EnvironmentsAssumption DEF Init
<1>4. ender \in [Sessions -> [Enders -> Ender]]
  BY <1>1 DEF Init
<1>5. rec \in [Sessions -> Recording]
  BY <1>1 DEF Init
<1>6. steps \in [Sessions -> 0..MaxSteps] /\ promised \in [Sessions -> Nat]
  BY BoundsAssumption DEF Init
<1> QED
  BY <1>2, <1>3, <1>4, <1>5, <1>6 DEF Init, TypeOK

\* An upsert that Postgres ran, or refused.
LEMMA ServeType ==
  ASSUME TypeOK, NEW s \in Sessions, NEW i \in 1..Len(pending[s]), Serve(s, i) \/ SaveFails(s, i)
  PROVE  TypeOK'
<1>1. PICK failed \in BOOLEAN : Answered(s, i, failed)
  BY DEF Serve, SaveFails
<1>2. ender' \in [Sessions -> [Enders -> Ender]]
  BY <1>1, AnswerMovesOne
<1>3. pending' = [pending EXCEPT ![s] = RemoveAt(@, i)]
  BY DEF Serve, SaveFails
<1>4. pending' \in [Sessions -> Seq(Upsert)]
  BY <1>3, RemovalShortens
<1>5. rec' \in [Sessions -> Recording]
  <2>1. CASE SaveFails(s, i)
    BY <2>1 DEF SaveFails, TypeOK
  <2>2. CASE Serve(s, i)
    <3>1. pending[s] \in Seq(Upsert)
      BY DEF TypeOK
    <3>2. pending[s][i] \in Upsert
      BY <3>1, ElementOfSeq
    <3>3. [st |-> "kept", saved |-> pending[s][i].saved, stopped |-> TRUE] \in Recording
      BY <3>2 DEF Upsert, Recording
    <3> QED BY <2>2, <3>3 DEF Serve, TypeOK
  <2> QED BY <2>1, <2>2
<1> QED
  BY <1>2, <1>4, <1>5 DEF Serve, SaveFails, TypeOK

\* The end of a session, from its call to its answer.
LEMMA EndType ==
  ASSUME TypeOK, NEW s \in Sessions, NEW x \in Enders,
         (x \in Callers /\ Stop(s, x)) \/ (x = Timer /\ Expire(s)) \/ Finish(s, x)
  PROVE  TypeOK'
<1>1. CASE Finish(s, x)
  <2>1. ender' \in [Sessions -> [Enders -> Ender]]
    BY <1>1, EnderIsDone DEF Finish
  <2>2. box' \in [Sessions -> {"absent", "created", "running", "exited"}]
    BY <1>1, DestroyTyped DEF Finish
  <2>3. promised' \in [Sessions -> Nat]
    <3>1. ender[s][x] \in Ender
      BY DEF TypeOK
    <3>2. ender[s][x].owes \in Nat
      BY <3>1 DEF Ender
    <3>3. promised' = [promised EXCEPT ![s] = ender[s][x].owes] \/ promised' = promised
      BY <1>1 DEF Finish
    <3> QED BY <3>2, <3>3 DEF TypeOK
  <2>4. session' \in [Sessions -> {"none", "creating", "starting", "ACTIVE", "out"}]
    BY <1>1 DEF Finish, TypeOK
  <2> QED BY <1>1, <2>1, <2>2, <2>3, <2>4 DEF Finish, TypeOK
<1>2. CASE (x \in Callers /\ Stop(s, x)) \/ (x = Timer /\ Expire(s))
  <2>1. /\ Persist(s, x) /\ timers' = [timers EXCEPT ![s] = {}]
        /\ ender' = [ender EXCEPT ![s][x] = [pc |-> "saving", owes |-> steps[s], failed |-> FALSE]]
        /\ UNCHANGED <<backend, session, steps, box, rec, promised, faults>>
    BY <1>2 DEF Stop, Expire
  <2>2. pending' \in [Sessions -> Seq(Upsert)]
    BY <2>1, PersistAppends
  <2>3. ender' \in [Sessions -> [Enders -> Ender]]
    BY <2>1, EnderBegins
  <2>4. timers' \in [Sessions -> SUBSET {"expire", "flush"}]
    BY <2>1 DEF TypeOK
  <2> QED BY <2>1, <2>2, <2>3, <2>4 DEF TypeOK
<1> QED
  BY <1>1, <1>2

\* The process: what is left of its sessions, and of the containers after the sweep.
LEMMA ProcessType ==
  ASSUME TypeOK, Terminate \/ Die \/ Boot
  PROVE  TypeOK'
<1>1. CASE Terminate
  BY <1>1 DEF Terminate, TypeOK
<1>2. CASE Die
  <2>1. IdleEnder \in Ender
    BY DEF IdleEnder, Ender
  <2>2. ender' \in [Sessions -> [Enders -> Ender]]
    BY <1>2, <2>1 DEF Die
  <2>3. session' \in [Sessions -> {"none", "creating", "starting", "ACTIVE", "out"}]
    BY <1>2 DEF Die
  <2>4. timers' \in [Sessions -> SUBSET {"expire", "flush"}]
    BY <1>2 DEF Die
  <2> QED BY <1>2, <2>2, <2>3, <2>4 DEF Die, TypeOK
<1>3. CASE Boot
  <2>1. box' \in [Sessions -> {"absent", "created", "running", "exited"}]
    BY <1>3 DEF Boot, TypeOK
  <2> QED BY <1>3, <2>1 DEF Boot, TypeOK
<1> QED
  BY <1>1, <1>2, <1>3

LEMMA TypeNext == TypeOK /\ [Next]_vars => TypeOK'
<1> SUFFICES ASSUME TypeOK, [Next]_vars PROVE TypeOK'
  OBVIOUS
<1>1. ASSUME NEW s \in Sessions, Start(s) \/ CreateBox(s) \/ StartBox(s)
      PROVE  TypeOK'
  <2>1. session' \in [Sessions -> {"none", "creating", "starting", "ACTIVE", "out"}]
    BY <1>1 DEF Start, CreateBox, StartBox, TypeOK
  <2>2. box' \in [Sessions -> {"absent", "created", "running", "exited"}]
    BY <1>1 DEF Start, CreateBox, StartBox, TypeOK
  <2>3. timers' \in [Sessions -> SUBSET {"expire", "flush"}]
    BY <1>1 DEF Start, CreateBox, StartBox, TypeOK
  <2> QED BY <1>1, <2>1, <2>2, <2>3 DEF Start, CreateBox, StartBox, TypeOK
<1>2. ASSUME NEW s \in Sessions, StartFails(s) \/ BoxExits(s) \/ Close(s)
      PROVE  TypeOK'
  <2>1. session' \in [Sessions -> {"none", "creating", "starting", "ACTIVE", "out"}]
    BY <1>2 DEF StartFails, BoxExits, Close, TypeOK
  <2>2. box' \in [Sessions -> {"absent", "created", "running", "exited"}]
    BY <1>2, DestroyTyped DEF StartFails, BoxExits, Close, TypeOK
  <2>3. timers' \in [Sessions -> SUBSET {"expire", "flush"}]
    BY <1>2 DEF StartFails, BoxExits, Close, TypeOK
  <2> QED BY <1>2, <2>1, <2>2, <2>3 DEF StartFails, BoxExits, Close, TypeOK
<1>3. ASSUME NEW s \in Sessions, AddStep(s)
      PROVE  TypeOK'
  <2>1. steps[s] \in 0..MaxSteps /\ steps[s] + 1 \in 0..MaxSteps
    BY <1>3, BoundsAssumption DEF AddStep, TypeOK
  <2> QED BY <1>3, <2>1 DEF AddStep, TypeOK
<1>4. ASSUME NEW s \in Sessions, Flush(s)
      PROVE  TypeOK'
  BY <1>4, PersistAppends DEF Flush, TypeOK
<1>5. ASSUME NEW s \in Sessions, Delete(s)
      PROVE  TypeOK'
  <2>1. [NoRecording EXCEPT !.st = "deleted"] \in Recording
    BY DEF NoRecording, Recording
  <2> QED BY <1>5, <2>1 DEF Delete, TypeOK
<1>6. ASSUME NEW s \in Sessions, NeverSent(s)
      PROVE  TypeOK'
  <2>1. pending[s] \in Seq(Upsert) /\ pending[s] # <<>>
    BY <1>6 DEF NeverSent, TypeOK
  <2>2. Front(pending[s]) \in Seq(Upsert)
    BY <2>1, FrontDropsLast
  <2> QED BY <1>6, <2>2 DEF NeverSent, TypeOK
<1>7. ASSUME NEW s \in Sessions, NEW i \in 1..Len(pending[s]), Serve(s, i) \/ SaveFails(s, i)
      PROVE  TypeOK'
  BY <1>7, ServeType
<1>8. ASSUME NEW s \in Sessions, NEW x \in Enders, Finish(s, x)
      PROVE  TypeOK'
  BY <1>8, EndType
<1>9. ASSUME NEW s \in Sessions, Expire(s)
      PROVE  TypeOK'
  BY <1>9, EndType DEF Enders
<1>10. ASSUME NEW s \in Sessions, NEW c \in Callers, Stop(s, c)
       PROVE  TypeOK'
  BY <1>10, EndType DEF Enders
<1>11. CASE Terminate \/ Die \/ Boot
  BY <1>11, ProcessType
<1>12. CASE UNCHANGED vars
  BY <1>12 DEF vars, TypeOK
<1> QED
  BY <1>1, <1>2, <1>3, <1>4, <1>5, <1>6, <1>7, <1>8, <1>9, <1>10, <1>11, <1>12 DEF Next, Service

\* The state of the recorder has its type: every list of saves that are on their way is a
\* list of saves, whatever was removed from it, and no count leaves its bounds.
THEOREM TypeCorrect == Spec => []TypeOK
<1> QED
  BY TypeInit, TypeNext, PTL DEF Spec

-----------------------------------------------------------------------------
(* No container is left behind                                             *)

\* As long as the process is there, also while it closes, a container has its session: this
\* is NoOrphanBox for every state in which the process can take a step.
BoxHasSession ==
  Without({"remove", "sweep"}) /\ backend # "down" =>
    \A s \in Sessions : box[s] # "absent" => session[s] \in {"starting", "ACTIVE"}

LEMMA BoxInit == Init => BoxHasSession
  BY DEF Init, BoxHasSession

\* Every step that takes a session out of the Map, or never lets it in, destroys its
\* container; only a crash does not, and the sweep of the next start does.
LEMMA BoxNext == TypeOK /\ BoxHasSession /\ [Next]_vars => BoxHasSession'
<1> SUFFICES ASSUME TypeOK, BoxHasSession, [Next]_vars,
                    faults' \cap {"remove", "sweep"} = {}, backend' # "down"
             PROVE  \A t \in Sessions : box'[t] # "absent" => session'[t] \in {"starting", "ACTIVE"}
  BY DEF BoxHasSession, Without
<1> USE DEF TypeOK
<1>1. faults' = faults /\ "remove" \notin faults /\ "sweep" \notin faults
  <2>1. faults' = faults
    BY DEF Next, Service, Start, AddStep, Flush, Expire, Delete, CreateBox, StartBox, Serve, Finish,
           StartFails, BoxExits, Close, NeverSent, Stop, SaveFails, Terminate, Die, Boot, vars
  <2> QED BY <2>1
<1>2. CASE Boot
  <2>1. faults \cap {"sweep", "remove"} = {}
    BY <1>1
  <2>2. box' = [s \in Sessions |-> "absent"]
    BY <1>2, <2>1 DEF Boot
  <2> QED BY <2>2
<1>3. CASE Terminate \/ Die \/ UNCHANGED vars
  BY <1>1, <1>3 DEF Terminate, Die, vars, BoxHasSession, Without
<1>4. ASSUME backend # "down" PROVE \A t \in Sessions :
        box[t] # "absent" => session[t] \in {"starting", "ACTIVE"}
  BY <1>1, <1>4 DEF BoxHasSession, Without
<1>5. ASSUME NEW s \in Sessions, Start(s) \/ CreateBox(s) \/ StartBox(s) \/ StartFails(s)
      PROVE  \A t \in Sessions : box'[t] # "absent" => session'[t] \in {"starting", "ACTIVE"}
  BY <1>1, <1>4, <1>5 DEF Start, CreateBox, StartBox, StartFails, Alive
<1>6. ASSUME NEW s \in Sessions, BoxExits(s)
      PROVE  \A t \in Sessions : box'[t] # "absent" => session'[t] \in {"starting", "ACTIVE"}
  BY <1>4, <1>6 DEF BoxExits
<1>7. ASSUME NEW s \in Sessions, Close(s)
      PROVE  \A t \in Sessions : box'[t] # "absent" => session'[t] \in {"starting", "ACTIVE"}
  BY <1>1, <1>4, <1>7, DestroyTyped DEF Close
<1>8. ASSUME NEW s \in Sessions, NEW x \in Enders, Finish(s, x)
      PROVE  \A t \in Sessions : box'[t] # "absent" => session'[t] \in {"starting", "ACTIVE"}
  <2>1. backend # "down" /\ DestroyBox(s) /\ session' = [session EXCEPT ![s] = "out"]
    BY <1>8 DEF Finish, Alive
  <2> QED BY <1>1, <1>4, <2>1, DestroyTyped
<1>9. ASSUME NEW s \in Sessions,
             \/ AddStep(s) \/ Flush(s) \/ Expire(s) \/ Delete(s) \/ NeverSent(s)
             \/ \E i \in 1..Len(pending[s]) : Serve(s, i) \/ SaveFails(s, i)
             \/ \E c \in Callers : Stop(s, c)
      PROVE  \A t \in Sessions : box'[t] # "absent" => session'[t] \in {"starting", "ACTIVE"}
  <2>1. UNCHANGED <<backend, box, session>>
    BY <1>9 DEF AddStep, Flush, Expire, Delete, NeverSent, Serve, SaveFails, Stop
  <2> QED BY <1>4, <2>1
<1> QED
  BY <1>2, <1>3, <1>5, <1>6, <1>7, <1>8, <1>9 DEF Next, Service

\* No container of the recorder outlives its session, whichever way it went and however
\* often the process crashed: stop() and expire() at once, a start that failed, a shutdown
\* in the middle of it. Only Docker refusing to remove or to list a container leaves one.
THEOREM NoContainerLeft == Spec => []NoOrphanBox
<1>1. TypeOK /\ BoxHasSession => NoOrphanBox
  BY DEF BoxHasSession, NoOrphanBox
<1> QED
  BY <1>1, TypeInit, TypeNext, BoxInit, BoxNext, PTL DEF Spec

-----------------------------------------------------------------------------
(* Saves of a session                                                      *)

\* Before its container runs, a session has no save, no timer and nobody who ends it.
Young(s) ==
  session[s] \in {"none", "creating", "starting"} =>
    pending[s] = <<>> /\ timers[s] = {} /\ \A x \in Enders : ender[s][x].pc = "idle"

\* The expiry timer fires once.
Armed(s) == "expire" \in timers[s] => ender[s][Timer].pc = "idle"

\* Later saves hold more: none takes back what the row has, or what was vouched for.
Ordered(s) ==
  /\ rec[s].saved <= steps[s] /\ promised[s] <= steps[s]
  /\ \A i \in 1..Len(pending[s]) :
       /\ rec[s].saved <= pending[s][i].saved
       /\ promised[s] <= pending[s][i].saved
       /\ pending[s][i].saved <= steps[s]
  /\ \A i, j \in 1..Len(pending[s]) : i <= j => pending[s][i].saved <= pending[s][j].saved

Vouched(s) == rec[s].st # "deleted" => rec[s].saved >= promised[s]

\* What an ender owes is in the save that it awaits, and in the row once it was answered.
Owed(s, x) ==
  /\ ender[s][x].pc = "idle" /\ session[s] # "out" =>
       \A i \in 1..Len(pending[s]) : pending[s][i].by # x
  /\ ender[s][x].pc = "saving" =>
       /\ ender[s][x].owes <= steps[s]
       /\ \A i \in 1..Len(pending[s]) :
            pending[s][i].by = x => ender[s][x].owes <= pending[s][i].saved
  /\ ender[s][x].pc = "destroying" /\ ~ender[s][x].failed =>
       /\ ender[s][x].owes <= steps[s]
       /\ rec[s].st # "deleted" => ender[s][x].owes <= rec[s].saved
       /\ \A i \in 1..Len(pending[s]) : ender[s][x].owes <= pending[s][i].saved

Sound(s) ==
  Young(s) /\ Armed(s) /\ Ordered(s) /\ Vouched(s) /\ \A x \in Enders : Owed(s, x)

\* The inductive invariant of the saves, where Postgres runs them in the order of their calls.
SavesAreSound == Without({"reorder"}) => \A s \in Sessions : Sound(s)

\* What a step of one session leaves alone: the other sessions.
Spares(s) ==
  \A t \in Sessions \ {s} :
    /\ session'[t] = session[t] /\ steps'[t] = steps[t] /\ timers'[t] = timers[t]
    /\ ender'[t] = ender[t] /\ pending'[t] = pending[t]
    /\ rec'[t] = rec[t] /\ promised'[t] = promised[t]

LEMMA OthersStaySound ==
  ASSUME NEW s \in Sessions, Spares(s), NEW t \in Sessions \ {s}, Sound(t)
  PROVE  Sound(t)'
<1>1. /\ session'[t] = session[t] /\ steps'[t] = steps[t] /\ timers'[t] = timers[t]
      /\ ender'[t] = ender[t] /\ pending'[t] = pending[t]
      /\ rec'[t] = rec[t] /\ promised'[t] = promised[t]
  BY DEF Spares
<1>2. Young(t)' /\ Armed(t)'
  BY <1>1 DEF Sound, Young, Armed
<1>3. Ordered(t)' /\ Vouched(t)'
  BY <1>1 DEF Sound, Ordered, Vouched
<1>4. \A x \in Enders : Owed(t, x)'
  BY <1>1 DEF Sound, Owed
<1> QED
  BY <1>2, <1>3, <1>4 DEF Sound

\* The counts of a session are numbers.
LEMMA Numbers ==
  ASSUME TypeOK, NEW s \in Sessions
  PROVE  /\ rec[s].saved \in Nat /\ steps[s] \in Nat /\ promised[s] \in Nat
         /\ \A x \in Enders : ender[s][x].owes \in Nat
         /\ \A i \in 1..Len(pending[s]) : pending[s][i].saved \in Nat
         /\ Len(pending[s]) \in Nat
<1>1. rec[s] \in Recording /\ steps[s] \in 0..MaxSteps /\ promised[s] \in Nat
  BY DEF TypeOK
<1>2. rec[s].saved \in Nat
  BY <1>1 DEF Recording
<1>3. steps[s] \in Nat
  BY <1>1, BoundsAssumption
<1>4. ASSUME NEW x \in Enders PROVE ender[s][x].owes \in Nat
  <2>1. ender[s][x] \in Ender
    BY DEF TypeOK
  <2> QED BY <2>1 DEF Ender
<1>5. pending[s] \in Seq(Upsert)
  BY DEF TypeOK
<1>6. Len(pending[s]) \in Nat
  BY <1>5, LenProperties
<1>7. ASSUME NEW i \in 1..Len(pending[s]) PROVE pending[s][i].saved \in Nat
  <2>1. pending[s][i] \in Upsert
    BY <1>5, ElementOfSeq
  <2> QED BY <2>1 DEF Upsert
<1> QED
  BY <1>1, <1>2, <1>3, <1>4, <1>6, <1>7

LEMMA SavesInit == Init => SavesAreSound
<1> SUFFICES ASSUME Init, NEW s \in Sessions PROVE Sound(s)
  BY DEF SavesAreSound
<1>1. /\ session[s] = "none" /\ steps[s] = 0 /\ timers[s] = {} /\ pending[s] = <<>>
      /\ rec[s].saved = 0 /\ promised[s] = 0
      /\ \A x \in Enders : ender[s][x].pc = "idle"
  BY DEF Init, NoRecording, IdleEnder
<1>2. Len(pending[s]) = 0
  BY <1>1, EmptySeq
<1>3. Timer \in Enders
  BY DEF Enders
<1> QED
  BY <1>1, <1>2, <1>3 DEF Sound, Young, Armed, Ordered, Vouched, Owed

\* The start of a session, and what happens to its container: no save is touched.
LEMMA ContainerIsSound ==
  ASSUME TypeOK, NEW s \in Sessions, Sound(s),
         \/ Start(s) \/ CreateBox(s) \/ StartBox(s) \/ StartFails(s) \/ BoxExits(s) \/ Close(s)
  PROVE  Sound(s)' /\ Spares(s)
<1> USE DEF Start, CreateBox, StartBox, StartFails, BoxExits, Close
<1>1. UNCHANGED <<steps, ender, pending, rec, promised>>
  OBVIOUS
<1>2. Spares(s)
  BY <1>1 DEF Spares, TypeOK
<1>3. session'[s] = "out" => session[s] \in {"creating", "starting", "out"}
  BY DEF TypeOK
<1>4. session'[s] \in {"none", "creating", "starting"} =>
        session[s] \in {"none", "creating", "starting"} /\ timers'[s] \in {timers[s], {}}
  BY DEF TypeOK
<1>5. timers'[s] \in {timers[s], {}} \/ session[s] = "starting"
  BY DEF TypeOK
<1>6. session[s] = "out" => session'[s] = "out"
  BY DEF TypeOK
<1> QED
  <2> USE <1>1 DEF Sound
  <2>1. Young(s)'
    BY <1>4 DEF Young
  <2>2. Armed(s)'
    <3>1. Timer \in Enders
      BY DEF Enders
    <3> QED BY <1>5, <3>1 DEF Armed, Young
  <2>3. Ordered(s)' /\ Vouched(s)'
    BY DEF Ordered, Vouched
  <2>4. \A x \in Enders : Owed(s, x)'
    BY <1>6 DEF Owed
  <2> QED BY <1>2, <2>1, <2>2, <2>3, <2>4

\* A step that is taken in.
LEMMA AddStepIsSound ==
  ASSUME TypeOK, NEW s \in Sessions, Sound(s), AddStep(s)
  PROVE  Sound(s)' /\ Spares(s)
<1>1. UNCHANGED <<session, timers, ender, pending, rec, promised>> /\ session[s] = "ACTIVE"
  BY DEF AddStep
<1>2. steps'[s] = steps[s] + 1 /\ \A t \in Sessions \ {s} : steps'[t] = steps[t]
  BY DEF AddStep, TypeOK
<1>3. Spares(s)
  BY <1>1, <1>2 DEF Spares
<1>4. Young(s)' /\ Armed(s)' /\ Vouched(s)'
  BY <1>1 DEF Sound, Young, Armed, Vouched
<1>5. Ordered(s)'
  BY <1>1, <1>2, Numbers DEF Sound, Ordered
<1>6. \A x \in Enders : Owed(s, x)'
  BY <1>1, <1>2, Numbers DEF Sound, Owed
<1> QED
  BY <1>3, <1>4, <1>5, <1>6 DEF Sound

\* A save that is sent off is the largest of them.
LEMMA SendKeepsOrder ==
  ASSUME TypeOK, NEW s \in Sessions, Sound(s), NEW by \in Enders \cup {"flush"}, Persist(s, by),
         rec'[s] = rec[s], promised'[s] = promised[s], steps'[s] = steps[s]
  PROVE  Ordered(s)' /\ Vouched(s)'
<1>1. /\ Len(pending'[s]) = Len(pending[s]) + 1
      /\ \A j \in 1..Len(pending[s]) : pending'[s][j] = pending[s][j]
      /\ pending'[s][Len(pending[s]) + 1].saved = steps[s]
  BY PersistAppends
<1>2. ASSUME NEW j \in 1..Len(pending'[s])
      PROVE  /\ rec'[s].saved <= pending'[s][j].saved /\ promised'[s] <= pending'[s][j].saved
             /\ pending'[s][j].saved <= steps'[s]
  <2>1. CASE j = Len(pending[s]) + 1
    BY <1>1, <2>1, Numbers DEF Sound, Ordered
  <2>2. CASE j \in 1..Len(pending[s])
    <3>1. pending'[s][j] = pending[s][j]
      BY <1>1, <2>2
    <3> QED BY <2>2, <3>1 DEF Sound, Ordered
  <2> QED BY <1>1, <2>1, <2>2, Numbers
<1>3. ASSUME NEW i \in 1..Len(pending'[s]), NEW j \in 1..Len(pending'[s]), i <= j
      PROVE  pending'[s][i].saved <= pending'[s][j].saved
  <2>1. CASE j = Len(pending[s]) + 1
    BY <1>1, <1>2, <2>1
  <2>2. CASE j \in 1..Len(pending[s])
    <3>1. i \in 1..Len(pending[s])
      BY <1>1, <1>3, <2>2, Numbers
    <3> QED BY <1>1, <1>3, <2>2, <3>1 DEF Sound, Ordered
  <2> QED BY <1>1, <2>1, <2>2, Numbers
<1> QED
  BY <1>2, <1>3 DEF Sound, Ordered, Vouched

\* What an ender owes is in every save that is sent off later.
LEMMA SendKeepsOwed ==
  ASSUME TypeOK, NEW s \in Sessions, Sound(s), NEW by \in Enders \cup {"flush"}, Persist(s, by),
         rec'[s] = rec[s], steps'[s] = steps[s], session'[s] = session[s],
         NEW x \in Enders, x # by, ender'[s][x] = ender[s][x]
  PROVE  Owed(s, x)'
<1>1. /\ Len(pending'[s]) = Len(pending[s]) + 1
      /\ \A j \in 1..Len(pending[s]) : pending'[s][j] = pending[s][j]
      /\ pending'[s][Len(pending[s]) + 1].saved = steps[s]
      /\ pending'[s][Len(pending[s]) + 1].by = by
  BY PersistAppends
<1>2. \A j \in 1..Len(pending'[s]) : j = Len(pending[s]) + 1 \/ j \in 1..Len(pending[s])
  BY <1>1, Numbers
<1>3. Owed(s, x)
  BY DEF Sound
<1>4. CASE ender[s][x].pc = "idle"
  BY <1>1, <1>2, <1>3, <1>4 DEF Owed
<1>5. CASE ender[s][x].pc = "saving"
  BY <1>1, <1>2, <1>3, <1>5 DEF Owed
<1>6. CASE ender[s][x].pc = "destroying"
  BY <1>1, <1>2, <1>3, <1>6 DEF Owed
<1> QED
  BY <1>4, <1>5, <1>6 DEF Owed

LEMMA FlushIsSound ==
  ASSUME TypeOK, NEW s \in Sessions, Sound(s), Flush(s)
  PROVE  Sound(s)' /\ Spares(s)
<1>1. /\ UNCHANGED <<session, steps, timers, ender, rec, promised>> /\ session[s] = "ACTIVE"
      /\ Persist(s, "flush")
  BY DEF Flush
<1>2. Spares(s)
  BY <1>1, PersistAppends DEF Spares
<1>3. Young(s)' /\ Armed(s)'
  BY <1>1 DEF Sound, Young, Armed
<1>4. Ordered(s)' /\ Vouched(s)'
  BY <1>1, SendKeepsOrder
<1>5. ASSUME NEW x \in Enders PROVE Owed(s, x)'
  <2>1. x # "flush"
    BY FlushAssumption
  <2> QED BY <1>1, <2>1, SendKeepsOwed
<1> QED
  BY <1>2, <1>3, <1>4, <1>5 DEF Sound

\* The save of stop() or of the expiry is the first that this ender sends.
LEMMA EndIsSound ==
  ASSUME TypeOK, NEW s \in Sessions, Sound(s), NEW x \in Enders,
         (x \in Callers /\ Stop(s, x)) \/ (x = Timer /\ Expire(s))
  PROVE  Sound(s)' /\ Spares(s)
<1>1. /\ Persist(s, x) /\ timers' = [timers EXCEPT ![s] = {}] /\ session[s] = "ACTIVE"
      /\ ender' = [ender EXCEPT ![s][x] = [pc |-> "saving", owes |-> steps[s], failed |-> FALSE]]
      /\ UNCHANGED <<session, steps, rec, promised>>
  BY DEF Stop, Expire
<1>2. ender[s][x].pc = "idle"
  BY DEF Stop, Expire, Sound, Armed
<1>3. /\ \A t \in Sessions \ {s} : ender'[t] = ender[t]
      /\ \A y \in Enders \ {x} : ender'[s][y] = ender[s][y]
      /\ ender'[s][x].pc = "saving" /\ ender'[s][x].owes = steps[s]
  BY <1>1, EnderBegins
<1>4. Spares(s)
  BY <1>1, <1>3, PersistAppends DEF Spares, TypeOK
<1>5. Young(s)' /\ Armed(s)'
  BY <1>1 DEF Young, Armed, TypeOK
<1>6. Ordered(s)' /\ Vouched(s)'
  BY <1>1, SendKeepsOrder
<1>7. ASSUME NEW y \in Enders, y # x PROVE Owed(s, y)'
  BY <1>1, <1>3, <1>7, SendKeepsOwed
<1>8. Owed(s, x)'
  <2>1. /\ Len(pending'[s]) = Len(pending[s]) + 1
        /\ \A j \in 1..Len(pending[s]) : pending'[s][j] = pending[s][j]
        /\ pending'[s][Len(pending[s]) + 1].saved = steps[s]
    BY <1>1, PersistAppends
  <2>2. \A j \in 1..Len(pending[s]) : pending[s][j].by # x
    BY <1>1, <1>2 DEF Sound, Owed
  <2>3. \A j \in 1..Len(pending'[s]) : pending'[s][j].by = x => pending'[s][j].saved = steps[s]
    BY <2>1, <2>2, Numbers
  <2> QED BY <1>1, <1>3, <2>3, Numbers DEF Owed
<1> QED
  BY <1>4, <1>5, <1>6, <1>7, <1>8 DEF Sound

\* Saves that are on their way no more leave those that are in their order.
LEMMA FewerKeepOrder ==
  ASSUME TypeOK, NEW s \in Sessions, Sound(s), promised'[s] = promised[s], steps'[s] = steps[s],
         \A j \in 1..Len(pending'[s]) : \E n \in 1..Len(pending[s]) : pending'[s][j] = pending[s][n],
         \A j, k \in 1..Len(pending'[s]) : j <= k =>
           \E m, n \in 1..Len(pending[s]) :
             m <= n /\ pending'[s][j] = pending[s][m] /\ pending'[s][k] = pending[s][n],
         rec'[s].saved <= steps[s],
         \A n \in 1..Len(pending[s]) : rec'[s].saved <= pending[s][n].saved
  PROVE  Ordered(s)'
<1>1. ASSUME NEW j \in 1..Len(pending'[s])
      PROVE  /\ rec'[s].saved <= pending'[s][j].saved /\ promised'[s] <= pending'[s][j].saved
             /\ pending'[s][j].saved <= steps'[s]
  <2>1. PICK n \in 1..Len(pending[s]) : pending'[s][j] = pending[s][n]
    OBVIOUS
  <2> QED BY <2>1 DEF Sound, Ordered
<1>2. ASSUME NEW j \in 1..Len(pending'[s]), NEW k \in 1..Len(pending'[s]), j <= k
      PROVE  pending'[s][j].saved <= pending'[s][k].saved
  <2>1. PICK m \in 1..Len(pending[s]), n \in 1..Len(pending[s]) :
          m <= n /\ pending'[s][j] = pending[s][m] /\ pending'[s][k] = pending[s][n]
    BY <1>2
  <2> QED BY <2>1 DEF Sound, Ordered
<1> QED
  BY <1>1, <1>2 DEF Sound, Ordered

\* ... and what an ender owes is still in them.
LEMMA FewerKeepOwed ==
  ASSUME NEW s \in Sessions, Sound(s), steps'[s] = steps[s], session'[s] = session[s],
         \A j \in 1..Len(pending'[s]) : \E n \in 1..Len(pending[s]) : pending'[s][j] = pending[s][n],
         NEW x \in Enders, ender'[s][x] = ender[s][x],
         ender[s][x].pc = "destroying" /\ ~ender[s][x].failed /\ rec'[s].st # "deleted" =>
           ender[s][x].owes <= rec'[s].saved
  PROVE  Owed(s, x)'
<1>1. Owed(s, x)
  BY DEF Sound
<1>2. CASE ender[s][x].pc = "idle"
  BY <1>1, <1>2 DEF Owed
<1>3. CASE ender[s][x].pc = "saving"
  BY <1>1, <1>3 DEF Owed
<1>4. CASE ender[s][x].pc = "destroying"
  BY <1>1, <1>4 DEF Owed
<1> QED
  BY <1>2, <1>3, <1>4 DEF Owed

\* A save that failed is gone, and its ender vouches for nothing.
LEMMA SaveFailsIsSound ==
  ASSUME TypeOK, NEW s \in Sessions, Sound(s), NEW i \in 1..Len(pending[s]), SaveFails(s, i)
  PROVE  Sound(s)' /\ Spares(s)
<1>1. /\ pending' = [pending EXCEPT ![s] = RemoveAt(@, i)] /\ Answered(s, i, TRUE)
      /\ UNCHANGED <<session, steps, timers, rec, promised>>
  BY DEF SaveFails
<1>2. /\ \A t \in Sessions \ {s} : pending'[t] = pending[t]
      /\ \A j \in 1..Len(pending'[s]) : \E n \in 1..Len(pending[s]) : pending'[s][j] = pending[s][n]
      /\ \A j, k \in 1..Len(pending'[s]) : j <= k =>
           \E m, n \in 1..Len(pending[s]) :
             m <= n /\ pending'[s][j] = pending[s][m] /\ pending'[s][k] = pending[s][n]
  BY <1>1, RemovalShortens
<1>3. /\ \A t \in Sessions \ {s} : ender'[t] = ender[t]
      /\ \A x \in Enders :
           \/ ender'[s][x] = ender[s][x]
           \/ ender'[s][x].pc = "destroying" /\ ender'[s][x].failed = TRUE
  BY <1>1, AnswerMovesOne
<1>4. Spares(s)
  BY <1>1, <1>2, <1>3 DEF Spares
<1>5. pending[s] # <<>>
  BY EmptySeq, Numbers
<1>6. Young(s)'
  BY <1>1, <1>5 DEF Sound, Young
<1>7. Armed(s)'
  <2>1. Timer \in Enders
    BY DEF Enders
  <2>2. ender[s][Timer].pc = "idle" => ender'[s][Timer] = ender[s][Timer]
    BY <1>1, <2>1, AnswerMovesOne
  <2> QED BY <1>1, <2>2 DEF Sound, Armed
<1>8. Ordered(s)' /\ Vouched(s)'
  <2>1. /\ rec'[s].saved <= steps[s]
        /\ \A n \in 1..Len(pending[s]) : rec'[s].saved <= pending[s][n].saved
    BY <1>1 DEF Sound, Ordered
  <2>2. Vouched(s)'
    BY <1>1 DEF Sound, Vouched
  <2> QED BY <1>1, <1>2, <2>1, <2>2, FewerKeepOrder
<1>9. ASSUME NEW x \in Enders PROVE Owed(s, x)'
  <2>1. CASE ender'[s][x] = ender[s][x]
    <3>1. ender[s][x].pc = "destroying" /\ ~ender[s][x].failed /\ rec'[s].st # "deleted" =>
            ender[s][x].owes <= rec'[s].saved
      BY <1>1 DEF Sound, Owed
    <3> QED BY <1>1, <1>2, <2>1, <3>1, FewerKeepOwed
  <2>2. CASE ender'[s][x].pc = "destroying" /\ ender'[s][x].failed = TRUE
    BY <2>2 DEF Owed
  <2> QED BY <1>3, <2>1, <2>2
<1> QED
  BY <1>4, <1>6, <1>7, <1>8, <1>9 DEF Sound

\* Where saves are run in their order, the row has no more than any save that is left, and
\* the ender that awaited this one has what it owes.
LEMMA ServeIsSound ==
  ASSUME TypeOK, NEW s \in Sessions, Sound(s), NEW i \in 1..Len(pending[s]), Serve(s, i),
         "reorder" \notin faults
  PROVE  Sound(s)' /\ Spares(s)
<1>1. /\ pending' = [pending EXCEPT ![s] = RemoveAt(@, i)] /\ Answered(s, i, FALSE) /\ i = 1
      /\ UNCHANGED <<session, steps, timers, promised>>
      /\ rec' = [rec EXCEPT ![s] = [st |-> "kept", saved |-> pending[s][i].saved, stopped |-> TRUE]]
  BY DEF Serve
<1>2. /\ \A t \in Sessions \ {s} : pending'[t] = pending[t]
      /\ \A j \in 1..Len(pending'[s]) : \E n \in 1..Len(pending[s]) : pending'[s][j] = pending[s][n]
      /\ \A j, k \in 1..Len(pending'[s]) : j <= k =>
           \E m, n \in 1..Len(pending[s]) :
             m <= n /\ pending'[s][j] = pending[s][m] /\ pending'[s][k] = pending[s][n]
  BY <1>1, RemovalShortens
<1>3. /\ \A t \in Sessions \ {s} : ender'[t] = ender[t]
      /\ \A x \in Enders :
           \/ ender'[s][x] = ender[s][x]
           \/ /\ x = pending[s][i].by /\ ender[s][x].pc = "saving"
              /\ ender'[s][x].pc = "destroying" /\ ender'[s][x].owes = ender[s][x].owes
              /\ ender'[s][x].failed = FALSE
  BY <1>1, AnswerMovesOne
<1>4. /\ rec'[s].st = "kept" /\ rec'[s].saved = pending[s][i].saved
      /\ \A t \in Sessions \ {s} : rec'[t] = rec[t]
  BY <1>1 DEF TypeOK
<1>5. Spares(s)
  BY <1>1, <1>2, <1>3, <1>4 DEF Spares
<1>6. Young(s)'
  <2>1. pending[s] # <<>>
    BY EmptySeq, Numbers
  <2> QED BY <1>1, <2>1 DEF Sound, Young
<1>7. Armed(s)'
  <2>1. Timer \in Enders
    BY DEF Enders
  <2>2. ender[s][Timer].pc = "idle" => ender'[s][Timer] = ender[s][Timer]
    BY <1>3, <2>1
  <2> QED BY <1>1, <2>2 DEF Sound, Armed
<1>8. \A n \in 1..Len(pending[s]) : rec'[s].saved <= pending[s][n].saved
  <2>1. \A n \in 1..Len(pending[s]) : i <= n
    BY <1>1
  <2> QED BY <1>4, <2>1 DEF Sound, Ordered
<1>9. rec'[s].saved <= steps[s] /\ promised[s] <= rec'[s].saved
  BY <1>4 DEF Sound, Ordered
<1>10. Ordered(s)' /\ Vouched(s)'
  <2>1. Ordered(s)'
    BY <1>1, <1>2, <1>8, <1>9, FewerKeepOrder
  <2>2. Vouched(s)'
    BY <1>1, <1>9, Numbers DEF Vouched
  <2> QED BY <2>1, <2>2
<1>11. ASSUME NEW x \in Enders PROVE Owed(s, x)'
  <2>1. CASE ender'[s][x] = ender[s][x]
    <3>1. ender[s][x].pc = "destroying" /\ ~ender[s][x].failed => ender[s][x].owes <= rec'[s].saved
      BY <1>4 DEF Sound, Owed
    <3> QED BY <1>1, <1>2, <2>1, <3>1, FewerKeepOwed
  <2>2. CASE /\ x = pending[s][i].by /\ ender[s][x].pc = "saving"
             /\ ender'[s][x].pc = "destroying" /\ ender'[s][x].owes = ender[s][x].owes
    <3>1. ender[s][x].owes <= pending[s][i].saved /\ ender[s][x].owes <= steps[s]
      BY <2>2 DEF Sound, Owed
    <3>2. \A n \in 1..Len(pending[s]) : pending[s][i].saved <= pending[s][n].saved
      BY <1>4, <1>8
    <3>3. \A n \in 1..Len(pending[s]) : ender[s][x].owes <= pending[s][n].saved
      BY <3>1, <3>2, Numbers
    <3>4. \A j \in 1..Len(pending'[s]) : ender[s][x].owes <= pending'[s][j].saved
      BY <1>2, <3>3
    <3> QED BY <1>1, <1>4, <2>2, <3>1, <3>4 DEF Owed
  <2> QED BY <1>3, <2>1, <2>2
<1> QED
  BY <1>5, <1>6, <1>7, <1>10, <1>11 DEF Sound

\* A session that ended: what its caller is told is in the row and in every save to come.
LEMMA FinishIsSound ==
  ASSUME TypeOK, NEW s \in Sessions, Sound(s), NEW x \in Enders, Finish(s, x)
  PROVE  Sound(s)' /\ Spares(s)
<1>1. /\ UNCHANGED <<steps, timers, pending, rec>> /\ ender[s][x].pc = "destroying"
      /\ session' = [session EXCEPT ![s] = "out"] /\ ender' = [ender EXCEPT ![s][x].pc = "done"]
  BY DEF Finish
<1>2. /\ \A t \in Sessions \ {s} : ender'[t] = ender[t]
      /\ \A y \in Enders \ {x} : ender'[s][y] = ender[s][y]
      /\ ender'[s][x].pc = "done"
  BY <1>1, EnderIsDone
<1>3. /\ \A t \in Sessions \ {s} : promised'[t] = promised[t] /\ session'[t] = session[t]
      /\ session'[s] = "out"
      /\ \/ promised'[s] = promised[s]
         \/ promised'[s] = ender[s][x].owes /\ ~ender[s][x].failed
  BY DEF Finish, TypeOK
<1>4. Spares(s)
  BY <1>1, <1>2, <1>3 DEF Spares
<1>5. Young(s)'
  BY <1>3 DEF Young
<1>6. Armed(s)'
  <2>1. Timer \in Enders
    BY DEF Enders
  <2>2. ender[s][Timer].pc = "idle" => ender'[s][Timer].pc = "idle"
    BY <1>1, <1>2, <2>1
  <2> QED BY <1>1, <2>2 DEF Sound, Armed
<1>7. /\ promised'[s] <= steps[s]
      /\ \A i \in 1..Len(pending[s]) : promised'[s] <= pending[s][i].saved
      /\ rec[s].st # "deleted" => rec[s].saved >= promised'[s]
  <2>1. CASE promised'[s] = promised[s]
    BY <2>1 DEF Sound, Ordered, Vouched
  <2>2. CASE promised'[s] = ender[s][x].owes /\ ~ender[s][x].failed
    BY <1>1, <2>2, Numbers DEF Sound, Owed
  <2> QED BY <1>3, <2>1, <2>2
<1>8. Ordered(s)' /\ Vouched(s)'
  BY <1>1, <1>7 DEF Sound, Ordered, Vouched
<1>9. ASSUME NEW y \in Enders PROVE Owed(s, y)'
  BY <1>1, <1>2, <1>3 DEF Sound, Owed
<1> QED
  BY <1>4, <1>5, <1>6, <1>8, <1>9 DEF Sound

LEMMA DeleteIsSound ==
  ASSUME TypeOK, NEW s \in Sessions, Sound(s), Delete(s)
  PROVE  Sound(s)' /\ Spares(s)
<1>1. UNCHANGED <<session, steps, timers, ender, pending, promised>>
  BY DEF Delete
<1>2. /\ rec'[s].st = "deleted" /\ rec'[s].saved = 0
      /\ \A t \in Sessions \ {s} : rec'[t] = rec[t]
  BY DEF Delete, TypeOK, NoRecording
<1>3. Spares(s)
  BY <1>1, <1>2 DEF Spares
<1>4. Young(s)' /\ Armed(s)' /\ Vouched(s)'
  BY <1>1, <1>2 DEF Sound, Young, Armed, Vouched
<1>5. Ordered(s)'
  BY <1>1, <1>2, Numbers DEF Sound, Ordered
<1>6. \A x \in Enders : Owed(s, x)'
  BY <1>1, <1>2 DEF Sound, Owed
<1> QED
  BY <1>3, <1>4, <1>5, <1>6 DEF Sound

\* The last saves of a process that died do not reach Postgres.
LEMMA NeverSentIsSound ==
  ASSUME TypeOK, NEW s \in Sessions, Sound(s), NeverSent(s)
  PROVE  Sound(s)' /\ Spares(s)
<1>1. /\ UNCHANGED <<session, steps, timers, ender, rec, promised>> /\ pending[s] # <<>>
      /\ pending' = [pending EXCEPT ![s] = Front(@)]
  BY DEF NeverSent
<1>2. pending'[s] = Front(pending[s]) /\ \A t \in Sessions \ {s} : pending'[t] = pending[t]
  BY <1>1 DEF TypeOK
<1>3. /\ Len(pending'[s]) = Len(pending[s]) - 1
      /\ \A j \in 1..(Len(pending[s]) - 1) : pending'[s][j] = pending[s][j]
  <2>1. pending[s] \in Seq(Upsert)
    BY DEF TypeOK
  <2> QED BY <1>1, <1>2, <2>1, FrontDropsLast
<1>4. \A j \in 1..Len(pending'[s]) : j \in 1..Len(pending[s]) /\ pending'[s][j] = pending[s][j]
  BY <1>3, Numbers
<1>5. Spares(s)
  BY <1>1, <1>2 DEF Spares
<1>6. Young(s)' /\ Armed(s)' /\ Vouched(s)'
  BY <1>1 DEF Sound, Young, Armed, Vouched
<1>7. Ordered(s)'
  <2>1. /\ rec'[s].saved <= steps[s]
        /\ \A n \in 1..Len(pending[s]) : rec'[s].saved <= pending[s][n].saved
    BY <1>1 DEF Sound, Ordered
  <2>2. \A j, k \in 1..Len(pending'[s]) : j <= k =>
          \E m, n \in 1..Len(pending[s]) :
            m <= n /\ pending'[s][j] = pending[s][m] /\ pending'[s][k] = pending[s][n]
    BY <1>4
  <2> QED BY <1>1, <1>4, <2>1, <2>2, FewerKeepOrder
<1>8. ASSUME NEW x \in Enders PROVE Owed(s, x)'
  <2>1. ender[s][x].pc = "destroying" /\ ~ender[s][x].failed /\ rec'[s].st # "deleted" =>
          ender[s][x].owes <= rec'[s].saved
    BY <1>1 DEF Sound, Owed
  <2> QED BY <1>1, <1>4, <2>1, FewerKeepOwed
<1> QED
  BY <1>5, <1>6, <1>7, <1>8 DEF Sound

\* The process goes with its Map, its timers and its handlers, and comes back without them.
LEMMA ProcessIsSound ==
  ASSUME TypeOK, NEW s \in Sessions, Sound(s), Terminate \/ Die \/ Boot
  PROVE  Sound(s)'
<1>1. CASE Terminate \/ Boot
  <2>1. UNCHANGED <<session, steps, timers, ender, pending, rec, promised>>
    BY <1>1 DEF Terminate, Boot
  <2>2. Young(s)' /\ Armed(s)'
    BY <2>1 DEF Sound, Young, Armed
  <2>3. Ordered(s)' /\ Vouched(s)'
    BY <2>1 DEF Sound, Ordered, Vouched
  <2>4. \A x \in Enders : Owed(s, x)'
    BY <2>1 DEF Sound, Owed
  <2> QED BY <2>2, <2>3, <2>4 DEF Sound
<1>2. CASE Die
  <2>1. /\ UNCHANGED <<steps, pending, rec, promised>> /\ timers'[s] = {}
        /\ session'[s] = IF session[s] = "none" THEN "none" ELSE "out"
        /\ \A x \in Enders : ender'[s][x].pc = "idle"
    BY <1>2 DEF Die, IdleEnder
  <2>2. Young(s)' /\ Armed(s)'
    BY <2>1 DEF Sound, Young, Armed
  <2>3. Ordered(s)' /\ Vouched(s)'
    BY <2>1 DEF Sound, Ordered, Vouched
  <2>4. session'[s] # "out" => Len(pending[s]) = 0
    BY <2>1, EmptySeq DEF Sound, Young
  <2>5. \A x \in Enders : Owed(s, x)'
    BY <2>1, <2>4 DEF Owed
  <2> QED BY <2>2, <2>3, <2>5 DEF Sound
<1> QED
  BY <1>1, <1>2

LEMMA SavesNext == TypeOK /\ SavesAreSound /\ [Next]_vars => SavesAreSound'
<1> SUFFICES ASSUME TypeOK, SavesAreSound, [Next]_vars, Without({"reorder"})',
                    NEW t \in Sessions
             PROVE  Sound(t)'
  BY DEF SavesAreSound
<1>1. faults' = faults /\ "reorder" \notin faults
  <2>1. faults' = faults
    BY DEF Next, Service, Start, AddStep, Flush, Expire, Delete, CreateBox, StartBox, Serve, Finish,
           StartFails, BoxExits, Close, NeverSent, Stop, SaveFails, Terminate, Die, Boot, vars
  <2> QED BY <2>1 DEF Without
<1>2. \A s \in Sessions : Sound(s)
  BY <1>1 DEF SavesAreSound, Without
<1>3. ASSUME NEW s \in Sessions, Sound(s)' /\ Spares(s)
      PROVE  Sound(t)'
  <2>1. CASE t = s
    BY <1>3, <2>1
  <2>2. CASE t # s
    BY <1>2, <1>3, <2>2, OthersStaySound
  <2> QED BY <2>1, <2>2
<1>4. ASSUME NEW s \in Sessions,
             Start(s) \/ CreateBox(s) \/ StartBox(s) \/ StartFails(s) \/ BoxExits(s) \/ Close(s)
      PROVE  Sound(t)'
  BY <1>2, <1>3, <1>4, ContainerIsSound
<1>5. ASSUME NEW s \in Sessions, AddStep(s) \/ Flush(s) \/ Delete(s) \/ NeverSent(s)
      PROVE  Sound(t)'
  BY <1>2, <1>3, <1>5, AddStepIsSound, FlushIsSound, DeleteIsSound, NeverSentIsSound
<1>6. ASSUME NEW s \in Sessions, NEW i \in 1..Len(pending[s]), Serve(s, i) \/ SaveFails(s, i)
      PROVE  Sound(t)'
  BY <1>1, <1>2, <1>3, <1>6, ServeIsSound, SaveFailsIsSound
<1>7. ASSUME NEW s \in Sessions, NEW c \in Callers, Stop(s, c)
      PROVE  Sound(t)'
  BY <1>2, <1>3, <1>7, EndIsSound DEF Enders
<1>8. ASSUME NEW s \in Sessions, Expire(s)
      PROVE  Sound(t)'
  BY <1>2, <1>3, <1>8, EndIsSound DEF Enders
<1>9. ASSUME NEW s \in Sessions, NEW x \in Enders, Finish(s, x)
      PROVE  Sound(t)'
  BY <1>2, <1>3, <1>9, FinishIsSound
<1>10. CASE Terminate \/ Die \/ Boot
  BY <1>2, <1>10, ProcessIsSound
<1>11. CASE UNCHANGED vars
  <2>1. UNCHANGED <<session, steps, timers, ender, pending, rec, promised>>
    BY <1>11 DEF vars
  <2> QED BY <1>2, <2>1 DEF Sound, Young, Armed, Ordered, Vouched, Owed
<1> QED
  BY <1>4, <1>5, <1>6, <1>7, <1>8, <1>9, <1>10, <1>11 DEF Next, Service

\* A stop() that resolved has saved what it owed, and neither a flush that was sent before, nor
\* another stop(), the expiry, a crash or a restart takes a step of it back.
THEOREM StopVouchesForSteps == Spec => []StopKeepsSteps
<1>1. SavesAreSound => StopKeepsSteps
  BY DEF SavesAreSound, Sound, Vouched, StopKeepsSteps
<1> QED
  BY <1>1, TypeInit, TypeNext, SavesInit, SavesNext, PTL DEF Spec

\* Saves of a session never undo each other: as long as nobody deletes it, a row that was
\* written only grows, over flushes under way, two ends at a time, crashes and restarts.
THEOREM SavesOnlyAdd == Spec => RecordingGrows
<1> DEFINE Grows ==
      Without({"reorder"}) =>
        \A s \in Sessions :
          rec[s].st = "kept" /\ rec'[s].st = "kept" => rec'[s].saved >= rec[s].saved
<1>1. TypeOK /\ SavesAreSound /\ [Next]_vars => Grows
  <2> SUFFICES ASSUME TypeOK, SavesAreSound, [Next]_vars, Without({"reorder"}),
                      NEW t \in Sessions, rec[t].st = "kept", rec'[t].st = "kept"
               PROVE  rec'[t].saved >= rec[t].saved
    OBVIOUS
  <2>1. Sound(t) /\ rec[t].saved \in Nat
    BY Numbers DEF SavesAreSound
  <2>2. CASE rec' = rec
    BY <2>1, <2>2
  <2>3. ASSUME NEW s \in Sessions, Delete(s)
        PROVE  rec'[t].saved >= rec[t].saved
    <3>1. rec'[s].st = "deleted" /\ \A u \in Sessions \ {s} : rec'[u] = rec[u]
      BY <2>3, DeleteIsSound DEF Delete, TypeOK, NoRecording
    <3>2. t # s
      BY <3>1
    <3> QED BY <2>1, <3>1, <3>2
  <2>4. ASSUME NEW s \in Sessions, NEW i \in 1..Len(pending[s]), Serve(s, i)
        PROVE  rec'[t].saved >= rec[t].saved
    <3>1. rec'[s].saved = pending[s][i].saved /\ \A u \in Sessions \ {s} : rec'[u] = rec[u]
      BY <2>4 DEF Serve, TypeOK
    <3>2. CASE t = s
      <4>1. rec[t].saved <= pending[t][i].saved
        BY <2>1, <3>2 DEF Sound, Ordered
      <4>2. pending[t][i].saved \in Nat
        BY <3>2, Numbers
      <4> QED BY <2>1, <3>1, <3>2, <4>1, <4>2
    <3>3. CASE t # s
      BY <2>1, <3>1, <3>3
    <3> QED BY <3>2, <3>3
  <2> QED
    BY <2>2, <2>3, <2>4
    DEF Next, Service, Start, AddStep, Flush, Expire, CreateBox, StartBox, Finish, StartFails,
        BoxExits, Close, NeverSent, Stop, SaveFails, Terminate, Die, Boot, vars
<1> QED
  BY <1>1, TypeInit, TypeNext, SavesInit, SavesNext, PTL DEF Spec, RecordingGrows

=============================================================================
