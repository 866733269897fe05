---------------------------- MODULE PiThreadsProofs ----------------------------
(***************************************************************************)
(* Proofs about PiThreads.  One turn at a time (OwnerInv) is what the rest *)
(* stands on: a live turn's worker that no foreign write has overtaken is  *)
(* alone with the row, so what it read is still there when it writes       *)
(* (CleanInv), and its write loses nothing (RowInv).                       *)
(***************************************************************************)
EXTENDS PiThreads, TLAPS

\* The phases in which a turn has made no entry yet, and those in which it
\* awaits a worker, or has left one behind.
Early == {"none", "new", "lost", "pending", "stuck", "ensure", "prepare"}
Served == {"ensure", "prepare", "persist", "compress", "broken", "over"}

\* Where the worker of a turn can be.
PlaceInv ==
    \A p \in Procs :
        /\ pc[p] = "base" => p \in Turns
        /\ pc[p] = "merge" => seen[p] \in Nat
        /\ p \in Turns =>
              /\ pc[p] # "idle" => phase[p] \in Served
              /\ phase[p] \in Early => entries[p] = <<>>

Shape == TypeOK /\ PlaceInv

-----------------------------------------------------------------------------
(* Types.                                                                  *)

LEMMA Bounds ==
  /\ Recent \in Nat \ {0} /\ Limit \in Nat \ {0} /\ Gap \in Nat /\ Batch \in Nat \ {0}
  /\ MaxEntries \in Nat /\ MaxEvents \in Nat
BY ThreadConstants

LEMMA EventType == ASSUME TypeOK, Event PROVE events' \in 0..MaxEvents
BY Bounds DEF TypeOK, Event

LEMMA Made == ASSUME TypeOK, made < MaxEntries PROVE made + 1 \in Entries /\ made + 1 \in 0..MaxEntries
BY Bounds DEF TypeOK, Entries

\* What _normalize_history keeps is a history of at most Limit entries.
LEMMA NewestType ==
  ASSUME NEW h \in Seq(Entries) PROVE Newest(h) \in Seq(Entries) /\ Len(Newest(h)) <= Limit
<1>1. Limit \in Nat \ {0}
  BY Bounds
<1>2. CASE Len(h) <= Limit
  BY <1>2 DEF Newest
<1>3. CASE ~(Len(h) <= Limit)
  <2>1. Len(h) \in Nat /\ Len(h) - Limit + 1 \in 1..Len(h)
    BY <1>1, <1>3
  <2> QED BY <1>1, <1>3, <2>1 DEF Newest
<1> QED BY <1>2, <1>3

LEMMA ElemsType == ASSUME NEW S, NEW s \in Seq(S) PROVE Elems(s) \subseteq S
BY DEF Elems

\* The number of entries a reader takes for summarised.
LEMMA CoveredType == ASSUME TypeOK PROVE Covered \in 0..Len(history)
BY DEF TypeOK, Covered, Least

LEMMA ShapeInit == Init => Shape
<1> SUFFICES ASSUME Init PROVE Shape
  OBVIOUS
<1>1. Limit \in Nat \ {0} /\ MaxEntries \in Nat /\ MaxEvents \in Nat
  BY ThreadConstants
<1>2. <<>> \in Seq(Entries) /\ Len(<<>>) = 0
  OBVIOUS
<1>3. TypeOK
  <2>1. exists \in BOOLEAN /\ locked \in BOOLEAN
    BY DEF Init
  <2>2. history \in Seq(Entries) /\ Len(history) <= Limit /\ copy \in Seq(Entries)
    BY <1>1, <1>2 DEF Init
  <2>3. summary \subseteq Entries /\ through \in Nat
    BY DEF Init
  <2>4. phase \in [Turns -> Waiting \cup {"none", "lost", "pending", "ensure",
                                         "stuck", "broken", "over"}]
    BY DEF Init
  <2>5. entries \in [Turns -> Seq(Entries)]
    BY DEF Init
  <2>6. pc \in [Procs -> {"idle", "base", "ensure", "existing", "store",
                         "check", "read", "merge"}]
    BY DEF Init
  <2>7. base \in [Procs -> Seq(Entries)]
    BY DEF Init
  <2>8. seen \in [Procs -> Nat \cup {NoRow}]
    BY DEF Init
  <2>9. merged \in [Procs -> SUBSET Entries]
    BY DEF Init
  <2>10. made \in 0..MaxEntries /\ events \in 0..MaxEvents
    BY <1>1 DEF Init
  <2>11. saved \subseteq Entries /\ dirty \subseteq Procs
    BY DEF Init
  <2>12. excused \subseteq Entries /\ forgiven \subseteq Entries
    BY DEF Init
  <2> QED BY <2>1, <2>2, <2>3, <2>4, <2>5, <2>6, <2>7, <2>8, <2>9, <2>10, <2>11, <2>12 DEF TypeOK
<1>4. PlaceInv
  BY DEF Init, PlaceInv, Procs
<1> QED BY <1>3, <1>4 DEF Shape

LEMMA RestType ==
  ASSUME TypeOK, NEW p \in Procs, Rest(p)
  PROVE  /\ pc' = [pc EXCEPT ![p] = "idle"] /\ base' \in [Procs -> Seq(Entries)]
         /\ seen' \in [Procs -> Nat \cup {NoRow}] /\ merged' \in [Procs -> SUBSET Entries]
         /\ \A q \in Procs \ {p} : base'[q] = base[q] /\ seen'[q] = seen[q] /\ merged'[q] = merged[q]
BY DEF TypeOK, Rest, Goto

LEMMA AccountType ==
  ASSUME TypeOK, NEW p \in Procs, NEW h \in Seq(Entries), NEW th \in Nat,
         NEW sum \in SUBSET Entries, NEW kept \in SUBSET Entries, Account(p, h, th, sum, kept)
  PROVE  dirty' \subseteq Procs /\ excused' \subseteq Entries /\ forgiven' \subseteq Entries
<1>1. Least(th, Len(h)) \in 0..Len(h)
  BY DEF Least
<1>2. SubSeq(h, 1, Least(th, Len(h))) \in Seq(Entries)
  BY <1>1
<1>3. Elems(SubSeq(h, 1, Least(th, Len(h)))) \subseteq Entries
  BY <1>2, ElemsType
<1> QED BY <1>3 DEF Account, TypeOK

LEMMA ShapeWork == ASSUME Shape, NEW p \in Procs, Work(p) PROVE Shape'
<1> USE DEF Shape, TypeOK, PlaceInv, rowVars, ghostVars, Goto
<1>1. CASE ReadBase(p)
  BY <1>1 DEF ReadBase
<1>2. CASE ReadExisting(p)
  BY <1>2, CoveredType DEF ReadExisting
<1>3. CASE Store(p)
  <2> DEFINE h  == NewHistory(p)
             th == IF seen[p] = NoRow THEN 0 ELSE Least(seen[p], Len(h))
             s  == IF seen[p] = NoRow THEN {} ELSE summary
  <2>1. h \in Seq(Entries) /\ Len(h) <= Limit
    BY NewestType DEF NewHistory
  <2>2. th \in Nat /\ s \in SUBSET Entries
    <3> HIDE DEF h
    <3> QED BY <2>1 DEF Least
  <2> HIDE DEF h, th, s
  <2>3. saved' \subseteq Entries
    BY <1>3, ElemsType DEF Store
  <2>4. /\ exists' \in BOOLEAN /\ history' \in Seq(Entries) /\ Len(history') <= Limit
        /\ summary' \subseteq Entries /\ through' \in Nat
        /\ dirty' \subseteq Procs /\ excused' \subseteq Entries /\ forgiven' \subseteq Entries
    <3>1. CASE exists = (seen[p] # NoRow)
      <4>1. /\ exists' = TRUE /\ history' = h /\ through' = th /\ summary' = s
            /\ Account(p, h, th, s, saved')
        BY <1>3, <3>1 DEF Store, h, th, s
      <4> QED BY <2>1, <2>2, <2>3, <4>1, AccountType
    <3>2. CASE exists # (seen[p] # NoRow)
      BY <1>3, <3>2 DEF Store
    <3> QED BY <3>1, <3>2
  <2>5. entries' \in [Turns -> Seq(Entries)]
        /\ \A t \in Turns : entries[t] = <<>> => entries'[t] = <<>>
    BY <1>3 DEF Store
  <2>6. Rest(p)
    BY <1>3 DEF Store
  <2>7. /\ phase' \in [Turns -> Waiting \cup {"none", "lost", "pending", "ensure",
                                         "stuck", "broken", "over"}]
        /\ \A t \in Turns : phase'[t] = phase[t] \/ (t = p /\ phase'[t] = "broken")
    BY <1>3 DEF Store
  <2>8. copy' = copy /\ locked' = locked /\ made' = made /\ events' = events
    BY <1>3 DEF Store
  <2>9. TypeOK'
    BY <2>3, <2>4, <2>5, <2>6, <2>7, <2>8, RestType
  <2>10. PlaceInv'
    BY <2>5, <2>6, <2>7, RestType DEF Early
  <2> QED BY <2>9, <2>10
<1>4. CASE Check(p)
  BY <1>4, RestType DEF Check
<1>5. CASE Read(p)
  <2>1. CASE Rest(p) /\ UNCHANGED <<rowVars, phase, entries>>
    BY <1>5, <2>1, RestType DEF Read
  <2>2. CASE \E end \in Cuts(Len(history), Covered) :
               /\ seen' = [seen EXCEPT ![p] = end]
               /\ merged' = [merged EXCEPT ![p] =
                        Summarised(summary, SubSeq(history, Covered + 1, end))]
               /\ Goto(p, "merge") /\ UNCHANGED base
    <3>1. PICK end \in Cuts(Len(history), Covered) :
               /\ seen' = [seen EXCEPT ![p] = end]
               /\ merged' = [merged EXCEPT ![p] =
                        Summarised(summary, SubSeq(history, Covered + 1, end))]
               /\ Goto(p, "merge") /\ UNCHANGED base
      BY <2>2
    <3>2. end \in Nat /\ Covered + 1 \in Nat \ {0} /\ end <= Len(history)
      BY CoveredType, Bounds DEF Cuts
    <3>3. SubSeq(history, Covered + 1, end) \in Seq(Entries)
      BY <3>2
    <3>4. Summarised(summary, SubSeq(history, Covered + 1, end)) \in SUBSET Entries
      BY <3>3, ElemsType DEF Summarised
    <3> QED BY <1>5, <3>1, <3>2, <3>4 DEF Read
  <2> QED BY <1>5, <2>1, <2>2 DEF Read
<1>6. CASE Merge(p)
  <2>1. CASE exists
    <3>1. Account(p, history, seen[p], merged[p], saved) /\ seen[p] \in Nat
          /\ summary' = merged[p] /\ through' = seen[p]
      BY <1>6, <2>1 DEF Merge
    <3>2. dirty' \subseteq Procs /\ excused' \subseteq Entries /\ forgiven' \subseteq Entries
      BY <3>1, AccountType
    <3> QED BY <1>6, <3>1, <3>2 DEF Merge
  <2>2. CASE ~exists
    BY <1>6, <2>2 DEF Merge
  <2> QED BY <2>1, <2>2
<1> QED BY <1>1, <1>2, <1>3, <1>4, <1>5, <1>6 DEF Work

LEMMA ShapeTurn ==
  ASSUME Shape, NEW t \in Turns, Proceed(t) \/ Emit(t) \/ Cancelled(t) PROVE Shape'
<1> USE DEF Shape, TypeOK, PlaceInv, rowVars, workerVars, ghostVars, Goto, Enter, Release, Procs,
            Waiting, Early, Served
<1>1. CASE Prepare(t)   BY <1>1 DEF Prepare
<1>2. CASE Stream(t)    BY <1>2 DEF Stream
<1>3. CASE StreamEnd(t) BY <1>3 DEF StreamEnd
<1>4. CASE Persisted(t) BY <1>4 DEF Persisted
<1>5. CASE TurnEnd(t)   BY <1>5 DEF TurnEnd
<1>6. CASE Emit(t)
  <2>1. Append(entries[t], made + 1) \in Seq(Entries) /\ Append(copy, made + 1) \in Seq(Entries)
    BY <1>6, Made DEF Emit
  <2> QED BY <1>6, <2>1, Made DEF Emit
<1>7. CASE Cancelled(t)
  <2>1. pc' = pc \/ pc' = [pc EXCEPT ![t] = "idle"] \/ pc' = [pc EXCEPT ![t] = "base"]
    BY <1>7 DEF Cancelled
  <2>2. /\ phase' = [phase EXCEPT ![t] = "over"] \/ phase' = [phase EXCEPT ![t] = "broken"]
        /\ locked' \in BOOLEAN
    BY <1>7 DEF Cancelled
  <2> QED BY <1>7, <2>1, <2>2, EventType DEF Cancelled
<1> QED BY <1>1, <1>2, <1>3, <1>4, <1>5, <1>6, <1>7 DEF Proceed

LEMMA ShapeFails == ASSUME Shape, NEW p \in Procs, DatabaseFails(p) PROVE Shape'
<1> USE DEF Shape, TypeOK, PlaceInv, rowVars
<1>1. Rest(p) /\ events' \in 0..MaxEvents
  BY EventType DEF DatabaseFails
<1>2. /\ locked' \in BOOLEAN
      /\ phase' \in [Turns -> Waiting \cup {"none", "lost", "pending", "ensure",
                                         "stuck", "broken", "over"}]
      /\ \A t \in Turns : phase'[t] = phase[t] \/ (t = p /\ phase'[t] \in {"broken", "over"})
  BY DEF DatabaseFails, Enter, Release
<1>3. entries' \in [Turns -> Seq(Entries)]
      /\ \A t \in Turns : entries[t] = <<>> => entries'[t] = <<>>
  BY DEF DatabaseFails
<1>4. /\ UNCHANGED <<exists, history, summary, through, copy, made, saved, excused, forgiven>>
      /\ dirty' \subseteq Procs
  BY DEF DatabaseFails
<1>5. TypeOK'
  BY <1>1, <1>2, <1>3, <1>4, RestType
<1>6. ASSUME NEW q \in Procs
      PROVE  /\ pc'[q] = "base" => q \in Turns
             /\ pc'[q] = "merge" => seen'[q] \in Nat
             /\ q \in Turns => /\ pc'[q] # "idle" => phase'[q] \in Served
                               /\ phase'[q] \in Early => entries'[q] = <<>>
  <2>1. CASE q = p
    BY <1>1, <1>2, <1>3, <2>1, RestType DEF Early
  <2>2. CASE q # p
    <3>1. pc'[q] = pc[q] /\ seen'[q] = seen[q]
      BY <1>1, <2>2, RestType
    <3>2. q \in Turns => phase'[q] = phase[q] /\ (entries[q] = <<>> => entries'[q] = <<>>)
      BY <1>2, <1>3, <2>2
    <3> QED BY <3>1, <3>2
  <2> QED BY <2>1, <2>2
<1>7. PlaceInv'
  BY <1>6
<1> QED BY <1>5, <1>7

LEMMA ShapeChat ==
  ASSUME Shape, NEW t \in Chats, ChatStart(t) \/ Abandon(t) PROVE Shape'
<1> USE DEF Shape, TypeOK, PlaceInv, rowVars, workerVars, ghostVars, Enter, Turns, Procs,
            Waiting, Early, Served
<1>1. CASE ChatStart(t) BY <1>1 DEF ChatStart, Arrives
<1>2. CASE Abandon(t)   BY <1>2, EventType DEF Abandon
<1> QED BY <1>1, <1>2

LEMMA ShapeJob ==
  ASSUME Shape, NEW j \in Jobs, JobSpawn(j) \/ Stillborn(j) \/ JobBegin(j) PROVE Shape'
<1> USE DEF Shape, TypeOK, PlaceInv, rowVars, workerVars, ghostVars, Goto, Enter, Turns, Procs,
            Waiting, Early, Served
<1>1. CASE JobSpawn(j)  BY <1>1 DEF JobSpawn
<1>2. CASE Stillborn(j) BY <1>2, EventType DEF Stillborn
<1>3. CASE JobBegin(j)
  <2>1. made < MaxEntries => Append(history, made + 1) \in Seq(Entries)
    BY Made
  <2>2. /\ base' \in [Procs -> Seq(Entries)] /\ made' \in 0..MaxEntries
        /\ pc' = [pc EXCEPT ![j] = "idle"] \/ pc' = [pc EXCEPT ![j] = "existing"]
    <3>1. CASE Goto(j, "idle") /\ UNCHANGED <<base, made>>
      BY <3>1
    <3>2. CASE /\ made < MaxEntries /\ made' = made + 1
               /\ base' = [base EXCEPT ![j] = Append(history, made + 1)]
               /\ Goto(j, "existing")
      BY <2>1, <3>2, Made
    <3> QED BY <1>3, <3>1, <3>2 DEF JobBegin
  <2> QED BY <1>3, <2>2 DEF JobBegin
<1> QED BY <1>1, <1>2, <1>3

LEMMA ShapeOthers ==
  ASSUME Shape, (\E p \in Puts : Put(p) \/ ToolEntry(p)) \/ Delete \/ Restart PROVE Shape'
<1> USE DEF Shape, TypeOK, PlaceInv, rowVars, workerVars, ghostVars, Goto, Procs,
            Waiting, Early, Served
<1>1. ASSUME NEW p \in Puts, Put(p) PROVE Shape'
  <2>1. PICK h \in {copy, history} :
          \/ copy' = h /\ base' = [base EXCEPT ![p] = h] /\ UNCHANGED made
          \/ /\ made < MaxEntries /\ made' = made + 1
             /\ copy' = Append(h, made + 1)
             /\ base' = [base EXCEPT ![p] = Append(h, made + 1)]
    BY <1>1 DEF Put
  <2>2. h \in Seq(Entries) /\ (made < MaxEntries => Append(h, made + 1) \in Seq(Entries))
    BY Made
  <2>3. base' \in [Procs -> Seq(Entries)] /\ copy' \in Seq(Entries) /\ made' \in 0..MaxEntries
    BY <2>1, <2>2, Made
  <2>4. p \notin Turns /\ events' \in 0..MaxEvents
    BY <1>1, EventType, ThreadConstants DEF Put, Turns
  <2> QED BY <1>1, <2>3, <2>4 DEF Put
<1>2. CASE Delete
  <2>1. events' \in 0..MaxEvents /\ <<>> \in Seq(Entries) /\ Len(<<>>) <= Limit
    BY <1>2, EventType, Bounds DEF Delete
  <2> QED BY <1>2, <2>1 DEF Delete
<1>3. CASE Restart
  <2>1. events' \in 0..MaxEvents /\ <<>> \in Seq(Entries)
    BY <1>3, EventType DEF Restart
  <2>2. phase' \in [Turns -> {"none", "pending", "over"}]
    BY <1>3 DEF Restart
  <2> QED BY <1>3, <2>1, <2>2 DEF Restart
<1>4. ASSUME NEW p \in Puts, ToolEntry(p) PROVE Shape'
  <2>1. Append(history, made + 1) \in Seq(Entries) /\ made' \in 0..MaxEntries
    BY <1>4, Made DEF ToolEntry
  <2>2. p \notin Turns /\ events' \in 0..MaxEvents
    BY <1>4, EventType, ThreadConstants DEF ToolEntry, Turns
  <2> QED BY <1>4, <2>1, <2>2 DEF ToolEntry
<1> QED BY <1>1, <1>2, <1>3, <1>4

LEMMA ShapeStep == Shape /\ [Next]_vars => Shape'
<1>1. ASSUME Shape, UNCHANGED vars PROVE Shape'
  BY <1>1 DEF Shape, TypeOK, PlaceInv, vars, rowVars, workerVars, ghostVars
<1> QED BY <1>1, ShapeWork, ShapeFails, ShapeTurn, ShapeChat, ShapeJob, ShapeOthers DEF Next

\* The state is well formed (the row, the turns and the workers).
THEOREM TypeCorrect == Spec => []TypeOK
BY ShapeInit, ShapeStep, PTL DEF Spec, Shape

-----------------------------------------------------------------------------
(* One turn at a time.                                                     *)

OwnerInv == /\ \A t, u \in Turns : Live(t) /\ Live(u) => t = u
            /\ \A t \in Chats : Live(t) => locked

Owners == {t \in Turns : Live(t)}

LEMMA OwnerInit == Init => OwnerInv /\ Owner!Init
<1>1. ASSUME Init PROVE \A t \in Turns : ~Live(t)
  BY <1>1 DEF Init, Live, Waiting
<1> QED BY <1>1 DEF OwnerInv, Owner!Init, Turns

\* A route lets a turn in when nobody has the thread: the lock and the jobs
\* of the table together say so.
LEMMA OwnerTake ==
  ASSUME Shape, OwnerInv, NEW t \in Turns,
         (t \in Chats /\ ChatStart(t)) \/ (t \in Jobs /\ JobSpawn(t))
  PROVE  OwnerInv' /\ Owner!Take(t)
<1>1. \A u \in Turns : ~Live(u)
  BY DEF OwnerInv, ChatStart, JobSpawn, ActiveJob, Turns
<1>2. \A u \in Turns : Live(u)' <=> u = t
  BY <1>1 DEF Shape, TypeOK, ChatStart, JobSpawn, Enter, Live, Waiting
<1>3. t \in Chats => locked'
  BY ThreadConstants DEF ChatStart, JobSpawn
<1>4. \A u \in Chats : u = t => t \in Chats
  OBVIOUS
<1> QED BY <1>1, <1>2, <1>3, <1>4 DEF OwnerInv, Owner!Take, Turns

\* A turn that goes on, or ends.
LEMMA OwnerStays ==
  ASSUME Shape, OwnerInv, NEW t \in Turns, Live(t),
         \A u \in Turns \ {t} : phase'[u] = phase[u],
         \/ phase[t]' = "over" /\ (locked' = locked \/ t \in Chats)
         \/ phase[t]' # "over" /\ Live(t)' /\ locked' = locked
  PROVE  OwnerInv' /\ [Owner!Next]_Owners
<1>1. \A u \in Turns : Live(u) <=> u = t
  BY DEF OwnerInv
<1>2. \A u \in Turns \ {t} : ~Live(u)'
  BY <1>1 DEF Live
<1>3. CASE Live(t)'
  <2>1. Owners' = Owners
    BY <1>1, <1>2, <1>3 DEF Owners
  <2>2. locked' = locked
    BY <1>3 DEF Live, Waiting
  <2> QED BY <1>1, <1>2, <2>1, <2>2 DEF OwnerInv, Turns
<1>4. CASE ~Live(t)'
  <2>1. Owners' = {}
    BY <1>2, <1>4 DEF Owners
  <2>2. Owner!Free
    BY <2>1 DEF Owner!Free, Owners
  <2> QED BY <1>2, <1>4, <2>2 DEF OwnerInv, Turns, Owner!Next
<1> QED BY <1>3, <1>4

LEMMA OwnerTurn ==
  ASSUME Shape, OwnerInv, NEW t \in Turns, Proceed(t) \/ Emit(t) \/ Cancelled(t)
  PROVE  OwnerInv' /\ [Owner!Next]_Owners
<1> USE DEF Shape, TypeOK, Enter, Release, Live, Waiting, workerVars
<1>1. Live(t)
  BY DEF Proceed, Prepare, Stream, StreamEnd, Persisted, TurnEnd, Emit, Cancelled
<1>2. /\ \A u \in Turns \ {t} : phase'[u] = phase[u]
      /\ \/ phase[t]' = "over" /\ (locked' = locked \/ t \in Chats)
         \/ phase[t]' # "over" /\ Live(t)' /\ locked' = locked
  <2>1. CASE Prepare(t)   BY <2>1 DEF Prepare
  <2>2. CASE Stream(t)    BY <2>2 DEF Stream
  <2>3. CASE StreamEnd(t) BY <2>3 DEF StreamEnd
  <2>4. CASE Persisted(t) BY <2>4 DEF Persisted
  <2>5. CASE TurnEnd(t)   BY <2>5 DEF TurnEnd
  <2>6. CASE Emit(t)      BY <2>6 DEF Emit
  <2>7. CASE Cancelled(t)
    <3>1. \A u \in Turns \ {t} : phase'[u] = phase[u]
      BY <2>7 DEF Cancelled
    <3>2. CASE phase' = [phase EXCEPT ![t] = "over"]
      BY <2>7, <3>1, <3>2 DEF Cancelled
    <3>3. CASE t \in Jobs /\ phase' = [phase EXCEPT ![t] = "broken"]
      <4>1. locked' = locked
        BY <2>7, <3>3, ThreadConstants DEF Cancelled
      <4> QED BY <3>1, <3>3, <4>1
    <3> QED BY <2>7, <3>2, <3>3 DEF Cancelled
  <2> QED BY <2>1, <2>2, <2>3, <2>4, <2>5, <2>6, <2>7 DEF Proceed
<1> HIDE DEF Shape, TypeOK, Enter, Release, Live, Waiting, workerVars
<1> QED BY <1>1, <1>2, OwnerStays

LEMMA OwnerJobs ==
  ASSUME Shape, OwnerInv, NEW t \in Turns,
         (t \in Chats /\ Abandon(t)) \/ (t \in Jobs /\ (Stillborn(t) \/ JobBegin(t)))
  PROVE  OwnerInv' /\ [Owner!Next]_Owners
<1> USE DEF Shape, TypeOK, Enter, Live, Waiting, Abandon, Stillborn, JobBegin
<1>1. Live(t)
  OBVIOUS
<1>2. /\ \A u \in Turns \ {t} : phase'[u] = phase[u]
      /\ phase[t]' # "over" /\ Live(t)' /\ locked' = locked
  OBVIOUS
<1> HIDE DEF Shape, TypeOK, Enter, Live, Waiting, Abandon, Stillborn, JobBegin
<1> QED BY <1>1, <1>2, OwnerStays

\* Workers, browsers and deletions leave the turns alone.
LEMMA OwnerRest ==
  ASSUME OwnerInv, UNCHANGED <<phase, locked>>
  PROVE  OwnerInv' /\ UNCHANGED Owners
BY DEF OwnerInv, Live, Owners

\* A restart ends the chats and queues the jobs that were live.
LEMMA OwnerRestart ==
  ASSUME Shape, OwnerInv, Restart
  PROVE  OwnerInv' /\ [Owner!Next]_Owners
<1>1. \A u \in Turns : Live(u)' <=> u \in Jobs /\ Live(u)
  BY DEF Restart, Live, Waiting, Shape, TypeOK
<1>2. OwnerInv'
  BY <1>1, ThreadConstants DEF OwnerInv, Turns
<1>3. CASE \E u \in Jobs : Live(u)
  <2>1. Owners' = Owners
    BY <1>1, <1>3 DEF OwnerInv, Turns, Owners
  <2> QED BY <1>2, <2>1
<1>4. CASE \A u \in Jobs : ~Live(u)
  <2>1. Owners' = {}
    BY <1>1, <1>4 DEF Owners
  <2> QED BY <1>2, <2>1 DEF Owner!Next, Owner!Free, Owners
<1> QED BY <1>3, <1>4

\* A job whose store of the user's message raises keeps the thread.
LEMMA OwnerWork ==
  ASSUME Shape, OwnerInv, NEW p \in Procs, Work(p)
  PROVE  OwnerInv' /\ [Owner!Next]_Owners
<1>1. CASE Store(p) /\ Clash(p) /\ p \in Jobs /\ phase[p] = "ensure"
  <2>1. p \in Turns /\ Live(p) /\ phase' = [phase EXCEPT ![p] = "broken"] /\ locked' = locked
    BY <1>1 DEF Store, Live, Turns
  <2>2. /\ \A u \in Turns \ {p} : phase'[u] = phase[u]
        /\ phase'[p] = "broken" /\ Live(p)'
    BY <2>1 DEF Shape, TypeOK, Live
  <2> QED BY <2>1, <2>2, OwnerStays
<1>2. CASE ~(Store(p) /\ Clash(p) /\ p \in Jobs /\ phase[p] = "ensure")
  <2>1. UNCHANGED <<phase, locked>>
    BY <1>2 DEF Work, ReadBase, ReadExisting, Store, Check, Read, Merge
  <2> QED BY <2>1, OwnerRest
<1> QED BY <1>1, <1>2

LEMMA OwnerFails ==
  ASSUME Shape, OwnerInv, NEW p \in Procs, DatabaseFails(p)
  PROVE  OwnerInv' /\ [Owner!Next]_Owners
<1>1. CASE UNCHANGED <<phase, locked>>
  BY <1>1, OwnerRest
<1>2. CASE p \in Turns /\ phase[p] \in Waiting /\ Enter(p, "over") /\ Release(p)
  <2>1. Live(p) /\ \A u \in Turns \ {p} : phase'[u] = phase[u]
    BY <1>2 DEF Live, Enter, Shape, TypeOK
  <2>2. phase'[p] = "over" /\ (locked' = locked \/ p \in Chats)
    BY <1>2 DEF Enter, Release, Shape, TypeOK
  <2> QED BY <1>2, <2>1, <2>2, OwnerStays
<1>3. CASE p \in Jobs /\ Live(p) /\ Enter(p, "broken") /\ UNCHANGED locked
  <2>1. p \in Turns /\ \A u \in Turns \ {p} : phase'[u] = phase[u]
    BY <1>3 DEF Enter, Shape, TypeOK, Turns
  <2>2. phase'[p] = "broken" /\ Live(p)'
    BY <1>3, <2>1 DEF Enter, Shape, TypeOK, Live
  <2> QED BY <1>3, <2>1, <2>2, OwnerStays
<1> QED BY <1>1, <1>2, <1>3 DEF DatabaseFails, Waiting

LEMMA OwnerStep ==
  ASSUME Shape, OwnerInv, [Next]_vars
  PROVE  OwnerInv' /\ [Owner!Next]_Owners
<1>2. ASSUME (\E p \in Puts : Put(p) \/ ToolEntry(p)) \/ Delete PROVE UNCHANGED <<phase, locked>>
  BY <1>2 DEF Put, ToolEntry, Delete
<1>3. UNCHANGED vars => UNCHANGED <<phase, locked>>
  BY DEF vars
<1>4. CASE UNCHANGED <<phase, locked>>
  BY <1>4, OwnerRest
<1>5. ASSUME NEW t \in Turns, (t \in Chats /\ ChatStart(t)) \/ (t \in Jobs /\ JobSpawn(t))
      PROVE  OwnerInv' /\ [Owner!Next]_Owners
  BY <1>5, OwnerTake DEF Owner!Next
<1> QED
  BY <1>2, <1>3, <1>4, <1>5, OwnerWork, OwnerFails, OwnerTurn, OwnerJobs, OwnerRestart
  DEF Next, Turns

\* The routes' two marks, the end of a turn on every way out of it and the
\* restart together let one turn at a time have the thread.
THEOREM OwnerImplemented == Spec => ImplementsThreadOwner
<1>1. Init => Shape /\ OwnerInv /\ Owner!Init
  BY ShapeInit, OwnerInit
<1>2. Shape /\ [Next]_vars => Shape'
  BY ShapeStep
<1>3. Shape /\ OwnerInv /\ [Next]_vars => OwnerInv' /\ [Owner!Next]_Owners
  BY OwnerStep
<1> QED BY <1>1, <1>2, <1>3, PTL DEF Spec, ImplementsThreadOwner, Owner!Spec, Owners

-----------------------------------------------------------------------------
(* What a worker has read is still in the row.                             *)

\* The entries the summary should hold and does not.
Below(h, th, sum) == Elems(SubSeq(h, 1, Least(th, Len(h)))) \ sum

Prefix(s, t) == Len(s) <= Len(t) /\ \A i \in 1..Len(s) : t[i] = s[i]

\* A live turn whose worker no foreign write has overtaken.
Clean(t) == phase[t] # "over" /\ t \notin dirty

CleanAt(t) ==
    /\ pc[t] \in {"existing", "store"} => Prefix(history, base[t])
    /\ pc[t] = "store" => seen[t] = (IF exists THEN Covered ELSE NoRow)
    /\ pc[t] = "merge" =>
          /\ seen[t] \in Covered..Len(history)
          /\ summary \subseteq merged[t]
          /\ \A i \in (Covered + 1)..seen[t] : history[i] \in merged[t]

CleanInv == \A t \in Turns : Clean(t) => CleanAt(t)

\* An append holds the entries of its turn.
EntriesInv ==
    \A t \in Turns : pc[t] \in {"existing", "store"} => Elems(entries[t]) \subseteq Elems(base[t])

RowInv ==
    /\ ~exists => history = <<>>
    /\ saved \subseteq Elems(history) \cup excused
    /\ Below(history, through, summary) \subseteq forgiven

Inv == Shape /\ OwnerInv /\ EntriesInv /\ CleanInv /\ RowInv

LEMMA ElemsOfSub ==
  ASSUME NEW h \in Seq(Entries), NEW m \in Nat \ {0}, NEW n \in Nat, n <= Len(h)
  PROVE  Elems(SubSeq(h, m, n)) = {h[i] : i \in m..n}
<1>1. Len(SubSeq(h, m, n)) = (IF m <= n THEN n - m + 1 ELSE 0) /\ SubSeq(h, m, n) \in Seq(Entries)
  OBVIOUS
<1>2. \A i \in 1..Len(SubSeq(h, m, n)) : SubSeq(h, m, n)[i] = h[m + i - 1]
  OBVIOUS
<1>3. \A i \in m..n : i - m + 1 \in 1..Len(SubSeq(h, m, n)) /\ SubSeq(h, m, n)[i - m + 1] = h[i]
  BY <1>1, <1>2
<1>4. \A i \in 1..Len(SubSeq(h, m, n)) : m + i - 1 \in m..n
  BY <1>1
<1>5. DOMAIN SubSeq(h, m, n) = 1..Len(SubSeq(h, m, n))
  BY <1>1
<1>6. Elems(SubSeq(h, m, n)) \subseteq {h[i] : i \in m..n}
  BY <1>2, <1>4, <1>5 DEF Elems
<1>7. \A i \in m..n : h[i] \in Elems(SubSeq(h, m, n))
  BY <1>3, <1>5 DEF Elems
<1> QED BY <1>6, <1>7

LEMMA BelowIs ==
  ASSUME NEW h \in Seq(Entries), NEW th \in Nat, NEW sum
  PROVE  Below(h, th, sum) = {h[i] : i \in 1..Least(th, Len(h))} \ sum
<1>1. Least(th, Len(h)) \in Nat /\ Least(th, Len(h)) <= Len(h)
  BY DEF Least
<1> QED BY <1>1, ElemsOfSub DEF Below

LEMMA ElemsOfConcat ==
  ASSUME NEW s \in Seq(Entries), NEW t \in Seq(Entries)
  PROVE  /\ Elems(s) \subseteq Elems(s \o t) /\ Elems(t) \subseteq Elems(s \o t)
         /\ Prefix(s, s \o t)
<1>1. s \o t \in Seq(Entries) /\ Len(s \o t) = Len(s) + Len(t)
  OBVIOUS
<1>2. \A i \in 1..Len(s) : (s \o t)[i] = s[i]
  OBVIOUS
<1>3. \A i \in 1..Len(t) : Len(s) + i \in 1..Len(s \o t) /\ (s \o t)[Len(s) + i] = t[i]
  BY <1>1
<1>4. DOMAIN (s \o t) = 1..Len(s \o t) /\ DOMAIN s = 1..Len(s) /\ DOMAIN t = 1..Len(t)
  BY <1>1
<1>5. \A i \in DOMAIN s : s[i] \in Elems(s \o t)
  BY <1>1, <1>2, <1>4 DEF Elems
<1>6. \A i \in DOMAIN t : t[i] \in Elems(s \o t)
  BY <1>3, <1>4 DEF Elems
<1>7. Elems(s) \subseteq Elems(s \o t) /\ Elems(t) \subseteq Elems(s \o t)
  BY <1>5, <1>6 DEF Elems
<1>8. Prefix(s, s \o t)
  BY <1>1, <1>2 DEF Prefix
<1> QED BY <1>7, <1>8

LEMMA ElemsOfPrefix ==
  ASSUME NEW s \in Seq(Entries), NEW t \in Seq(Entries), Prefix(s, t)
  PROVE  Elems(s) \subseteq Elems(t)
BY DEF Elems, Prefix

\* Two workers of live turns are one.
LEMMA Alone ==
  ASSUME Shape, OwnerInv, NEW p \in Procs, pc[p] # "idle", ~Foreign(p),
         NEW t \in Turns, pc[t] # "idle", phase[t] # "over"
  PROVE  p = t
<1>1. p \in Turns /\ phase[p] # "over"
  BY DEF Foreign, Procs
<1>2. Live(p) /\ Live(t)
  BY <1>1 DEF Shape, TypeOK, PlaceInv, Served, Live, Waiting, Procs
<1> QED BY <1>1, <1>2 DEF OwnerInv

\* After a write of p nobody else is clean and at work.
LEMMA OthersDirty ==
  ASSUME Shape, OwnerInv, NEW p \in Procs, pc[p] # "idle",
         NEW h, NEW th, NEW sum, NEW kept, Account(p, h, th, sum, kept),
         NEW t \in Turns, t # p, pc[t] # "idle", phase[t] # "over"
  PROVE  t \in dirty'
<1>1. Foreign(p)
  BY Alone
<1> QED BY <1>1 DEF Account, Procs

LEMMA InvInit == Init => Inv
<1> SUFFICES ASSUME Init PROVE Inv
  OBVIOUS
<1>1. EntriesInv /\ CleanInv
  BY DEF Init, EntriesInv, CleanInv, CleanAt, Procs
<1>2. Below(history, through, summary) = {}
  <2>1. history \in Seq(Entries) /\ through \in Nat
    BY ShapeInit DEF Shape, TypeOK
  <2>2. Below(history, through, summary) = {history[i] : i \in 1..Least(through, Len(history))} \ summary
    BY <2>1, BelowIs
  <2>3. 1..Least(through, Len(history)) = {}
    BY <2>1 DEF Init, Least
  <2> QED BY <2>2, <2>3
<1>3. RowInv
  BY <1>2 DEF Init, RowInv
<1> QED BY <1>1, <1>3, ShapeInit, OwnerInit DEF Inv

\* The steps that write neither the row nor what a worker holds.
LEMMA RestKeeps ==
  ASSUME Inv, Shape', OwnerInv', UNCHANGED <<exists, history, summary, through, saved, excused, forgiven>>,
         UNCHANGED <<base, seen, merged, dirty>>,
         \A t \in Turns :
            /\ pc[t]' \in {"existing", "store"} => pc[t]' = pc[t] /\ entries[t]' = entries[t]
            /\ pc[t]' = "merge" => pc[t]' = pc[t]
            /\ pc[t]' # "idle" /\ phase[t]' # "over" => phase[t] # "over"
  PROVE  Inv'
<1>1. EntriesInv'
  BY DEF Inv, EntriesInv
<1>2. CleanInv'
  BY DEF Inv, CleanInv, CleanAt, Clean, Covered
<1>3. RowInv'
  BY DEF Inv, RowInv
<1> QED BY <1>1, <1>2, <1>3 DEF Inv

LEMMA InvTurn ==
  ASSUME Inv, Shape', OwnerInv', NEW t \in Turns, Proceed(t) \/ Emit(t) \/ Cancelled(t)
  PROVE  Inv'
<1> USE DEF rowVars, workerVars, ghostVars, Goto, Enter
<1>1. /\ UNCHANGED <<exists, history, summary, through, saved, excused, forgiven>>
      /\ UNCHANGED <<base, seen, merged, dirty>>
  <2>1. CASE Proceed(t)
    BY <2>1 DEF Proceed, Prepare, Stream, StreamEnd, Persisted, TurnEnd
  <2> QED BY <2>1 DEF Emit, Cancelled
<1>2. \A u \in Turns \ {t} : pc[u]' = pc[u] /\ entries[u]' = entries[u] /\ phase[u]' = phase[u]
  <2> USE DEF Inv, Shape, TypeOK, Procs
  <2>1. CASE Proceed(t)
    BY <2>1 DEF Proceed, Prepare, Stream, StreamEnd, Persisted, TurnEnd
  <2> QED BY <2>1 DEF Emit, Cancelled
<1>3. /\ pc[t]' \in {"existing", "store"} => pc[t]' = pc[t] /\ entries[t]' = entries[t]
      /\ pc[t]' = "merge" => pc[t]' = pc[t]
      /\ phase[t] # "over"
  <2> USE DEF Inv, Shape, TypeOK, PlaceInv, Procs, Served
  <2>1. CASE Proceed(t)
    BY <2>1 DEF Proceed, Prepare, Stream, StreamEnd, Persisted, TurnEnd
  <2> QED BY <2>1 DEF Emit, Cancelled
<1> QED BY <1>1, <1>2, <1>3, RestKeeps

\* A worker that reads: the row stays, and what it has read is in it.
LEMMA InvRead ==
  ASSUME Inv, Shape', OwnerInv', NEW p \in Procs,
         ReadBase(p) \/ ReadExisting(p) \/ Check(p) \/ Read(p)
  PROVE  Inv'
<1> USE DEF rowVars, ghostVars, Goto
<1>1. UNCHANGED <<exists, history, summary, through, saved, excused, forgiven, phase, entries>>
  BY DEF ReadBase, ReadExisting, Check, Read
<1>2. RowInv'
  BY <1>1 DEF Inv, RowInv
<1>3. \A t \in Turns \ {p} :
         /\ pc[t]' = pc[t] /\ base[t]' = base[t] /\ seen[t]' = seen[t] /\ merged[t]' = merged[t]
         /\ t \in dirty' <=> t \in dirty
  <2> USE DEF Inv, Shape, TypeOK, Procs, Rest
  <2>1. CASE ReadBase(p)     BY <2>1 DEF ReadBase
  <2>2. CASE ReadExisting(p) BY <2>2 DEF ReadExisting
  <2>3. CASE Check(p)        BY <2>3 DEF Check
  <2>4. CASE Read(p)         BY <2>4 DEF Read
  <2> QED BY <2>1, <2>2, <2>3, <2>4
<1>4. \A t \in Turns \ {p} : Clean(t)' => CleanAt(t)'
  BY <1>1, <1>3 DEF Inv, CleanInv, Clean, CleanAt, Covered
<1>5. \A t \in Turns \ {p} :
         pc[t]' \in {"existing", "store"} => Elems(entries[t])' \subseteq Elems(base[t])'
  BY <1>1, <1>3 DEF Inv, EntriesInv
<1>6. CASE ReadBase(p)
  <2>1. p \in Turns /\ history \in Seq(Entries) /\ entries[p] \in Seq(Entries)
    BY <1>6 DEF ReadBase, Inv, Shape, TypeOK, PlaceInv
  <2>2. base[p]' = history \o entries[p] /\ pc[p]' = "existing"
    BY <1>6 DEF ReadBase, Inv, Shape, TypeOK
  <2>3. Elems(entries[p])' \subseteq Elems(base[p])' /\ Prefix(history, base[p])'
    BY <1>1, <2>1, <2>2, ElemsOfConcat
  <2>4. CleanAt(p)'
    BY <2>2, <2>3 DEF CleanAt
  <2> QED BY <1>2, <1>4, <1>5, <2>3, <2>4 DEF Inv, EntriesInv, CleanInv
<1>7. CASE ReadExisting(p)
  <2>1. /\ pc[p] = "existing" /\ pc[p]' = "store" /\ base' = base /\ dirty' = dirty
        /\ seen[p]' = (IF exists THEN Covered ELSE NoRow)
    BY <1>7 DEF ReadExisting, Inv, Shape, TypeOK
  <2>2. ASSUME p \in Turns, Clean(p)' PROVE CleanAt(p)'
    BY <1>1, <2>1, <2>2 DEF Inv, CleanInv, Clean, CleanAt, Covered
  <2>3. ASSUME p \in Turns PROVE Elems(entries[p])' \subseteq Elems(base[p])'
    BY <1>1, <2>1, <2>3 DEF Inv, EntriesInv
  <2> QED BY <1>2, <1>4, <1>5, <2>2, <2>3 DEF Inv, EntriesInv, CleanInv
<1>8. CASE pc[p]' \in {"idle", "read"}
  <2>1. CleanAt(p)'
    BY <1>8 DEF CleanAt
  <2> QED BY <1>2, <1>4, <1>5, <1>8, <2>1 DEF Inv, EntriesInv, CleanInv
<1>9. CASE Read(p) /\ pc[p]' \notin {"idle", "read"}
  <2>1. PICK end \in Cuts(Len(history), Covered) :
          /\ seen' = [seen EXCEPT ![p] = end]
          /\ merged' = [merged EXCEPT ![p] =
                   Summarised(summary, SubSeq(history, Covered + 1, end))]
          /\ Goto(p, "merge")
    BY <1>9 DEF Read, Rest, Inv, Shape, TypeOK
  <2>2. /\ history \in Seq(Entries) /\ Covered \in 0..Len(history)
        /\ end \in Nat /\ Covered + 1 \in Nat \ {0} /\ end >= Covered /\ end <= Len(history)
    <3>1. history \in Seq(Entries) /\ Len(history) \in Nat /\ Covered \in 0..Len(history)
      BY CoveredType DEF Inv, Shape, TypeOK
    <3>2. end \in Covered + 1 .. Len(history) - Recent
      BY DEF Cuts
    <3> HIDE DEF Covered
    <3> QED BY <3>1, <3>2, Bounds
  <2>3. /\ pc[p]' = "merge" /\ seen[p]' = end
        /\ merged[p]' = summary \cup {history[i] : i \in (Covered + 1)..end}
    BY <2>1, <2>2, ElemsOfSub DEF Inv, Shape, TypeOK, Summarised
  <2>4. Covered' = Covered
    BY <1>1 DEF Covered
  <2>5. CleanAt(p)'
    BY <1>1, <2>2, <2>3, <2>4 DEF CleanAt
  <2> QED BY <1>2, <1>4, <1>5, <2>3, <2>5 DEF Inv, EntriesInv, CleanInv
<1>10. ASSUME Check(p) \/ Read(p) PROVE Read(p) \/ pc[p]' \in {"idle", "read"}
  BY <1>10 DEF Check, Rest, Inv, Shape, TypeOK
<1> QED BY <1>6, <1>7, <1>8, <1>9, <1>10

\* A write keeps the row's invariant: what a foreign, overtaken or cut one
\* leaves out is excused, and any other leaves nothing out.
LEMMA AccountKeeps ==
  ASSUME NEW p \in Procs, NEW h, NEW th, NEW sum, NEW kept, Account(p, h, th, sum, kept),
         Foreign(p) \/ p \in dirty \/ Cut(p) \/
            (kept \subseteq Elems(h) \cup excused /\ Below(h, th, sum) \subseteq forgiven)
  PROVE  kept \subseteq Elems(h) \cup excused' /\ Below(h, th, sum) \subseteq forgiven'
BY DEF Account, Below

LEMMA InvMerge ==
  ASSUME Inv, Shape', OwnerInv', NEW p \in Procs, Merge(p)
  PROVE  Inv'
<1> USE DEF rowVars, ghostVars, Goto
<1>1. /\ pc[p] = "merge" /\ pc[p]' = "check"
      /\ UNCHANGED <<exists, history, phase, entries, base, saved>>
      /\ \A t \in Procs \ {p} : pc[t]' = pc[t] /\ seen[t]' = seen[t] /\ merged[t]' = merged[t]
  BY DEF Merge, Inv, Shape, TypeOK
<1>2. EntriesInv'
  BY <1>1 DEF Inv, EntriesInv, Procs
<1>3. CASE exists
  <2>1. /\ summary' = merged[p] /\ through' = seen[p]
        /\ Account(p, history, seen[p], merged[p], saved)
    BY <1>3 DEF Merge
  <2>2. ASSUME NEW t \in Turns \ {p}, Clean(t)' PROVE CleanAt(t)'
    <3>1. CASE pc[t] = "idle"
      BY <1>1, <3>1 DEF CleanAt, Procs
    <3>2. CASE pc[t] # "idle"
      BY <1>1, <2>1, <2>2, <3>2, OthersDirty DEF Clean, Inv
    <3> QED BY <3>1, <3>2
  <2>3. CleanInv'
    BY <1>1, <2>2 DEF CleanInv, CleanAt
  <2>4. history \in Seq(Entries) /\ through \in Nat /\ seen[p] \in Nat
    BY <1>1 DEF Inv, Shape, TypeOK, PlaceInv
  <2>5. ASSUME ~Foreign(p), p \notin dirty PROVE Below(history, seen[p], merged[p]) \subseteq forgiven
    <3>1. /\ seen[p] \in Covered..Len(history) /\ summary \subseteq merged[p]
          /\ \A i \in (Covered + 1)..seen[p] : history[i] \in merged[p]
      BY <1>1, <2>5 DEF Inv, CleanInv, Clean, CleanAt, Foreign, Procs
    <3>2. Below(history, seen[p], merged[p]) = {history[i] : i \in 1..seen[p]} \ merged[p]
      BY <2>4, <3>1, BelowIs DEF Least
    <3>3. Below(history, through, summary) = {history[i] : i \in 1..Covered} \ summary
      BY <2>4, BelowIs DEF Covered
    <3>4. Covered \in Nat
      BY CoveredType DEF Inv, Shape
    <3>5. ASSUME NEW i \in 1..seen[p], history[i] \notin merged[p]
          PROVE  history[i] \in forgiven
      <4> HIDE DEF Covered
      <4>1. i \in 1..Covered /\ history[i] \notin summary
        BY <2>4, <3>1, <3>4, <3>5
      <4> QED BY <3>3, <4>1 DEF Inv, RowInv
    <3> QED BY <3>2, <3>5
  <2>6. saved \subseteq Elems(history) \cup excused
    BY DEF Inv, RowInv
  <2>7. saved \subseteq Elems(history) \cup excused' /\ Below(history, seen[p], merged[p]) \subseteq forgiven'
    BY <2>1, <2>5, <2>6, AccountKeeps
  <2>8. RowInv'
    BY <1>1, <1>3, <2>1, <2>7 DEF RowInv
  <2> QED BY <1>2, <2>3, <2>8 DEF Inv
<1>4. CASE ~exists
  <2>1. UNCHANGED <<summary, through, excused, forgiven>> /\ dirty' = dirty \ {p}
    BY <1>4 DEF Merge
  <2>2. RowInv'
    BY <1>1, <2>1 DEF Inv, RowInv
  <2>3. CleanInv'
    BY <1>1, <2>1 DEF Inv, CleanInv, Clean, CleanAt, Covered, Procs
  <2> QED BY <1>2, <2>2, <2>3 DEF Inv
<1> QED BY <1>3, <1>4

LEMMA InvStore ==
  ASSUME Inv, Shape', OwnerInv', NEW p \in Procs, Store(p)
  PROVE  Inv'
<1> USE DEF rowVars, ghostVars, Goto, Rest
<1>1. /\ pc[p] = "store" /\ pc[p]' = "idle"
      /\ \A t \in Turns \ {p} : phase[t]' = phase[t]
      /\ \A t \in Procs \ {p} : /\ pc[t]' = pc[t] /\ base[t]' = base[t]
                               /\ seen[t]' = seen[t] /\ merged[t]' = merged[t]
      /\ \A t \in Turns \ {p} : entries[t]' = entries[t]
  BY DEF Store, Inv, Shape, TypeOK
<1>2. EntriesInv'
  BY <1>1 DEF Inv, EntriesInv, Procs
<1>3. CASE exists = (seen[p] # NoRow)
  <2> DEFINE h  == NewHistory(p)
             th == IF seen[p] = NoRow THEN 0 ELSE Least(seen[p], Len(h))
             s  == IF seen[p] = NoRow THEN {} ELSE summary
  <2>1. /\ exists' = TRUE /\ history' = h /\ through' = th /\ summary' = s
        /\ saved' = (IF p \in Turns THEN saved \cup Elems(entries[p]) ELSE saved)
        /\ Account(p, h, th, s, saved')
    BY <1>3 DEF Store
  <2>2. ASSUME NEW t \in Turns \ {p}, Clean(t)' PROVE CleanAt(t)'
    <3> HIDE DEF h, th, s
    <3>1. CASE pc[t] = "idle"
      BY <1>1, <3>1 DEF CleanAt, Procs
    <3>2. CASE pc[t] # "idle"
      BY <1>1, <2>1, <2>2, <3>2, OthersDirty DEF Clean, Inv
    <3> QED BY <3>1, <3>2
  <2>3. CleanInv'
    BY <1>1, <2>2 DEF CleanInv, CleanAt
  <2>4. ASSUME ~Foreign(p), p \notin dirty, ~Cut(p)
        PROVE  saved' \subseteq Elems(h) \cup excused /\ Below(h, th, s) \subseteq forgiven
    <3>1. p \in Turns /\ CleanAt(p)
      BY <2>4 DEF Foreign, Inv, CleanInv, Clean, Procs
    <3>2. /\ base[p] \in Seq(Entries) /\ history \in Seq(Entries) /\ through \in Nat
          /\ Covered \in 0..Len(history)
      BY CoveredType DEF Inv, Shape, TypeOK
    <3>3. h = base[p]
      BY <2>4, <3>2, Bounds DEF NewHistory, Newest, Cut
    <3> HIDE DEF h
    <3>4. /\ Prefix(history, h) /\ seen[p] = (IF exists THEN Covered ELSE NoRow)
      BY <1>1, <3>1, <3>3 DEF CleanAt
    <3>5. Elems(history) \subseteq Elems(h) /\ Elems(entries[p]) \subseteq Elems(h)
      BY <1>1, <3>1, <3>2, <3>3, <3>4, ElemsOfPrefix DEF Inv, EntriesInv
    <3>6. saved' \subseteq Elems(h) \cup excused
      BY <2>1, <3>5 DEF Inv, RowInv
    <3>7. th \in Nat /\ th <= Covered /\ th <= Len(h)
      <4> HIDE DEF Covered
      <4> QED BY <3>2, <3>3, <3>4 DEF Least, Prefix, NoRow
    <3>8. Below(h, th, s) = {h[i] : i \in 1..th} \ s
      <4> HIDE DEF th, s
      <4>1. Least(th, Len(h)) = th
        BY <3>2, <3>3, <3>7 DEF Least
      <4> QED BY <3>2, <3>3, <3>7, <4>1, BelowIs
    <3>9. Below(history, through, summary) = {history[i] : i \in 1..Covered} \ summary
      BY <3>2, BelowIs DEF Covered
    <3>10. ASSUME NEW i \in 1..th, h[i] \notin s PROVE h[i] \in forgiven
      <4>1. seen[p] # NoRow
        BY <3>2, <3>10
      <4>2. h[i] \notin summary
        BY <3>10, <4>1
      <4> HIDE DEF th, s, Covered
      <4>3. i \in 1..Covered /\ i \in 1..Len(history)
        BY <3>2, <3>7, <3>10
      <4>4. h[i] = history[i]
        BY <3>4, <4>3 DEF Prefix
      <4> QED BY <3>9, <4>2, <4>3, <4>4 DEF Inv, RowInv
    <3> QED BY <3>6, <3>8, <3>10
  <2> HIDE DEF h, th, s
  <2>5. saved' \subseteq Elems(h) \cup excused' /\ Below(h, th, s) \subseteq forgiven'
    BY <2>1, <2>4, AccountKeeps
  <2>6. RowInv'
    BY <2>1, <2>5 DEF RowInv
  <2> QED BY <1>2, <2>3, <2>6 DEF Inv
<1>4. CASE exists # (seen[p] # NoRow)
  <2>1. /\ UNCHANGED <<exists, history, summary, through, saved, excused, forgiven>>
        /\ dirty' = dirty \ {p}
    BY <1>4 DEF Store
  <2>2. RowInv'
    BY <1>1, <2>1 DEF Inv, RowInv
  <2>3. \A t \in Turns \ {p} : Clean(t)' => CleanAt(t)'
    BY <1>1, <2>1 DEF Inv, CleanInv, Clean, CleanAt, Covered, Procs
  <2>4. CleanInv'
    BY <1>1, <2>3 DEF CleanInv, CleanAt
  <2> QED BY <1>2, <2>2, <2>4 DEF Inv
<1> QED BY <1>3, <1>4

\* What a failing database leaves: a worker less, and the row as it was.
LEMMA InvFails ==
  ASSUME Inv, Shape', OwnerInv', NEW p \in Procs, DatabaseFails(p) PROVE Inv'
<1>1. /\ UNCHANGED <<exists, history, summary, through, saved, excused, forgiven>>
      /\ dirty' = dirty \ {p} /\ pc[p]' = "idle"
  BY DEF DatabaseFails, Rest, Goto, rowVars, Inv, Shape, TypeOK
<1>2. \A t \in Turns \ {p} :
         /\ pc[t]' = pc[t] /\ base[t]' = base[t] /\ seen[t]' = seen[t] /\ merged[t]' = merged[t]
         /\ phase[t]' = phase[t] /\ entries[t]' = entries[t]
  BY DEF DatabaseFails, Rest, Goto, Enter, Inv, Shape, TypeOK, Procs
<1>3. RowInv'
  BY <1>1 DEF Inv, RowInv
<1>4. \A t \in Turns \ {p} :
         /\ Clean(t)' => CleanAt(t)'
         /\ pc[t]' \in {"existing", "store"} => Elems(entries[t])' \subseteq Elems(base[t])'
  BY <1>1, <1>2 DEF Inv, CleanInv, Clean, CleanAt, Covered, EntriesInv
<1> QED BY <1>1, <1>3, <1>4 DEF Inv, CleanInv, CleanAt, EntriesInv

LEMMA InvRoutes ==
  ASSUME Inv, Shape', OwnerInv', NEW t \in Turns,
         \/ t \in Chats /\ (ChatStart(t) \/ Abandon(t))
         \/ t \in Jobs /\ (JobSpawn(t) \/ Stillborn(t))
  PROVE  Inv'
<1>1. /\ UNCHANGED <<exists, history, summary, through, saved, excused, forgiven>>
      /\ UNCHANGED <<base, seen, merged, dirty>> /\ UNCHANGED <<pc, entries>>
  BY DEF ChatStart, Abandon, JobSpawn, Stillborn, rowVars, workerVars, ghostVars
<1>2. \A u \in Turns : phase[u]' # phase[u] => phase[u] # "over"
  BY DEF ChatStart, Abandon, JobSpawn, Stillborn, Arrives, Enter, Inv, Shape, TypeOK
<1> QED BY <1>1, <1>2, RestKeeps

\* The job appends the user's message to the history it has just read.
LEMMA InvBegin ==
  ASSUME Inv, Shape', OwnerInv', NEW j \in Jobs, JobBegin(j) PROVE Inv'
<1> USE DEF rowVars, Goto, Enter
<1>1. /\ UNCHANGED <<exists, history, summary, through, saved, excused, forgiven>>
      /\ UNCHANGED <<seen, merged, entries>> /\ dirty' = dirty \ {j}
      /\ phase[j] = "pending" /\ j \in Turns /\ j \in Procs
      /\ \A t \in Turns \ {j} : phase[t]' = phase[t]
      /\ \A t \in Turns \ {j} : pc[t]' = pc[t] /\ base[t]' = base[t]
  BY DEF JobBegin, Inv, Shape, TypeOK, Turns, Procs
<1>2. RowInv'
  BY <1>1 DEF Inv, RowInv
<1>3. \A t \in Turns \ {j} :
         /\ Clean(t)' => CleanAt(t)'
         /\ pc[t]' \in {"existing", "store"} => Elems(entries[t])' \subseteq Elems(base[t])'
  BY <1>1 DEF Inv, CleanInv, Clean, CleanAt, Covered, EntriesInv
<1>4. CASE pc[j]' = "idle"
  BY <1>1, <1>2, <1>3, <1>4 DEF Inv, CleanInv, CleanAt, EntriesInv
<1>5. CASE pc[j]' # "idle"
  <2>1. /\ pc[j]' = "existing" /\ base[j]' = Append(history, made + 1) /\ made + 1 \in Entries
    BY <1>5, Made DEF JobBegin, Inv, Shape, TypeOK, Turns, Procs
  <2>2. entries[j] = <<>> /\ history \in Seq(Entries)
    BY <1>1 DEF Inv, Shape, TypeOK, PlaceInv, Early
  <2>3. Prefix(history, base[j]')
    BY <2>1, <2>2 DEF Prefix
  <2>4. Elems(entries[j]) = {}
    BY <2>2 DEF Elems
  <2>5. CleanAt(j)'
    BY <1>1, <2>1, <2>3 DEF CleanAt
  <2> QED BY <1>1, <1>2, <1>3, <2>4, <2>5 DEF Inv, CleanInv, EntriesInv
<1> QED BY <1>4, <1>5

LEMMA InvOthers ==
  ASSUME Inv, Shape', OwnerInv', (\E p \in Puts : Put(p) \/ ToolEntry(p)) \/ Delete \/ Restart
  PROVE  Inv'
<1> USE DEF rowVars, workerVars, ghostVars, Goto
<1>1. ASSUME NEW p \in Puts, Put(p) \/ ToolEntry(p) PROVE Inv'
  <2>1. p \notin Turns
    BY ThreadConstants DEF Turns
  <2>2. /\ UNCHANGED <<exists, history, summary, through, saved, excused, forgiven>>
        /\ UNCHANGED <<seen, merged, entries, dirty, phase>>
        /\ \A t \in Turns : pc[t]' = pc[t] /\ base[t]' = base[t]
    BY <1>1, <2>1 DEF Put, ToolEntry, Inv, Shape, TypeOK, Procs
  <2>3. RowInv'
    BY <2>2 DEF Inv, RowInv
  <2>4. CleanInv' /\ EntriesInv'
    BY <2>2 DEF Inv, CleanInv, Clean, CleanAt, Covered, EntriesInv
  <2> QED BY <2>3, <2>4 DEF Inv
<1>2. CASE Delete
  <2>1. EntriesInv'
    BY <1>2 DEF Delete, Inv, EntriesInv
  <2>2. CleanInv'
    BY <1>2 DEF Delete, CleanInv, Clean, CleanAt, Procs
  <2>3. Below(history, through, summary)' = {}
    <3>1. history' \in Seq(Entries) /\ through' \in Nat
      BY DEF Shape, TypeOK
    <3>2. Below(history', through', summary')
            = {history'[i] : i \in 1..Least(through', Len(history'))} \ summary'
      BY <3>1, BelowIs
    <3>3. 1..Least(through', Len(history')) = {}
      BY <1>2, <3>1 DEF Delete, Least
    <3> QED BY <3>2, <3>3
  <2>4. RowInv'
    BY <1>2, <2>3 DEF Delete, RowInv
  <2> QED BY <2>1, <2>2, <2>4 DEF Inv
<1>3. CASE Restart
  <2>1. \A t \in Turns : pc[t]' = "idle"
    BY <1>3 DEF Restart, Procs
  <2>2. RowInv'
    BY <1>3 DEF Restart, Inv, RowInv
  <2> QED BY <2>1, <2>2 DEF Inv, CleanInv, CleanAt, EntriesInv
<1> QED BY <1>1, <1>2, <1>3

LEMMA InvStep == Inv /\ [Next]_vars => Inv'
<1> SUFFICES ASSUME Inv, [Next]_vars PROVE Inv'
  OBVIOUS
<1>1. Shape' /\ OwnerInv'
  BY ShapeStep, OwnerStep DEF Inv
<1>2. CASE UNCHANGED vars
  <2>1. UNCHANGED <<exists, history, summary, through, saved, excused, forgiven, base, seen,
                    merged, dirty, pc, entries, phase>>
    BY <1>2 DEF vars, rowVars, workerVars, ghostVars
  <2> QED BY <1>1, <2>1, RestKeeps
<1>3. ASSUME NEW p \in Procs, Work(p) PROVE Inv'
  BY <1>1, <1>3, InvRead, InvStore, InvMerge DEF Work
<1>4. ASSUME NEW t \in Chats, ChatStart(t) \/ Abandon(t) PROVE Inv'
  BY <1>1, <1>4, InvRoutes DEF Turns
<1>5. ASSUME NEW j \in Jobs, JobSpawn(j) \/ Stillborn(j) \/ JobBegin(j) PROVE Inv'
  BY <1>1, <1>5, InvRoutes, InvBegin DEF Turns
<1>6. ASSUME NEW p \in Procs, DatabaseFails(p) PROVE Inv'
  BY <1>1, <1>6, InvFails
<1> QED BY <1>1, <1>2, <1>3, <1>4, <1>5, <1>6, InvTurn, InvOthers DEF Next

\* What a turn stored leaves the history only by a write that no live turn
\* awaits, one it overtook, the cut, or the deletion: turns never lose each
\* other's entries (append_pi_thread_history_entries, upsert_pi_thread).
THEOREM EntriesKept == Spec => []NothingLost
<1>1. Inv => NothingLost
  BY DEF Inv, RowInv, NothingLost
<1> QED BY <1>1, InvInit, InvStep, PTL DEF Spec

-----------------------------------------------------------------------------
(* The context of the model.                                               *)

LEMMA ForgottenBelow ==
  ASSUME NEW h \in Seq(Entries), NEW th \in Nat, NEW sum
  PROVE  Forgotten(h, th, sum) \subseteq Below(h, th, sum)
<1>1. \A k \in DOMAIN h : k <= th => k \in 1..Least(th, Len(h))
  BY DEF Least
<1> QED BY <1>1, BelowIs DEF Forgotten

\* Every entry is in a tier of the context, but for those a foreign, overtaken
\* or cut write pushed below the position (build_llm_messages).
THEOREM ContextKept == Spec => []ContextComplete
<1>1. Inv => ContextComplete
  <2> SUFFICES ASSUME Inv PROVE ContextComplete
    OBVIOUS
  <2>1. history \in Seq(Entries) /\ through \in Nat /\ Covered \in 0..Len(history)
    BY CoveredType DEF Inv, Shape, TypeOK
  <2>2. Least(Covered, Len(history)) = Covered
    <3> HIDE DEF Covered
    <3> QED BY <2>1 DEF Least
  <2>3. Below(history, Covered, summary) = Below(history, through, summary)
    BY <2>2 DEF Below, Covered
  <2>4. Forgotten(history, Covered, summary) \subseteq Below(history, Covered, summary)
    <3> HIDE DEF Covered
    <3> QED BY <2>1, ForgottenBelow
  <2> QED BY <2>3, <2>4 DEF Inv, RowInv, ContextComplete
<1> QED BY <1>1, InvInit, InvStep, PTL DEF Spec

\* A branch misses only what lies between the parent's position and the cut
\* (fork_pi_thread).
THEOREM BranchesHold == Spec => []BranchForgets
<1>1. Inv => BranchForgets
  <2> SUFFICES ASSUME Inv, NEW end \in 0..Len(history)
               PROVE  Forgotten(SubSeq(history, 1, end), BranchThrough(end), BranchSummary(end))
                        \subseteq forgiven \cup (IF end < Len(history)
                                 THEN Elems(SubSeq(history, Covered + 1, end - Recent))
                                 ELSE {})
    BY DEF BranchForgets
  <2> DEFINE branch == SubSeq(history, 1, end)
  <2>1. /\ history \in Seq(Entries) /\ through \in Nat /\ Covered \in 0..Len(history)
        /\ Len(history) \in Nat /\ end \in Nat /\ Recent \in Nat \ {0}
    BY CoveredType, Bounds DEF Inv, Shape, TypeOK
  <2>2. /\ branch \in Seq(Entries) /\ Len(branch) = end
        /\ \A i \in 1..end : branch[i] = history[i]
    <3> HIDE DEF Covered
    <3> QED BY <2>1
  <2>3. Below(history, through, summary) = {history[i] : i \in 1..Covered} \ summary
    BY <2>1, BelowIs DEF Covered
  <2>4. \A i \in 1..Covered : history[i] \in summary \cup forgiven
    BY <2>3 DEF Inv, RowInv
  <2> HIDE DEF Covered, branch
  <2>5. CASE end < Len(history)
    <3>1. BranchThrough(end) = end
      BY <2>5 DEF BranchThrough
    <3>2. ASSUME NEW k \in 1..end, k <= end - Recent, branch[k] \notin BranchSummary(end)
          PROVE  branch[k] \in forgiven \cup Elems(SubSeq(history, Covered + 1, end - Recent))
      <4>1. end # 0 /\ summary \subseteq BranchSummary(end)
        BY <2>1, <3>1, <3>2 DEF BranchSummary
      <4>2. branch[k] = history[k]
        BY <2>2
      <4>3. CASE k <= Covered
        BY <2>1, <2>4, <3>2, <4>1, <4>2, <4>3
      <4>4. CASE ~(k <= Covered)
        <5>1. k \in (Covered + 1)..(end - Recent) /\ end - Recent \in Nat
              /\ end - Recent <= Len(history) /\ Covered + 1 \in Nat \ {0}
          BY <2>1, <3>2, <4>4
        <5>2. Elems(SubSeq(history, Covered + 1, end - Recent))
                = {history[i] : i \in (Covered + 1)..(end - Recent)}
          BY <2>1, <5>1, ElemsOfSub
        <5> QED BY <4>2, <5>1, <5>2
      <4> QED BY <4>3, <4>4
    <3>3. DOMAIN branch = 1..end
      BY <2>2
    <3> QED BY <2>2, <2>5, <3>1, <3>2, <3>3 DEF Forgotten, branch
  <2>6. CASE ~(end < Len(history))
    <3>1. end = Len(history) /\ BranchThrough(end) = Covered
      BY <2>1, <2>6 DEF BranchThrough, Least
    <3>2. ASSUME NEW k \in 1..end, k <= Covered, branch[k] \notin BranchSummary(end)
          PROVE  branch[k] \in forgiven
      <4>1. summary \subseteq BranchSummary(end)
        BY <2>1, <3>1, <3>2 DEF BranchSummary
      <4> QED BY <2>1, <2>2, <2>4, <3>2, <4>1
    <3>3. DOMAIN branch = 1..end
      BY <2>2
    <3> QED BY <2>2, <2>6, <3>1, <3>2, <3>3 DEF Forgotten, branch
  <2> QED BY <2>5, <2>6
<1> QED BY <1>1, InvInit, InvStep, PTL DEF Spec
=============================================================================
