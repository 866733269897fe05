-------------------------- MODULE AgentTurnProofs --------------------------
(***************************************************************************)
(* Proofs about AgentTurn: that every request is well formed and complete, *)
(* that the guardrails hold over the whole turn, and that what the reader  *)
(* sees is a TurnStream, but for the end that comes (which is fairness).   *)
(*                                                                         *)
(* PlaceInv says what each place of the loop finds; MessageInv that the    *)
(* messages are whole between the rounds, and how far the answers to the   *)
(* last assistant message have come within one; GuardInv what the turn has *)
(* run so far.                                                             *)
(***************************************************************************)
EXTENDS AgentTurn, TLAPS, FiniteSetTheorems, SequenceTheorems, WellFoundedInduction

Named == {Parse(raw) : raw \in RawCalls} \cup {"discover_leads", "list_contacts"}
Placed == Nat \X Nat
Execution == [name : Named, call : Placed]
MaxOpen == Max({MaxBatch, MaxQueries})

Between == {"start", "round", "ask", "wait", "summary"}
Within == {"screen", "all", "each", "gather"}

Increasing(s) == \A i, j \in DOMAIN s : i < j => s[i] < s[j]

Shape ==
    /\ turn \in AskedTurns
    /\ pc \in Between \cup Within \cup {"over"}
    /\ round \in 0..(MaxRounds - 1) /\ asks \in 0..MaxAsks /\ nudges \in 0..MaxNudges
    /\ recovered \in BOOLEAN /\ force \in BOOLEAN /\ stopAsked \in BOOLEAN
    /\ messages \in Seq(Message)
    /\ batch \in Seq(Named) /\ Len(batch) <= MaxOpen
    /\ allowed \in Seq(Nat) /\ executed \in Seq(Execution)
    /\ open \subseteq Placed /\ running \subseteq open
    /\ ending \in {"none", "reply", "error", "stopped", "left"}
    /\ ending = "none" <=> pc # "over"

\* What each place of the loop finds: the calls that wait, and those that are
\* announced.
PlaceInv ==
    /\ \A k \in DOMAIN allowed : allowed[k] \in DOMAIN batch
    /\ Increasing(allowed)
    /\ pc = "start" => executed = <<>>
    /\ pc \in Between => batch = <<>>
    /\ pc \in Between \cup {"screen"} => allowed = <<>> /\ open = {}
    /\ pc = "all" => allowed # <<>> /\ open = {}
    /\ pc = "gather" => open = Calls(allowed)
    /\ pc = "each" /\ open # {} =>
          /\ allowed # <<>> /\ open = {Call(Head(allowed))}
          /\ executed # <<>>
          /\ executed[Len(executed)] = [name |-> batch[Head(allowed)], call |-> Call(Head(allowed))]

\* The tool messages of message i follow it, each once.
Block(m, i) ==
    LET n == Cardinality(m[i].calls) IN
    /\ IsFiniteSet(m[i].calls) /\ i + n <= Len(m)
    /\ \A j \in (i + 1)..(i + n) : \E c \in m[i].calls : m[j] = ToolMessage(c)
    /\ \A c \in m[i].calls : \E j \in (i + 1)..(i + n) : m[j] = ToolMessage(c)

Whole(m) == \A i \in DOMAIN m : m[i].role = "assistant" => Block(m, i)

Once(m) == \A i, j \in DOMAIN m : m[i].role = "tool" /\ m[i] = m[j] => i = j

\* The calls up to message n are of earlier rounds.
Past(m, n, r) == \A i \in 1..n : \A c \in m[i].calls : c[1] < r

CallsOf(r, n) == {<<r, i>> : i \in 1..n}
AnswersTo(r, s) == [k \in 1..Len(s) |-> ToolMessage(<<r, s[k]>>)]

\* Message p is the last of an assistant, with the calls 1..n of round r; the
\* calls in A have their tool messages, which follow it.
Half(m, p, r, n, A) ==
    /\ m[p] = Assistant(CallsOf(r, n))
    /\ \A i \in 1..(p - 1) : m[i].role = "assistant" => Block(m, i)
    /\ Past(m, p - 1, r)
    /\ Len(m) = p + Cardinality(A)
    /\ \A j \in (p + 1)..Len(m) : \E i \in A : m[j] = ToolMessage(<<r, i>>)
    /\ \A i \in A : \E j \in (p + 1)..Len(m) : m[j] = ToolMessage(<<r, i>>)

\* The calls of the batch that have their tool message.
Answered == IF pc = "screen" THEN {} ELSE (1..Len(batch)) \ ToSet(allowed)

MessageInv ==
    /\ pc \in Between => Whole(messages)
    /\ pc \in Between \cup Within => Once(messages)
    /\ pc \in Between \ {"summary"} => Past(messages, Len(messages), round)
    /\ pc \in Within => \E p \in 1..Len(messages) : Half(messages, p, round, Len(batch), Answered)

\* What ran is before the model, but for the one that runs.
RanInv ==
    pc # "over" => \A k \in DOMAIN executed :
        \/ executed[k].call \in dropped
        \/ \E i \in DOMAIN messages : messages[i] = ToolMessage(executed[k].call)
        \/ pc = "each" /\ open = {executed[k].call}

BudgetInv ==
    /\ \A k \in DOMAIN executed : RoundOf(k) <= round
    /\ BudgetKept
    /\ pc \in Within \ {"screen"} /\ allowed # <<>> /\ Len(executed) >= ToolBudget =>
          RoundOf(ToolBudget) = round

\* After a lead search the round is the last.
SearchInv ==
    \A j \in DOMAIN executed : executed[j].name = "discover_leads" =>
        /\ RoundOf(j) = round
        /\ pc \in {"each", "gather", "summary", "over"}
        /\ pc = "gather" => force
        /\ pc = "each" => force \/ (open # {} /\ batch[Head(allowed)] = "discover_leads")

LookInv ==
    turn.asn => /\ LookupOnly
                /\ \A k \in DOMAIN allowed : batch[allowed[k]] = "lookup_asns"

GuardInv == BudgetInv /\ SearchInv /\ LookInv

Inv == Shape /\ PlaceInv /\ MessageInv /\ RanInv /\ GuardInv

-----------------------------------------------------------------------------
(* Lemmas about the operators.                                             *)

LEMMA Bounds ==
  /\ AskedTurns \subseteq Turns /\ MaxRounds \in Nat \ {0} /\ MaxAsks \in Nat \ {0}
  /\ ToolBudget \in Nat \ {0} /\ MaxBatch \in Nat \ {0} /\ MaxQueries \in Nat \ {0}
  /\ MaxNudges \in Nat
BY TurnAssumption

LEMMA MaxOpenIs == MaxOpen \in Nat \ {0} /\ MaxBatch <= MaxOpen /\ MaxQueries <= MaxOpen
<1>1. \E x \in {MaxBatch, MaxQueries} : \A y \in {MaxBatch, MaxQueries} : x >= y
  BY Bounds
<1>2. /\ MaxOpen \in {MaxBatch, MaxQueries}
      /\ \A y \in {MaxBatch, MaxQueries} : MaxOpen >= y
  BY <1>1 DEF MaxOpen, Max
<1> QED BY <1>2, Bounds

LEMMA LeastNat ==
  ASSUME NEW S, S \subseteq Nat, S # {} PROVE \E a \in S : \A b \in S : a <= b
<1> DEFINE Below == {ss \in Nat \X Nat : ss[1] < ss[2]}
<1>1. IsWellFoundedOn(Below, Nat)
  BY NatLessThanWellFounded DEF OpToRel
<1>2. PICK a \in S : \A b \in S : ~(<<b, a>> \in Below)
  <2> HIDE DEF Below
  <2> QED BY <1>1, WFMin
<1>3. \A b \in S : ~(b < a)
  BY <1>2
<1> QED BY <1>3

Ordered(S) == \E s \in [1..Cardinality(S) -> S] : Increasing(s)

LEMMA PartOfInterval ==
  ASSUME NEW n \in Nat, NEW S \in SUBSET (1..n)
  PROVE  IsFiniteSet(S) /\ Cardinality(S) \in Nat /\ Cardinality(S) <= n
<1>1. IsFiniteSet(1..n) /\ Cardinality(1..n) = n
  BY FS_Interval
<1>2. IsFiniteSet(S) /\ Cardinality(S) <= Cardinality(1..n)
  BY <1>1, FS_Subset
<1> QED BY <1>1, <1>2, FS_CardinalityType

\* Every set of places has an order: the least interval with a set that had
\* none would owe it to its last place.
LEMMA OrderExists ==
  ASSUME NEW n \in Nat, NEW S \in SUBSET (1..n) PROVE Ordered(S)
<1> DEFINE Bad == {k \in Nat : \E T \in SUBSET (1..k) : ~Ordered(T)}
<1>1. SUFFICES ASSUME Bad # {} PROVE FALSE
  OBVIOUS
<1>2. PICK m \in Bad : \A k \in Bad : m <= k
  <2>1. Bad \subseteq Nat
    OBVIOUS
  <2> HIDE DEF Bad
  <2> QED BY <1>1, <2>1, LeastNat
<1>3. PICK T \in SUBSET (1..m) : ~Ordered(T)
  OBVIOUS
<1>4. CASE m = 0
  <2>1. T = {}
    BY <1>4
  <2>2. Cardinality(T) = 0
    BY <2>1, FS_EmptySet
  <2>3. <<>> \in [1..Cardinality(T) -> T]
    BY <2>2
  <2>4. Increasing(<<>>)
    BY DEF Increasing
  <2> QED BY <1>3, <2>3, <2>4 DEF Ordered
<1>5. CASE m # 0
  <2> DEFINE U == T \ {m}
             c == Cardinality(U)
  <2>1. m \in Nat /\ m - 1 \in Nat /\ ~(m <= m - 1) /\ U \in SUBSET (1..(m - 1))
    BY <1>5
  <2>2. Ordered(U)
    <3> HIDE DEF U
    <3> QED BY <1>2, <2>1
  <2>3. PICK u \in [1..c -> U] : Increasing(u)
    BY <2>2 DEF Ordered
  <2>4. c \in Nat
    <3> HIDE DEF U
    <3> QED BY <2>1, PartOfInterval
  <2>5. CASE m \notin T
    <3>1. U = T
      BY <2>5
    <3> QED BY <1>3, <2>2, <3>1
  <2>6. CASE m \in T
    <3> DEFINE s == [k \in 1..(c + 1) |-> IF k = c + 1 THEN m ELSE u[k]]
    <3>1. Cardinality(T) = c + 1
      <4>1. IsFiniteSet(T) /\ Cardinality(T) \in Nat
        BY PartOfInterval
      <4>2. Cardinality(T \ {m}) = Cardinality(T) - 1
        BY <2>6, <4>1, FS_RemoveElement
      <4> QED BY <4>1, <4>2
    <3>2. \A k \in 1..c : u[k] \in Nat /\ u[k] < m /\ u[k] \in T
      <4>1. \A k \in 1..c : u[k] \in U /\ u[k] \in T
        BY <2>3
      <4> HIDE DEF U, c
      <4>2. \A x \in U : x \in Nat /\ x < m
        BY <2>1
      <4> QED BY <4>1, <4>2
    <3> HIDE DEF U, c
    <3>3. s \in [1..Cardinality(T) -> T]
      BY <2>4, <2>6, <3>1, <3>2
    <3>4. Increasing(s)
      <4> SUFFICES ASSUME NEW i \in 1..(c + 1), NEW j \in 1..(c + 1), i < j PROVE s[i] < s[j]
        BY DEF Increasing
      <4>1. CASE j = c + 1
        BY <2>4, <3>2, <4>1
      <4>2. CASE j # c + 1
        <5>1. i \in DOMAIN u /\ j \in DOMAIN u
          BY <2>4, <2>3, <4>2
        <5> QED BY <2>3, <2>4, <4>2, <5>1 DEF Increasing
      <4> QED BY <4>1, <4>2
    <3> QED BY <1>3, <3>3, <3>4 DEF Ordered
  <2> QED BY <2>5, <2>6
<1> QED BY <1>4, <1>5

\* The places of a set in their order: each once.
LEMMA InOrderIs ==
  ASSUME NEW n \in Nat, NEW S \in SUBSET (1..n)
  PROVE  /\ InOrder(S) \in Seq(Nat) /\ Len(InOrder(S)) = Cardinality(S)
         /\ Increasing(InOrder(S)) /\ ToSet(InOrder(S)) = S
         /\ Cardinality(S) \in Nat
<1> DEFINE s == InOrder(S)
           c == Cardinality(S)
<1>1. s \in [1..c -> S] /\ Increasing(s)
  BY OrderExists DEF InOrder, Ordered, Increasing
<1>2. c \in Nat /\ IsFiniteSet(S) /\ S \subseteq Nat
  BY PartOfInterval
<1> HIDE DEF s, c
<1>3. s \in Seq(Nat) /\ Len(s) = c /\ \A i \in 1..c : s[i] \in Nat
  <2>1. s \in [1..c -> Nat]
    BY <1>1, <1>2
  <2> QED BY <1>2, <2>1
<1>4. \A i, j \in 1..c : s[i] = s[j] => i = j
  <2> SUFFICES ASSUME NEW i \in 1..c, NEW j \in 1..c, s[i] = s[j] PROVE i = j
    OBVIOUS
  <2>1. s[i] \in Nat /\ ~(s[i] < s[j]) /\ ~(s[j] < s[i])
    BY <1>3
  <2>2. ~(i < j) /\ ~(j < i)
    BY <1>1, <2>1 DEF Increasing
  <2> QED BY <1>2, <2>2
<1>5. s \in Injection(1..c, S)
  BY <1>1, <1>4 DEF Injection, IsInjective
<1>6. Cardinality(1..c) = c
  BY <1>2, FS_Interval
<1>7. s \in Surjection(1..c, S)
  BY <1>2, <1>5, <1>6, FS_Injection DEF c
<1>8. ToSet(s) = S
  BY <1>1, <1>7 DEF ToSet, Surjection
<1> QED BY <1>1, <1>2, <1>3, <1>8 DEF s, c

-----------------------------------------------------------------------------
(* Lemmas about the decisions.                                             *)

Batches == {names \in Seq(Named) : Len(names) <= MaxOpen}

Decided(d, tried) ==
    \/ d = Retry /\ tried < MaxNudges
    \/ d = Fail
    \/ d = Final
    \/ \E names \in Batches : d = Use(names)

LEMMA PrepareType ==
  ASSUME NEW calls \in Seq(RawCalls), Len(calls) <= MaxBatch
  PROVE  Prepare(calls) \in Batches
<1> DEFINE S == {i \in DOMAIN calls : Parse(calls[i]) # "unknown"}
           named == InOrder(S)
<1>1. Len(calls) \in Nat /\ DOMAIN calls = 1..Len(calls)
  OBVIOUS
<1>2. S \in SUBSET (1..Len(calls))
  BY <1>1
<1>3. /\ named \in Seq(Nat) /\ Len(named) = Cardinality(S) /\ ToSet(named) = S
      /\ Cardinality(S) \in Nat /\ Cardinality(S) <= Len(calls)
  <2> HIDE DEF S
  <2> QED BY <1>1, <1>2, InOrderIs, PartOfInterval
<1>4. Prepare(calls) = [k \in 1..Len(named) |-> Parse(calls[named[k]])]
  BY <1>3 DEF Prepare
<1>5. \A k \in 1..Len(named) : Parse(calls[named[k]]) \in Named
  <2> SUFFICES ASSUME NEW k \in 1..Len(named) PROVE Parse(calls[named[k]]) \in Named
    OBVIOUS
  <2>1. named[k] \in S
    <3> HIDE DEF named, S
    <3> QED BY <1>3 DEF ToSet
  <2>2. calls[named[k]] \in RawCalls
    BY <1>1, <2>1
  <2> QED BY <2>2 DEF Named
<1>6. Len(named) \in Nat
  BY <1>3
<1> HIDE DEF named, S
<1>7. Prepare(calls) \in [1..Len(named) -> Named]
  BY <1>4, <1>5
<1>8. Prepare(calls) \in Seq(Named) /\ Len(Prepare(calls)) = Len(named)
  BY <1>6, <1>7
<1> QED BY <1>3, <1>8, MaxOpenIs, Bounds DEF Batches

LEMMA FallbackType ==
  ASSUME NEW asked \in Turns
  PROVE  FallbackCalls(asked) \in Batches
<1>1. {"discover_leads", "list_contacts"} \subseteq Named
  BY DEF Named
<1>2. 1 <= MaxOpen /\ MaxOpen \in Nat
  BY MaxOpenIs
<1>3. <<"discover_leads">> \in Batches /\ <<"list_contacts">> \in Batches
  BY <1>1, <1>2 DEF Batches
<1> DEFINE n == AtMost(Queries(asked.words), MaxQueries)
<1>4. Queries(asked.words) \in Nat
  BY DEF Queries
<1>5. n \in Nat /\ n <= MaxOpen
  <2> HIDE DEF n
  <2>1. n = IF Queries(asked.words) < MaxQueries THEN Queries(asked.words) ELSE MaxQueries
    BY DEF n, AtMost
  <2> QED BY <1>4, <2>1, MaxOpenIs, Bounds
<1>6. [i \in 1..n |-> "list_contacts"] \in Batches
  <2> HIDE DEF n
  <2>1. [i \in 1..n |-> "list_contacts"] \in [1..n -> Named]
    BY <1>1
  <2> QED BY <1>5, <2>1 DEF Batches
<1>7. \/ FallbackCalls(asked) = <<"discover_leads">>
      \/ FallbackCalls(asked) = <<"list_contacts">>
      \/ FallbackCalls(asked) = [i \in 1..n |-> "list_contacts"]
  <2>1. CASE Continuable(asked)
    BY <2>1 DEF FallbackCalls, Continuable
  <2>2. CASE ~Continuable(asked) /\ Continues(asked)
    BY <2>2 DEF FallbackCalls, Continuable
  <2>3. CASE ~Continues(asked)
    BY <2>3 DEF FallbackCalls, Continuable
  <2> QED BY <2>1, <2>2, <2>3
<1> QED BY <1>3, <1>6, <1>7

LEMMA DecideCallsType ==
  ASSUME NEW reply, NEW calls \in Seq(RawCalls), NEW asked \in Turns, NEW tried \in Nat,
         Len(calls) <= MaxBatch,
         reply.written \in Seq(RawCalls), Len(reply.written) <= MaxBatch
  PROVE  Decided(DecideCalls(reply, calls, asked, tried), tried)
<1>1. Inline(reply) \in Seq(RawCalls) /\ Len(Inline(reply)) <= MaxBatch
  <2>1. CASE Inline(reply) = <<>>
    BY <2>1, Bounds
  <2>2. CASE Inline(reply) # <<>>
    <3>1. Inline(reply) = <<reply.written[1]>> /\ reply.written # <<>>
      BY <2>2 DEF Inline
    <3>2. reply.written[1] \in RawCalls
      BY <3>1
    <3> QED BY <3>1, <3>2, Bounds
  <2> QED BY <2>1, <2>2
<1> DEFINE tries == <<Prepare(calls), Prepare(reply.written), Prepare(Inline(reply))>>
           S == {k \in DOMAIN tries : tries[k] # <<>>}
           good == InOrder(S)
<1>2. \A k \in 1..3 : tries[k] \in Batches
  <2>1. Prepare(calls) \in Batches
    BY PrepareType
  <2>2. Prepare(reply.written) \in Batches
    BY PrepareType
  <2>3. Prepare(Inline(reply)) \in Batches
    BY <1>1, PrepareType
  <2> QED BY <2>1, <2>2, <2>3
<1>3. S \in SUBSET (1..3)
  OBVIOUS
<1>4. good \in Seq(Nat) /\ ToSet(good) = S
  <2> HIDE DEF S
  <2> QED BY <1>3, InOrderIs
<1>5. DecideCalls(reply, calls, asked, tried) =
        IF good # <<>> THEN Use(tries[good[1]])
        ELSE RetryElse(tried, FallbackElseFail(asked))
  BY DEF DecideCalls
<1>6. CASE good # <<>>
  <2>1. good[1] \in S
    <3> HIDE DEF good, S
    <3> QED BY <1>4, <1>6 DEF ToSet
  <2>2. tries[good[1]] \in Batches
    BY <1>2, <1>3, <2>1
  <2> HIDE DEF good, tries, S
  <2> QED BY <1>5, <1>6, <2>2 DEF Decided
<1>7. CASE good = <<>>
  <2> HIDE DEF good, tries, S
  <2>1. DecideCalls(reply, calls, asked, tried) = RetryElse(tried, FallbackElseFail(asked))
    BY <1>5, <1>7
  <2> QED BY <2>1, FallbackType DEF Decided, RetryElse, FallbackElseFail
<1> QED BY <1>6, <1>7

LEMMA DecideType ==
  ASSUME NEW reply \in Replies, NEW asked \in Turns, NEW tried \in Nat
  PROVE  Decided(Decide(reply, asked, tried), tried)
<1>1. /\ reply.calls \in Seq(RawCalls) /\ Len(reply.calls) <= MaxBatch
      /\ reply.written \in Seq(RawCalls) /\ Len(reply.written) <= MaxBatch
  <2> DEFINE seqs == UNION {[1..n -> RawCalls] : n \in 0..MaxBatch}
  <2>1. reply.calls \in seqs /\ reply.written \in seqs
    BY DEF Replies
  <2>2. \A s \in seqs : s \in Seq(RawCalls) /\ Len(s) <= MaxBatch
    <3> SUFFICES ASSUME NEW n \in 0..MaxBatch, NEW s \in [1..n -> RawCalls]
                 PROVE  s \in Seq(RawCalls) /\ Len(s) <= MaxBatch
      OBVIOUS
    <3>1. n \in Nat /\ n <= MaxBatch
      BY Bounds
    <3> QED BY <3>1
  <2> QED BY <2>1, <2>2
<1> DEFINE calls == IF reply.calls = <<>> THEN Inline(reply) ELSE reply.calls
<1>2. calls \in Seq(RawCalls) /\ Len(calls) <= MaxBatch
  <2>1. CASE reply.calls # <<>>
    BY <1>1, <2>1
  <2>2. CASE reply.calls = <<>> /\ Inline(reply) = <<>>
    BY <2>2, Bounds
  <2>3. CASE reply.calls = <<>> /\ Inline(reply) # <<>>
    <3>1. calls = <<reply.written[1]>> /\ reply.written # <<>>
      BY <2>3 DEF Inline
    <3>2. reply.written[1] \in RawCalls
      BY <1>1, <3>1
    <3> HIDE DEF calls
    <3> QED BY <3>1, <3>2, Bounds
  <2> QED BY <2>1, <2>2, <2>3
<1>3. Decided(DecideCalls(reply, calls, asked, tried), tried)
  <2> HIDE DEF calls
  <2> QED BY <1>1, <1>2, DecideCallsType
<1>4. Decided(RetryElse(tried, Fail), tried) /\ Decided(Fail, tried)
  BY DEF Decided, RetryElse
<1>5. Decided(RetryElse(tried, FallbackElseFail(asked)), tried)
  BY FallbackType DEF Decided, RetryElse, FallbackElseFail
<1>6. Decided(DecideText(reply, asked, tried), tried)
  BY FallbackType DEF Decided, DecideText, RetryElse
<1>7. \/ Decide(reply, asked, tried) = DecideCalls(reply, calls, asked, tried)
      \/ Decide(reply, asked, tried) = RetryElse(tried, Fail)
      \/ Decide(reply, asked, tried) = Fail
      \/ Decide(reply, asked, tried) = RetryElse(tried, FallbackElseFail(asked))
      \/ Decide(reply, asked, tried) = DecideText(reply, asked, tried)
  BY DEF Decide
<1> QED
  <2> HIDE DEF calls
  <2> QED BY <1>3, <1>4, <1>5, <1>6, <1>7

LEMMA DecisionsNowType ==
  ASSUME turn \in AskedTurns, nudges \in 0..MaxNudges, NEW d \in DecisionsNow
  PROVE  Decided(d, nudges)
<1>1. PICK e \in DecisionTable : e[1] = <<turn, nudges>> /\ d = e[2]
  BY DEF DecisionsNow
<1>2. PICK t \in AskedTurns, n \in 0..MaxNudges : e \in {<<t, n>>} \X Decisions(t, n)
  BY DEF DecisionTable
<1>3. e[1] = <<t, n>> /\ e[2] \in Decisions(t, n)
  BY <1>2
<1>4. t = turn /\ n = nudges
  BY <1>1, <1>3
<1>5. PICK r \in Replies : d = Decide(r, turn, nudges)
  BY <1>1, <1>3, <1>4 DEF Decisions
<1>6. turn \in Turns /\ nudges \in Nat
  BY Bounds
<1> QED BY <1>5, <1>6, DecideType

-----------------------------------------------------------------------------
(* Lemmas about the messages.                                              *)

Extended(m, mm) == Len(m) <= Len(mm) /\ \A j \in 1..Len(m) : mm[j] = m[j]

LEMMA MessageTypes ==
  /\ UserMessage \in Message
  /\ \A c \in Placed : ToolMessage(c) \in Message
  /\ \A r \in Nat, n \in Nat : Assistant(CallsOf(r, n)) \in Message
BY DEF UserMessage, ToolMessage, Assistant, Message, Placed, CallsOf

LEMMA ToolMessageIs ==
  /\ \A c : ToolMessage(c).role = "tool" /\ ToolMessage(c).calls = {c}
  /\ \A c, d : ToolMessage(c) = ToolMessage(d) => c = d
<1>1. \A c : ToolMessage(c).role = "tool" /\ ToolMessage(c).calls = {c}
  BY DEF ToolMessage
<1>2. ASSUME NEW c, NEW d, ToolMessage(c) = ToolMessage(d) PROVE c = d
  <2>1. {c} = {d}
    BY <1>1, <1>2
  <2> QED BY <2>1
<1> QED BY <1>1, <1>2

LEMMA BlockExtended ==
  ASSUME NEW m \in Seq(Message), NEW mm \in Seq(Message), Extended(m, mm),
         NEW i \in 1..Len(m), Block(m, i)
  PROVE  Block(mm, i)
<1> DEFINE n == Cardinality(m[i].calls)
<1>1. mm[i] = m[i]
  BY DEF Extended
<1>2. IsFiniteSet(m[i].calls) /\ i + n <= Len(m)
  BY DEF Block
<1>3. n \in Nat
  BY <1>2, FS_CardinalityType
<1>4. /\ \A j \in (i + 1)..(i + n) : \E c \in m[i].calls : m[j] = ToolMessage(c)
      /\ \A c \in m[i].calls : \E j \in (i + 1)..(i + n) : m[j] = ToolMessage(c)
  BY DEF Block
<1>5. Len(m) \in Nat /\ Len(mm) \in Nat /\ Len(m) <= Len(mm)
  BY DEF Extended
<1>6. n = Cardinality(mm[i].calls)
  BY <1>1
<1> HIDE DEF n
<1>7. i + n <= Len(mm)
  BY <1>2, <1>3, <1>5
<1>8. \A j \in (i + 1)..(i + n) : mm[j] = m[j]
  BY <1>2, <1>3, <1>5 DEF Extended
<1>9. \A j \in (i + 1)..(i + n) : \E c \in mm[i].calls : mm[j] = ToolMessage(c)
  BY <1>1, <1>4, <1>8
<1>10. \A c \in mm[i].calls : \E j \in (i + 1)..(i + n) : mm[j] = ToolMessage(c)
  BY <1>1, <1>4, <1>8
<1> QED BY <1>1, <1>2, <1>6, <1>7, <1>9, <1>10 DEF Block

LEMMA AppendExtends ==
  ASSUME NEW m \in Seq(Message), NEW x \in Message
  PROVE  /\ Append(m, x) \in Seq(Message) /\ Len(Append(m, x)) = Len(m) + 1
         /\ Extended(m, Append(m, x)) /\ Append(m, x)[Len(m) + 1] = x
         /\ Len(m) \in Nat
BY DEF Extended

\* A message of the user changes none of what is said of the others.
LEMMA UserAppended ==
  ASSUME NEW m \in Seq(Message), NEW mm, mm = Append(m, UserMessage)
  PROVE  /\ mm \in Seq(Message)
         /\ Whole(m) => Whole(mm)
         /\ Once(m) => Once(mm)
         /\ \A r : Past(m, Len(m), r) => Past(mm, Len(mm), r)
<1>1. /\ mm \in Seq(Message) /\ Len(mm) = Len(m) + 1 /\ Extended(m, mm)
      /\ mm[Len(m) + 1] = UserMessage /\ Len(m) \in Nat
  BY AppendExtends, MessageTypes
<1>2. \A j \in 1..Len(mm) : (j \in 1..Len(m) /\ mm[j] = m[j]) \/ (j = Len(m) + 1 /\ mm[j] = UserMessage)
  BY <1>1 DEF Extended
<1>3. UserMessage.role = "user" /\ UserMessage.calls = {}
  BY DEF UserMessage
<1>4. DOMAIN mm = 1..Len(mm) /\ DOMAIN m = 1..Len(m)
  BY <1>1
<1> HIDE DEF UserMessage
<1>5. ASSUME Whole(m) PROVE Whole(mm)
  <2> SUFFICES ASSUME NEW i \in 1..Len(mm), mm[i].role = "assistant" PROVE Block(mm, i)
    BY <1>4 DEF Whole
  <2>1. i \in 1..Len(m) /\ m[i].role = "assistant"
    BY <1>2, <1>3
  <2>2. Block(m, i)
    BY <1>4, <1>5, <2>1 DEF Whole
  <2> QED BY <1>1, <2>1, <2>2, BlockExtended
<1>6. ASSUME Once(m) PROVE Once(mm)
  <2> SUFFICES ASSUME NEW i \in 1..Len(mm), NEW j \in 1..Len(mm), mm[i].role = "tool", mm[i] = mm[j]
               PROVE  i = j
    BY <1>4 DEF Once
  <2>1. i \in 1..Len(m) /\ j \in 1..Len(m) /\ m[i].role = "tool" /\ m[i] = m[j]
    BY <1>2, <1>3
  <2> QED BY <1>4, <1>6, <2>1 DEF Once
<1>7. ASSUME NEW r, Past(m, Len(m), r) PROVE Past(mm, Len(mm), r)
  BY <1>2, <1>3, <1>7 DEF Past
<1> QED BY <1>1, <1>5, <1>6, <1>7

\* The answer of the model with its calls opens a round.
LEMMA CallsAppended ==
  ASSUME NEW m \in Seq(Message), NEW r \in Nat, NEW n \in Nat, NEW mm,
         mm = Append(m, Assistant(CallsOf(r, n))),
         Whole(m), Once(m), Past(m, Len(m), r)
  PROVE  /\ mm \in Seq(Message) /\ Once(mm)
         /\ Len(mm) \in 1..Len(mm) /\ Half(mm, Len(mm), r, n, {})
<1> DEFINE x == Assistant(CallsOf(r, n))
<1>1. /\ mm \in Seq(Message) /\ Len(mm) = Len(m) + 1 /\ Extended(m, mm)
      /\ mm[Len(m) + 1] = x /\ Len(m) \in Nat
  BY AppendExtends, MessageTypes
<1>2. \A j \in 1..Len(mm) : (j \in 1..Len(m) /\ mm[j] = m[j]) \/ (j = Len(m) + 1 /\ mm[j] = x)
  BY <1>1 DEF Extended
<1>3. x.role = "assistant"
  BY DEF Assistant
<1>4. DOMAIN mm = 1..Len(mm) /\ DOMAIN m = 1..Len(m)
  BY <1>1
<1>5. mm[Len(mm)] = Assistant(CallsOf(r, n))
  BY <1>1
<1> HIDE DEF x
<1>6. Once(mm)
  <2> SUFFICES ASSUME NEW i \in 1..Len(mm), NEW j \in 1..Len(mm), mm[i].role = "tool", mm[i] = mm[j]
               PROVE  i = j
    BY <1>4 DEF Once
  <2>1. i \in 1..Len(m) /\ j \in 1..Len(m) /\ m[i].role = "tool" /\ m[i] = m[j]
    BY <1>2, <1>3
  <2> QED BY <1>4, <2>1 DEF Once
<1>7. \A i \in 1..(Len(mm) - 1) : mm[i].role = "assistant" => Block(mm, i)
  <2> SUFFICES ASSUME NEW i \in 1..(Len(mm) - 1), mm[i].role = "assistant" PROVE Block(mm, i)
    OBVIOUS
  <2>1. i \in 1..Len(m) /\ m[i].role = "assistant"
    BY <1>1 DEF Extended
  <2>2. Block(m, i)
    BY <1>4, <2>1 DEF Whole
  <2> QED BY <1>1, <2>1, <2>2, BlockExtended
<1>8. Past(mm, Len(mm) - 1, r)
  BY <1>1 DEF Past, Extended
<1>9. Len(mm) = Len(mm) + Cardinality({}) /\ (Len(mm) + 1)..Len(mm) = {}
  BY <1>1, FS_EmptySet
<1> QED BY <1>1, <1>5, <1>6, <1>7, <1>8, <1>9 DEF Half

LEMMA AnswersAre ==
  ASSUME NEW r \in Nat, NEW s \in Seq(Nat), NEW t,
         t = AnswersTo(r, s)
  PROVE  /\ t \in Seq(Message) /\ Len(t) = Len(s)
         /\ \A k \in 1..Len(s) : t[k] = ToolMessage(<<r, s[k]>>)
<1> DEFINE n == Len(s)
<1>1. n \in Nat
  OBVIOUS
<1>2. \A k \in 1..n : <<r, s[k]>> \in Placed
  BY DEF Placed
<1> USE DEF AnswersTo
<1>3. t \in [1..n -> Message]
  BY <1>2, MessageTypes
<1> HIDE DEF n
<1>4. t \in Seq(Message) /\ Len(t) = n
  <2> n \in Nat /\ t \in [1..n -> Message]
    BY <1>1, <1>3
  <2> QED OBVIOUS
<1>5. \A k \in 1..Len(s) : t[k] = ToolMessage(<<r, s[k]>>)
  OBVIOUS
<1> QED BY <1>4, <1>5 DEF n

LEMMA InToSet ==
  ASSUME NEW S, NEW s \in Seq(S)
  PROVE  /\ \A k \in 1..Len(s) : s[k] \in ToSet(s)
         /\ \A x \in ToSet(s) : \E k \in 1..Len(s) : s[k] = x
<1>1. DOMAIN s = 1..Len(s)
  OBVIOUS
<1> QED BY <1>1 DEF ToSet

LEMMA Joined ==
  ASSUME NEW m \in Seq(Message), NEW t \in Seq(Message)
  PROVE  /\ m \o t \in Seq(Message) /\ Len(m \o t) = Len(m) + Len(t)
         /\ \A j \in 1..Len(m) : (m \o t)[j] = m[j]
         /\ \A k \in 1..Len(t) : (m \o t)[Len(m) + k] = t[k]
<1>1. m \o t \in Seq(Message) /\ Len(m \o t) = Len(m) + Len(t)
  OBVIOUS
<1>2. \A j \in 1..Len(m) : (m \o t)[j] = m[j]
  OBVIOUS
<1>3. \A k \in 1..Len(t) : (m \o t)[Len(m) + k] = t[k]
  OBVIOUS
<1> QED BY <1>1, <1>2, <1>3

\* Tool messages for calls that have none yet.
LEMMA AnswersAppended ==
  ASSUME NEW m \in Seq(Message), NEW r \in Nat, NEW n \in Nat, NEW p \in 1..Len(m),
         NEW A \in SUBSET (1..n), NEW B \in SUBSET ((1..n) \ A), NEW s \in Seq(Nat), NEW mm,
         Half(m, p, r, n, A), Once(m),
         Increasing(s), ToSet(s) = B, Len(s) = Cardinality(B),
         mm = m \o AnswersTo(r, s)
  PROVE  /\ mm \in Seq(Message) /\ Once(mm)
         /\ p \in 1..Len(mm) /\ Half(mm, p, r, n, A \cup B)
         /\ Extended(m, mm)
<1> DEFINE t == AnswersTo(r, s)
<1>1. Len(s) \in Nat /\ Len(m) \in Nat /\ p \in Nat /\ p <= Len(m)
  OBVIOUS
<1>2. /\ t \in Seq(Message) /\ Len(t) = Len(s)
      /\ \A k \in 1..Len(s) : t[k] = ToolMessage(<<r, s[k]>>)
  BY AnswersAre
<1> HIDE DEF t
<1>3. /\ mm \in Seq(Message) /\ Len(mm) = Len(m) + Len(s)
      /\ \A j \in 1..Len(m) : mm[j] = m[j]
      /\ \A j \in (Len(m) + 1)..Len(mm) :
            j - Len(m) \in 1..Len(s) /\ mm[j] = ToolMessage(<<r, s[j - Len(m)]>>)
  <2>1. mm = m \o t
    BY DEF t
  <2>2. mm \in Seq(Message) /\ Len(mm) = Len(m) + Len(s)
    BY <1>2, <2>1, Joined
  <2>3. \A j \in 1..Len(m) : mm[j] = m[j]
    BY <1>2, <2>1, Joined
  <2>4. ASSUME NEW j \in (Len(m) + 1)..Len(mm)
        PROVE  j - Len(m) \in 1..Len(s) /\ mm[j] = ToolMessage(<<r, s[j - Len(m)]>>)
    <3>1. j - Len(m) \in 1..Len(s)
      BY <1>1, <2>2
    <3>2. mm[j] = t[j - Len(m)]
      <4>1. Len(m) + (j - Len(m)) = j
        BY <1>1
      <4>2. mm[Len(m) + (j - Len(m))] = t[j - Len(m)]
        BY <1>2, <2>1, <3>1, Joined
      <4> QED BY <4>1, <4>2
    <3> QED BY <1>2, <3>1, <3>2
  <2> QED BY <2>2, <2>3, <2>4
<1>4. Extended(m, mm) /\ p \in 1..Len(mm)
  BY <1>1, <1>3 DEF Extended
<1>5. \A k \in 1..Len(s) : s[k] \in B
  BY InToSet
<1>6. \A b \in B : \E k \in 1..Len(s) : s[k] = b
  BY InToSet
<1>7. DOMAIN mm = 1..Len(mm) /\ DOMAIN m = 1..Len(m)
  BY <1>3
<1>8. Cardinality(A \cup B) = Cardinality(A) + Len(s)
  <2>1. IsFiniteSet(A) /\ IsFiniteSet(B) /\ Cardinality(A) \in Nat /\ Cardinality(B) \in Nat
    <3>1. B \in SUBSET (1..n)
      OBVIOUS
    <3> QED BY <3>1, PartOfInterval
  <2>2. Cardinality(A \cup B) = Cardinality(A) + Cardinality(B) - Cardinality(A \cap B)
    BY <2>1, FS_Union
  <2>3. A \cap B = {}
    OBVIOUS
  <2>4. Cardinality(A \cap B) = 0
    BY <2>3, FS_EmptySet
  <2> QED BY <2>1, <2>2, <2>4
<1>9. \A b \in B : \A j \in 1..Len(m) : m[j] # ToolMessage(<<r, b>>)
  <2> SUFFICES ASSUME NEW b \in B, NEW j \in 1..Len(m), m[j] = ToolMessage(<<r, b>>) PROVE FALSE
    OBVIOUS
  <2>1. m[j].role = "tool" /\ m[j].calls = {<<r, b>>}
    BY ToolMessageIs
  <2>2. CASE j < p
    <3>1. j \in 1..(p - 1)
      BY <2>2
    <3>2. <<r, b>>[1] < r
      BY <2>1, <3>1 DEF Half, Past
    <3> QED BY <3>2
  <2>3. CASE j = p
    <3>1. m[j].role = "assistant"
      BY <2>3 DEF Half, Assistant
    <3> QED BY <2>1, <3>1
  <2>4. CASE j > p
    <3>1. j \in (p + 1)..Len(m)
      BY <2>4
    <3>2. PICK i \in A : m[j] = ToolMessage(<<r, i>>)
      BY <3>1 DEF Half
    <3>3. <<r, i>> = <<r, b>>
      BY <3>2, ToolMessageIs
    <3>4. i = b
      BY <3>3
    <3> QED BY <3>4
  <2> QED BY <2>2, <2>3, <2>4
<1>10. Once(mm)
  <2>1. \A i, j \in 1..Len(mm) : mm[i].role = "tool" /\ mm[i] = mm[j] /\ i < j => FALSE
    <3> SUFFICES ASSUME NEW i \in 1..Len(mm), NEW j \in 1..Len(mm), mm[i].role = "tool",
                        mm[i] = mm[j], i < j
                 PROVE  FALSE
      OBVIOUS
    <3>1. CASE j <= Len(m)
      <4>1. i \in 1..Len(m) /\ j \in 1..Len(m)
        BY <1>1, <3>1
      <4>2. i = j
        BY <1>3, <1>7, <4>1 DEF Once
      <4> QED BY <4>2
    <3>2. CASE j > Len(m) /\ i <= Len(m)
      <4>1. j \in (Len(m) + 1)..Len(mm) /\ i \in 1..Len(m)
        BY <1>1, <3>2
      <4>2. s[j - Len(m)] \in B /\ mm[j] = ToolMessage(<<r, s[j - Len(m)]>>)
        BY <1>3, <1>5, <4>1
      <4>3. mm[i] = m[i]
        BY <1>3, <4>1
      <4> QED BY <1>9, <4>1, <4>2, <4>3
    <3>3. CASE i > Len(m)
      <4>1. i \in (Len(m) + 1)..Len(mm) /\ j \in (Len(m) + 1)..Len(mm)
        BY <1>1, <3>3
      <4>2. /\ i - Len(m) \in 1..Len(s) /\ j - Len(m) \in 1..Len(s)
            /\ i - Len(m) < j - Len(m)
        <5>1. i - Len(m) \in 1..Len(s) /\ j - Len(m) \in 1..Len(s)
          BY <1>3, <4>1
        <5>2. i - Len(m) < j - Len(m)
          BY <1>1, <3>3
        <5> QED BY <5>1, <5>2
      <4>3. s[i - Len(m)] < s[j - Len(m)]
        <5>1. DOMAIN s = 1..Len(s)
          OBVIOUS
        <5> QED BY <4>2, <5>1 DEF Increasing
      <4>4. <<r, s[i - Len(m)]>> = <<r, s[j - Len(m)]>>
        <5>1. /\ mm[i] = ToolMessage(<<r, s[i - Len(m)]>>)
              /\ mm[j] = ToolMessage(<<r, s[j - Len(m)]>>)
          BY <1>3, <4>1
        <5> QED BY <5>1, ToolMessageIs
      <4>5. s[i - Len(m)] = s[j - Len(m)] /\ s[i - Len(m)] \in Nat
        BY <4>2, <4>4
      <4> QED BY <4>3, <4>5
    <3> QED BY <1>1, <3>1, <3>2, <3>3
  <2>2. ASSUME NEW i \in 1..Len(mm), NEW j \in 1..Len(mm), mm[i].role = "tool", mm[i] = mm[j]
        PROVE  i = j
    <3>1. ~(i < j) /\ ~(j < i)
      BY <2>1, <2>2
    <3> QED BY <3>1, <1>3
  <2> QED BY <1>7, <2>2 DEF Once
<1>11. Half(mm, p, r, n, A \cup B)
  <2>1. mm[p] = Assistant(CallsOf(r, n))
    BY <1>3 DEF Half
  <2>2. ASSUME NEW i \in 1..(p - 1), mm[i].role = "assistant" PROVE Block(mm, i)
    <3>1. i \in 1..Len(m) /\ m[i].role = "assistant"
      BY <1>1, <1>3, <2>2
    <3>2. Block(m, i)
      BY <3>1 DEF Half
    <3> QED BY <1>3, <1>4, <3>1, <3>2, BlockExtended
  <2>3. Past(mm, p - 1, r)
    BY <1>1, <1>3 DEF Half, Past
  <2>4. Len(mm) = p + Cardinality(A \cup B)
    <3>1. Len(m) = p + Cardinality(A)
      BY DEF Half
    <3>2. Cardinality(A) \in Nat
      BY PartOfInterval
    <3> QED BY <1>1, <1>3, <1>8, <3>1, <3>2
  <2>5. ASSUME NEW j \in (p + 1)..Len(mm)
        PROVE  \E i \in A \cup B : mm[j] = ToolMessage(<<r, i>>)
    <3>1. CASE j <= Len(m)
      <4>1. j \in (p + 1)..Len(m) /\ j \in 1..Len(m)
        BY <1>1, <3>1
      <4>2. PICK i \in A : m[j] = ToolMessage(<<r, i>>)
        BY <4>1 DEF Half
      <4>3. i \in A \cup B /\ mm[j] = ToolMessage(<<r, i>>)
        BY <1>3, <4>1, <4>2
      <4> QED BY <4>3
    <3>2. CASE j > Len(m)
      <4>1. j \in (Len(m) + 1)..Len(mm)
        BY <1>1, <3>2
      <4>2. s[j - Len(m)] \in A \cup B /\ mm[j] = ToolMessage(<<r, s[j - Len(m)]>>)
        BY <1>3, <1>5, <4>1
      <4> QED BY <4>2
    <3>3. j <= Len(m) \/ j > Len(m)
      <4>1. j \in Int /\ Len(m) \in Int
        BY <1>1
      <4> QED BY <4>1
    <3> QED BY <3>1, <3>2, <3>3
  <2>6. ASSUME NEW i \in A \cup B
        PROVE  \E j \in (p + 1)..Len(mm) : mm[j] = ToolMessage(<<r, i>>)
    <3>1. CASE i \in A
      <4>1. PICK j \in (p + 1)..Len(m) : m[j] = ToolMessage(<<r, i>>)
        BY <3>1 DEF Half
      <4>2. j \in (p + 1)..Len(mm) /\ j \in 1..Len(m)
        BY <1>1, <1>3
      <4> QED BY <1>3, <4>1, <4>2
    <3>2. CASE i \in B
      <4>1. PICK k \in 1..Len(s) : s[k] = i
        BY <1>6, <3>2
      <4>2. /\ Len(m) + k \in (Len(m) + 1)..Len(mm) /\ Len(m) + k \in (p + 1)..Len(mm)
            /\ (Len(m) + k) - Len(m) = k
        BY <1>1, <1>3
      <4>3. mm[Len(m) + k] = ToolMessage(<<r, s[k]>>)
        BY <1>3, <4>2
      <4> QED BY <4>1, <4>2, <4>3
    <3> QED BY <3>1, <3>2
  <2> QED BY <2>1, <2>2, <2>3, <2>4, <2>5, <2>6 DEF Half
<1> QED BY <1>3, <1>4, <1>10, <1>11

\* With every call answered the messages are whole again.
LEMMA AllAnswered ==
  ASSUME NEW m \in Seq(Message), NEW r \in Nat, NEW n \in Nat, NEW p \in 1..Len(m),
         Half(m, p, r, n, 1..n)
  PROVE  Whole(m) /\ Past(m, Len(m), r + 1)
<1> DEFINE calls == CallsOf(r, n)
<1>1. m[p].role = "assistant" /\ m[p].calls = calls
  BY DEF Half, Assistant
<1>2. IsFiniteSet(1..n) /\ Cardinality(1..n) = n
  BY FS_Interval
<1>3. IsFiniteSet(calls) /\ Cardinality(calls) = n
  <2> DEFINE f == [i \in 1..n |-> <<r, i>>]
  <2>1. f \in Bijection(1..n, calls)
    <3>1. f \in [1..n -> calls]
      BY DEF CallsOf
    <3>2. \A i, j \in 1..n : f[i] = f[j] => i = j
      OBVIOUS
    <3>3. \A c \in calls : \E i \in 1..n : f[i] = c
      BY DEF CallsOf
    <3> HIDE DEF f, calls
    <3> QED BY <3>1, <3>2, <3>3 DEF Bijection, Injection, Surjection, IsInjective
  <2> HIDE DEF f, calls
  <2> QED BY <1>2, <2>1, FS_Bijection DEF ExistsBijection
<1>4. Len(m) = p + n
  BY <1>2 DEF Half
<1>5. Block(m, p)
  <2>1. ASSUME NEW j \in (p + 1)..(p + n) PROVE \E c \in calls : m[j] = ToolMessage(c)
    BY <1>4 DEF Half, CallsOf
  <2>2. ASSUME NEW c \in calls PROVE \E j \in (p + 1)..(p + n) : m[j] = ToolMessage(c)
    BY <1>4 DEF Half, CallsOf
  <2>3. p + n <= Len(m)
    BY <1>4
  <2> HIDE DEF calls
  <2> QED BY <1>1, <1>3, <2>1, <2>2, <2>3 DEF Block
<1>6. ASSUME NEW j \in (p + 1)..Len(m) PROVE \E i \in 1..n : m[j] = ToolMessage(<<r, i>>)
  BY DEF Half
<1>7. Whole(m)
  <2> SUFFICES ASSUME NEW i \in 1..Len(m), m[i].role = "assistant" PROVE Block(m, i)
    BY DEF Whole
  <2>1. CASE i < p
    <3>1. i \in 1..(p - 1)
      BY <2>1
    <3> QED BY <3>1 DEF Half
  <2>2. CASE i = p
    BY <1>5, <2>2
  <2>3. CASE i > p
    <3>1. i \in (p + 1)..Len(m)
      BY <2>3
    <3>2. m[i].role = "tool"
      BY <1>6, <3>1, ToolMessageIs
    <3> QED BY <3>2
  <2> QED BY <2>1, <2>2, <2>3
<1>8. Past(m, Len(m), r + 1)
  <2> SUFFICES ASSUME NEW i \in 1..Len(m), NEW c \in m[i].calls PROVE c[1] < r + 1
    BY DEF Past
  <2>1. CASE i < p
    <3>1. i \in 1..(p - 1)
      BY <2>1
    <3>2. c[1] < r
      BY <3>1 DEF Half, Past
    <3>3. m[i] \in Message
      OBVIOUS
    <3>4. c[1] \in Nat
      BY <3>3 DEF Message
    <3> QED BY <3>2, <3>4
  <2>2. CASE i = p
    BY <1>1, <2>2 DEF CallsOf
  <2>3. CASE i > p
    <3>1. i \in (p + 1)..Len(m)
      BY <2>3
    <3>2. PICK k \in 1..n : m[i] = ToolMessage(<<r, k>>)
      BY <1>6, <3>1
    <3>3. c = <<r, k>>
      BY <3>2, ToolMessageIs
    <3> QED BY <3>3
  <2> QED BY <2>1, <2>2, <2>3
<1> QED BY <1>7, <1>8

-----------------------------------------------------------------------------
(* What the actions find and do.                                           *)

LEMMA ShapeFacts ==
  ASSUME Shape
  PROVE  /\ Len(batch) \in Nat /\ DOMAIN batch = 1..Len(batch)
         /\ Len(allowed) \in Nat /\ DOMAIN allowed = 1..Len(allowed)
         /\ Len(executed) \in Nat /\ DOMAIN executed = 1..Len(executed)
         /\ Len(messages) \in Nat /\ DOMAIN messages = 1..Len(messages)
         /\ round \in Nat
BY Bounds DEF Shape

\* The first of the calls that wait.
LEMMA HeadFacts ==
  ASSUME Shape, PlaceInv, allowed # <<>>, NEW h, h = Head(allowed)
  PROVE  /\ h \in 1..Len(batch) /\ h \in ToSet(allowed) /\ h = allowed[1] /\ 1 \in DOMAIN allowed
         /\ Call(h) \in Placed /\ [name |-> batch[h], call |-> Call(h)] \in Execution
         /\ Tail(allowed) \in Seq(Nat) /\ Len(Tail(allowed)) = Len(allowed) - 1
         /\ \A k \in DOMAIN Tail(allowed) :
               k + 1 \in DOMAIN allowed /\ Tail(allowed)[k] = allowed[k + 1]
         /\ Increasing(Tail(allowed))
         /\ ToSet(Tail(allowed)) = ToSet(allowed) \ {h}
<1>1. /\ allowed \in Seq(Nat) /\ Len(allowed) \in Nat \ {0} /\ DOMAIN allowed = 1..Len(allowed)
      /\ \A k \in 1..Len(allowed) : allowed[k] \in Nat
  BY DEF Shape
<1>2. h = allowed[1] /\ 1 \in DOMAIN allowed
  BY <1>1
<1>3. h \in 1..Len(batch)
  BY <1>2, ShapeFacts DEF PlaceInv
<1>4. h \in ToSet(allowed)
  BY <1>2 DEF ToSet
<1>5. Call(h) \in Placed /\ batch[h] \in Named
  <2>1. batch[h] \in Named
    BY <1>3 DEF Shape
  <2>2. h \in Nat /\ round \in Nat
    BY <1>3, ShapeFacts
  <2> QED BY <2>1, <2>2 DEF Call, Placed
<1>6. [name |-> batch[h], call |-> Call(h)] \in Execution
  BY <1>5 DEF Execution
<1>7. /\ Tail(allowed) \in Seq(Nat) /\ Len(Tail(allowed)) = Len(allowed) - 1
      /\ DOMAIN Tail(allowed) = 1..(Len(allowed) - 1)
      /\ \A k \in 1..(Len(allowed) - 1) : Tail(allowed)[k] = allowed[k + 1]
  BY <1>1
<1>8. \A k \in DOMAIN Tail(allowed) : k + 1 \in DOMAIN allowed /\ Tail(allowed)[k] = allowed[k + 1]
  BY <1>1, <1>7
<1>9. \A i, j \in DOMAIN allowed : i < j => allowed[i] < allowed[j]
  BY DEF PlaceInv, Increasing
<1>10. Increasing(Tail(allowed))
  <2> SUFFICES ASSUME NEW i \in DOMAIN Tail(allowed), NEW j \in DOMAIN Tail(allowed), i < j
               PROVE  Tail(allowed)[i] < Tail(allowed)[j]
    BY DEF Increasing
  <2>1. i + 1 < j + 1
    BY <1>7
  <2> QED BY <1>8, <1>9, <2>1
<1>11. ToSet(Tail(allowed)) = ToSet(allowed) \ {h}
  <2>1. ASSUME NEW x \in ToSet(Tail(allowed)) PROVE x \in ToSet(allowed) \ {h}
    <3>1. PICK k \in DOMAIN Tail(allowed) : x = Tail(allowed)[k]
      BY DEF ToSet
    <3>2. x = allowed[k + 1] /\ k + 1 \in DOMAIN allowed /\ 1 < k + 1
      BY <1>7, <1>8, <3>1
    <3>3. h < x /\ h \in Nat
      BY <1>1, <1>2, <1>9, <3>2
    <3> QED BY <3>2, <3>3 DEF ToSet
  <2>2. ASSUME NEW x \in ToSet(allowed) \ {h} PROVE x \in ToSet(Tail(allowed))
    <3>1. PICK k \in DOMAIN allowed : x = allowed[k]
      BY DEF ToSet
    <3>2. k # 1
      BY <1>2, <3>1
    <3>3. k - 1 \in DOMAIN Tail(allowed) /\ (k - 1) + 1 = k
      BY <1>1, <1>7, <3>2
    <3>4. Tail(allowed)[k - 1] = x
      BY <1>8, <3>1, <3>3
    <3> QED BY <3>3, <3>4 DEF ToSet
  <2> QED BY <2>1, <2>2
<1> QED BY <1>2, <1>3, <1>4, <1>5, <1>6, <1>7, <1>8, <1>10, <1>11

\* Screen answers the calls B and lets the others pass.
Screened(B, s) ==
    /\ B \in SUBSET (1..Len(batch))
    /\ s \in Seq(Nat) /\ Increasing(s) /\ ToSet(s) = B /\ Len(s) = Cardinality(B)
    /\ messages' = messages \o AnswersTo(round, s)
    /\ ToSet(allowed') = (1..Len(batch)) \ B

LEMMA ScreenFacts ==
  ASSUME Shape, Screen
  PROVE  /\ \E B, s : Screened(B, s)
         /\ allowed' \in Seq(Nat) /\ Increasing(allowed')
         /\ ToSet(allowed') \subseteq 1..Len(batch)
         /\ \A i \in ToSet(allowed') : ~Blocked(batch[i])
         /\ force' \in BOOLEAN
         /\ pc' \in {"all", "each"} /\ (pc' = "all" => allowed' # <<>>)
<1> DEFINE B == {i \in DOMAIN batch : Blocked(batch[i])}
           W == DOMAIN batch \ B
           s == InOrder(B)
           w == InOrder(W)
<1>1. /\ messages' = messages \o [k \in DOMAIN s |-> ToolMessage(Call(s[k]))]
      /\ allowed' = w
      /\ force' = \E i \in B : ~Correctable(batch[i])
      /\ pc' = IF Parallel(Names(w)) THEN "all" ELSE "each"
  BY DEF Screen
<1>2. B \in SUBSET (1..Len(batch)) /\ W \in SUBSET (1..Len(batch)) /\ W = (1..Len(batch)) \ B
  BY ShapeFacts
<1>3. force' \in BOOLEAN
  BY <1>1
<1>4. pc' \in {"all", "each"}
  BY <1>1
<1>5. \A i \in W : ~Blocked(batch[i])
  OBVIOUS
<1>6. Len(batch) \in Nat
  BY ShapeFacts
<1> HIDE DEF B, W
<1>7. s \in Seq(Nat) /\ Len(s) = Cardinality(B) /\ Increasing(s) /\ ToSet(s) = B
  BY <1>2, <1>6, InOrderIs
<1>8. w \in Seq(Nat) /\ Increasing(w) /\ ToSet(w) = W
  BY <1>2, <1>6, InOrderIs
<1> HIDE DEF s, w
<1>9. [k \in DOMAIN s |-> ToolMessage(Call(s[k]))] = AnswersTo(round, s)
  BY <1>7 DEF Call, AnswersTo
<1>10. pc' = "all" => w # <<>>
  <2> SUFFICES ASSUME pc' = "all", w = <<>> PROVE FALSE
    OBVIOUS
  <2>1. Parallel(Names(w))
    BY <1>1
  <2>2. Names(w) = <<>>
    BY DEF Names
  <2> QED BY <2>1, <2>2 DEF Parallel
<1>11. Screened(B, s)
  BY <1>1, <1>2, <1>7, <1>8, <1>9 DEF Screened
<1> QED BY <1>1, <1>2, <1>3, <1>4, <1>5, <1>8, <1>10, <1>11

\* The answer with calls, and the others.
Called(names) ==
    /\ names \in Batches
    /\ pc' = "screen" /\ batch' = names
    /\ messages' = Append(messages, Assistant(CallsOf(round, Len(names))))
    /\ UNCHANGED <<nudges, ending>>

LEMMA AnswerFacts ==
  ASSUME Shape, Answer
  PROVE  \/ /\ nudges < MaxNudges /\ nudges' = nudges + 1 /\ pc' = "ask"
            /\ messages' = Append(messages, UserMessage) /\ UNCHANGED <<batch, ending>>
         \/ /\ pc' = "over" /\ ending' \in {"error", "reply"}
            /\ UNCHANGED <<nudges, messages, batch>>
         \/ \E names : Called(names)
<1>1. PICK d \in DecisionsNow :
        CASE d.kind = "retry" ->
                /\ pc' = "ask" /\ nudges' = nudges + 1
                /\ messages' = Append(messages, UserMessage)
                /\ UNCHANGED <<batch, ending>>
          [] d.kind = "fail"  -> End("error") /\ UNCHANGED <<nudges, messages, batch>>
          [] d.kind = "final" -> End("reply") /\ UNCHANGED <<nudges, messages, batch>>
          [] d.kind = "calls" ->
                /\ pc' = "screen"
                /\ batch' = d.calls
                /\ messages' = Append(messages,
                                      Assistant({<<round, i>> : i \in DOMAIN d.calls}))
                /\ UNCHANGED <<nudges, ending>>
  BY DEF Answer
<1>2. Decided(d, nudges)
  BY DecisionsNowType DEF Shape
<1>3. CASE d = Retry /\ nudges < MaxNudges
  BY <1>1, <1>3 DEF Retry
<1>4. CASE d = Fail
  BY <1>1, <1>4 DEF Fail, End
<1>5. CASE d = Final
  BY <1>1, <1>5 DEF Final, End
<1>6. CASE \E names \in Batches : d = Use(names)
  <2>1. PICK names \in Batches : d = Use(names)
    BY <1>6
  <2>2. d.kind = "calls" /\ d.calls = names
    BY <2>1 DEF Use
  <2>3. DOMAIN names = 1..Len(names)
    BY DEF Batches
  <2>4. Called(names)
    BY <1>1, <2>2, <2>3 DEF Called, CallsOf
  <2> QED BY <2>4
<1> QED BY <1>2, <1>3, <1>4, <1>5, <1>6 DEF Decided

-----------------------------------------------------------------------------
(* Every step keeps the shape of the state and what each place finds.      *)

LEMMA SetTypes ==
  /\ 0 \in 0..(MaxRounds - 1) /\ 0 \in 0..MaxAsks /\ 0 \in 0..MaxNudges
  /\ <<UserMessage>> \in Seq(Message) /\ Len(<<UserMessage>>) = 1
  /\ <<UserMessage>>[1] = UserMessage
BY Bounds, MessageTypes

LEMMA ShapeStep ==
  ASSUME Shape, PlaceInv, [Next]_vars PROVE Shape'
<1> USE DEF Between, Within
<1>1. CASE Stop
  BY <1>1 DEF Stop, End, Shape, tools
<1>2. CASE Start
  BY <1>2, SetTypes DEF Start, Shape, tools
<1>3. CASE StartRound
  BY <1>3, SetTypes DEF StartRound, Shape, tools
<1>4. CASE Ask
  <2>1. asks' \in 0..MaxAsks
    BY <1>4, Bounds DEF Ask, Shape
  <2> QED BY <1>4, <2>1 DEF Ask, End, Shape, tools
<1>5. CASE Overflow
  BY <1>5, SetTypes DEF Overflow, Shape, tools
<1>6. CASE ModelError
  BY <1>6 DEF ModelError, End, Shape, tools
<1>7. CASE Answer
  <2>1. UNCHANGED <<turn, round, asks, recovered, allowed, running, open, executed, force,
                    stopAsked, dropped>>
    BY <1>7 DEF Answer
  <2>2. pc = "wait" /\ ending = "none"
    BY <1>7 DEF Answer, Shape
  <2>3. CASE /\ nudges < MaxNudges /\ nudges' = nudges + 1 /\ pc' = "ask"
             /\ messages' = Append(messages, UserMessage) /\ UNCHANGED <<batch, ending>>
    <3>1. nudges' \in 0..MaxNudges
      BY <2>3, Bounds DEF Shape
    <3>2. messages' \in Seq(Message)
      BY <2>3, UserAppended DEF Shape
    <3> QED BY <2>1, <2>2, <2>3, <3>1, <3>2 DEF Shape
  <2>4. CASE /\ pc' = "over" /\ ending' \in {"error", "reply"}
             /\ UNCHANGED <<nudges, messages, batch>>
    BY <2>1, <2>2, <2>4 DEF Shape
  <2>5. CASE \E names : Called(names)
    <3>1. PICK names : Called(names)
      BY <2>5
    <3>2. batch' \in Seq(Named) /\ Len(batch') <= MaxOpen /\ Len(names) \in Nat
      BY <3>1 DEF Called, Batches
    <3>3. Assistant(CallsOf(round, Len(names))) \in Message
      BY <3>2, ShapeFacts, MessageTypes
    <3>4. messages' \in Seq(Message)
      BY <3>1, <3>3, AppendExtends DEF Called, Shape
    <3> QED BY <2>1, <2>2, <3>1, <3>2, <3>4 DEF Shape, Called
  <2> QED BY <1>7, <2>3, <2>4, <2>5, AnswerFacts
<1>8. CASE Screen
  <2>1. UNCHANGED <<turn, round, asks, nudges, recovered, batch, running, open, executed,
                    stopAsked, ending, dropped>>
    BY <1>8 DEF Screen
  <2>2. pc = "screen"
    BY <1>8 DEF Screen
  <2>3. PICK B, s : Screened(B, s)
    BY <1>8, ScreenFacts
  <2>4. messages' \in Seq(Message)
    <3> DEFINE t == AnswersTo(round, s)
    <3>1. round \in Nat /\ s \in Seq(Nat) /\ messages' = messages \o t
      BY <2>3, ShapeFacts DEF Screened
    <3>2. t = AnswersTo(round, s)
      OBVIOUS
    <3> HIDE DEF t
    <3>3. t \in Seq(Message)
      BY <3>1, <3>2, AnswersAre
    <3> QED BY <3>1, <3>3, Joined DEF Shape
  <2> QED BY <1>8, <2>1, <2>2, <2>4, ScreenFacts DEF Shape
<1>9. CASE StartAll
  <2>1. Calls(allowed) \subseteq Placed
    <3> SUFFICES ASSUME NEW k \in DOMAIN allowed PROVE Call(allowed[k]) \in Placed
      BY DEF Calls
    <3>1. allowed[k] \in Nat /\ round \in Nat
      BY ShapeFacts DEF Shape
    <3> QED BY <3>1 DEF Call, Placed
  <2> QED BY <1>9, <2>1 DEF StartAll, Shape
<1>10. ASSUME Take, allowed # <<>>, pc \in {"gather", "each"},
              executed' \in Seq(Execution)
       PROVE  Shape'
  <2> DEFINE h == Head(allowed)
  <2>1. /\ running = {} /\ running' = {}
        /\ open' = open \ {Call(h)} /\ allowed' = Tail(allowed)
        /\ messages' = Append(messages, ToolMessage(Call(h)))
        /\ force' = (force \/ ForcesSummary(batch[h], Len(executed')))
        /\ UNCHANGED <<turn, pc, round, asks, nudges, recovered, batch, stopAsked, ending,
                       dropped>>
    BY <1>10 DEF Take
  <2>2. Call(h) \in Placed /\ Tail(allowed) \in Seq(Nat)
    BY <1>10, HeadFacts
  <2> HIDE DEF h
  <2>3. messages' \in Seq(Message)
    BY <2>1, <2>2, MessageTypes, AppendExtends DEF Shape
  <2>4. force' \in BOOLEAN
    BY <2>1 DEF Shape
  <2>5. open' \subseteq Placed
    BY <2>1 DEF Shape
  <2> QED BY <1>10, <2>1, <2>2, <2>3, <2>4, <2>5 DEF Shape
<1>11. CASE Gather
  <2>1. executed' = Append(executed, [name |-> batch[Head(allowed)], call |-> Call(Head(allowed))])
    BY <1>11 DEF Gather, Count
  <2>2. executed' \in Seq(Execution)
    BY <1>11, <2>1, HeadFacts DEF Gather, Shape
  <2> QED BY <1>11, <2>2, <1>10 DEF Gather
<1>12. CASE StartOne
  <2>1. executed' = Append(executed, [name |-> batch[Head(allowed)], call |-> Call(Head(allowed))])
    BY <1>12 DEF StartOne, Count
  <2>2. executed' \in Seq(Execution) /\ Call(Head(allowed)) \in Placed
    BY <1>12, <2>1, HeadFacts DEF StartOne, Shape
  <2> QED BY <1>12, <2>2 DEF StartOne, Shape, control
<1>13. CASE TakeOne
  <2>1. allowed # <<>> /\ pc = "each" /\ executed' = executed
    BY <1>13 DEF TakeOne, PlaceInv
  <2> QED BY <1>13, <2>1, <1>10 DEF TakeOne, Shape
<1>14. CASE NextRound
  <2>1. batch' = <<>> /\ batch' \in Seq(Named) /\ Len(batch') <= MaxOpen
    BY <1>14, MaxOpenIs DEF NextRound
  <2>2. messages' \in Seq(Message)
    BY <1>14, UserAppended DEF NextRound, Shape
  <2>3. round' \in 0..(MaxRounds - 1)
    BY <1>14, Bounds DEF NextRound, Shape
  <2> QED BY <1>14, <2>1, <2>2, <2>3 DEF NextRound, Shape
<1>15. CASE Summarize
  BY <1>15 DEF Summarize, End, Shape, tools
<1>16. CASE WorkerEnds
  <2>1. running' \subseteq open
    BY <1>16 DEF WorkerEnds, Shape
  <2>2. UNCHANGED <<control, messages, batch, allowed, open, executed, force, stopAsked,
                    ending, dropped>>
    BY <1>16 DEF WorkerEnds
  <2> QED BY <2>1, <2>2 DEF Shape, control
<1>17. CASE AskToStop
  BY <1>17 DEF AskToStop, Shape, tools, control
<1>18. CASE Leave
  BY <1>18 DEF Leave, End, Shape, tools
<1>19. CASE UNCHANGED vars
  BY <1>19 DEF vars, control, tools, Shape
<1> QED
  BY <1>1, <1>2, <1>3, <1>4, <1>5, <1>6, <1>7, <1>8, <1>9, <1>11, <1>12, <1>13, <1>14,
     <1>15, <1>16, <1>17, <1>18, <1>19 DEF Next, Loop

\* A step that leaves the tools alone stays in a place they allow.
LEMMA PlaceKept ==
  ASSUME PlaceInv, UNCHANGED <<round, batch, allowed, open, executed>>,
         \/ pc' = pc
         \/ pc' = "over"
         \/ pc \in Between /\ pc' \in Between \ {"start"}
  PROVE  PlaceInv'
<1>1. pc' = "over" => pc' \notin Between \cup Within
  BY DEF Between, Within
<1>2. pc' \in Between => pc' \notin Within
  BY DEF Between, Within
<1>3. \A k \in DOMAIN allowed' : allowed'[k] \in DOMAIN batch'
  BY DEF PlaceInv
<1>4. Increasing(allowed')
  BY DEF PlaceInv
<1>5. Calls(allowed)' = Calls(allowed) /\ Call(Head(allowed))' = Call(Head(allowed))
  BY DEF Calls, Call
<1> QED BY <1>1, <1>2, <1>3, <1>4, <1>5 DEF PlaceInv, Between, Within

LEMMA CallsAre ==
  /\ \A s : Calls(s) = {Call(i) : i \in ToSet(s)}
  /\ \A i, j : Call(i) = Call(j) => i = j
BY DEF Calls, Call, ToSet

LEMMA PlaceStep ==
  ASSUME Shape, PlaceInv, [Next]_vars PROVE PlaceInv'
<1>1. CASE Stop
  BY <1>1, PlaceKept DEF Stop, End, tools
<1>2. CASE Start
  BY <1>2, PlaceKept DEF Start, tools, Between
<1>3. CASE StartRound
  BY <1>3, PlaceKept DEF StartRound, tools, Between
<1>4. CASE Ask
  BY <1>4, PlaceKept DEF Ask, End, tools, Between
<1>5. CASE Overflow
  BY <1>5, PlaceKept DEF Overflow, tools
<1>6. CASE ModelError
  BY <1>6, PlaceKept DEF ModelError, End, tools
<1>7. CASE Answer
  <2>1. UNCHANGED <<turn, round, asks, recovered, allowed, running, open, executed, force,
                    stopAsked, dropped>>
    BY <1>7 DEF Answer
  <2>2. pc = "wait"
    BY <1>7 DEF Answer
  <2>3. CASE pc' = "ask" /\ UNCHANGED batch
    BY <2>1, <2>2, <2>3, PlaceKept DEF Between
  <2>4. CASE pc' = "over" /\ UNCHANGED batch
    BY <2>1, <2>2, <2>4, PlaceKept
  <2>5. CASE \E names : Called(names)
    <3>1. pc' = "screen" /\ allowed' = <<>> /\ open' = {}
      BY <2>1, <2>2, <2>5 DEF Called, PlaceInv, Between
    <3>2. DOMAIN allowed' = {}
      BY <3>1
    <3> QED BY <3>1, <3>2 DEF PlaceInv, Increasing, Between
  <2> QED BY <1>7, <2>3, <2>4, <2>5, AnswerFacts
<1>8. CASE Screen
  <2>1. /\ pc = "screen" /\ open' = {} /\ batch' = batch
    BY <1>8 DEF Screen, PlaceInv
  <2>2. /\ allowed' \in Seq(Nat) /\ Increasing(allowed')
        /\ ToSet(allowed') \subseteq 1..Len(batch)
        /\ pc' \in {"all", "each"} /\ (pc' = "all" => allowed' # <<>>)
    BY <1>8, ScreenFacts
  <2>3. \A k \in DOMAIN allowed' : allowed'[k] \in DOMAIN batch'
    BY <2>1, <2>2, ShapeFacts DEF ToSet
  <2>4. Increasing(allowed)'
    BY <2>2 DEF Increasing
  <2> QED BY <2>1, <2>2, <2>3, <2>4 DEF PlaceInv, Between
<1>9. CASE StartAll
  <2>1. /\ open' = Calls(allowed) /\ pc' = "gather"
        /\ UNCHANGED <<round, batch, allowed, executed>>
    BY <1>9 DEF StartAll
  <2>2. Calls(allowed)' = Calls(allowed)
    BY <2>1 DEF Calls, Call
  <2>3. Increasing(allowed)'
    BY <2>1 DEF Increasing, PlaceInv
  <2>4. \A k \in DOMAIN allowed' : allowed'[k] \in DOMAIN batch'
    BY <2>1 DEF PlaceInv
  <2> QED BY <2>1, <2>2, <2>3, <2>4 DEF PlaceInv, Between
<1>10. ASSUME Take, allowed # <<>>, pc \in {"gather", "each"},
              pc = "each" => open = {Call(Head(allowed))}
       PROVE  PlaceInv'
  <2> DEFINE h == Head(allowed)
  <2>1. /\ open' = open \ {Call(h)} /\ allowed' = Tail(allowed)
        /\ UNCHANGED <<pc, round, batch>>
    BY <1>10 DEF Take
  <2>2. /\ \A k \in DOMAIN Tail(allowed) :
               k + 1 \in DOMAIN allowed /\ Tail(allowed)[k] = allowed[k + 1]
        /\ Increasing(Tail(allowed))
        /\ ToSet(Tail(allowed)) = ToSet(allowed) \ {h}
        /\ h \in ToSet(allowed)
    BY <1>10, HeadFacts
  <2> HIDE DEF h
  <2>3. \A k \in DOMAIN allowed' : allowed'[k] \in DOMAIN batch'
    BY <2>1, <2>2 DEF PlaceInv
  <2>4. Increasing(allowed)'
    BY <2>1, <2>2 DEF Increasing
  <2>5. pc = "gather" => open' = Calls(allowed)'
    <3>1. Calls(allowed)' = Calls(Tail(allowed))
      BY <2>1 DEF Calls, Call
    <3>2. Calls(Tail(allowed)) = Calls(allowed) \ {Call(h)}
      BY <2>2, CallsAre
    <3> QED BY <2>1, <3>1, <3>2 DEF PlaceInv
  <2>6. pc = "each" => open' = {}
    BY <1>10, <2>1 DEF h
  <2> QED BY <1>10, <2>1, <2>3, <2>4, <2>5, <2>6 DEF PlaceInv, Between
<1>11. CASE Gather
  BY <1>10, <1>11 DEF Gather
<1>12. CASE StartOne
  <2> DEFINE h == Head(allowed)
             e == [name |-> batch[h], call |-> Call(h)]
  <2>1. /\ pc = "each" /\ allowed # <<>> /\ executed' = Append(executed, e)
        /\ open' = {Call(h)} /\ UNCHANGED <<pc, round, batch, allowed>>
    BY <1>12 DEF StartOne, Count, control
  <2>2. e \in Execution
    BY <2>1, HeadFacts
  <2>3. e' = e /\ Call(Head(allowed))' = Call(h) /\ h' = h
    BY <2>1 DEF Call
  <2> HIDE DEF e
  <2>4. executed' # <<>> /\ executed'[Len(executed')] = e
    <3>1. executed \in Seq(Execution) /\ executed' = Append(executed, e)
      BY <2>1 DEF Shape
    <3> QED BY <2>2, <3>1
  <2>5. Increasing(allowed)'
    BY <2>1 DEF Increasing, PlaceInv
  <2>6. \A k \in DOMAIN allowed' : allowed'[k] \in DOMAIN batch'
    BY <2>1 DEF PlaceInv
  <2> QED BY <2>1, <2>3, <2>4, <2>5, <2>6 DEF PlaceInv, Between, e
<1>13. CASE TakeOne
  BY <1>10, <1>13 DEF TakeOne, PlaceInv
<1>14. CASE NextRound
  <2>1. /\ pc \in {"each", "gather"} /\ allowed = <<>> /\ allowed' = <<>> /\ batch' = <<>>
        /\ open' = open /\ pc' \in {"summary", "round"}
    BY <1>14 DEF NextRound
  <2>2. open = {}
    <3>1. CASE pc = "each"
      BY <2>1, <3>1 DEF PlaceInv
    <3>2. CASE pc = "gather"
      BY <2>1, <3>2 DEF PlaceInv, Calls
    <3> QED BY <2>1, <3>1, <3>2
  <2>3. DOMAIN allowed' = {}
    BY <2>1
  <2> QED BY <2>1, <2>2, <2>3 DEF PlaceInv, Increasing, Between
<1>15. CASE Summarize
  BY <1>15, PlaceKept DEF Summarize, End, tools
<1>16. CASE WorkerEnds
  BY <1>16, PlaceKept DEF WorkerEnds, control
<1>17. CASE AskToStop
  BY <1>17, PlaceKept DEF AskToStop, tools, control
<1>18. CASE Leave
  BY <1>18, PlaceKept DEF Leave, End, tools
<1>19. CASE UNCHANGED vars
  BY <1>19, PlaceKept DEF vars, control, tools
<1> QED
  BY <1>1, <1>2, <1>3, <1>4, <1>5, <1>6, <1>7, <1>8, <1>9, <1>11, <1>12, <1>13, <1>14,
     <1>15, <1>16, <1>17, <1>18, <1>19 DEF Next, Loop

-----------------------------------------------------------------------------
(* Every step keeps the messages in order.                                 *)

LEMMA MessagesKept ==
  ASSUME MessageInv, UNCHANGED <<round, messages, batch, allowed>>,
         \/ pc' = pc
         \/ pc' = "over"
         \/ pc \in Between \ {"summary"} /\ pc' \in Between
         \/ pc \in Within \ {"screen"} /\ pc' \in Within \ {"screen"}
  PROVE  MessageInv'
<1>1. pc' = pc => Answered' = Answered
  BY DEF Answered
<1>2. pc \in Within \ {"screen"} /\ pc' \in Within \ {"screen"} => Answered' = Answered
  BY DEF Answered, Within
<1> QED BY <1>1, <1>2 DEF MessageInv, Between, Within

LEMMA UserAlone ==
  /\ Whole(<<UserMessage>>) /\ Once(<<UserMessage>>)
  /\ \A r : Past(<<UserMessage>>, Len(<<UserMessage>>), r)
<1> DEFINE m == <<UserMessage>>
<1>1. DOMAIN m = {1} /\ m[1] = UserMessage /\ 1..Len(m) = {1}
  OBVIOUS
<1>2. UserMessage.role = "user" /\ UserMessage.calls = {}
  BY DEF UserMessage
<1> HIDE DEF m
<1>3. Whole(m) /\ Once(m)
  BY <1>1, <1>2 DEF Whole, Once
<1>4. \A r : Past(m, Len(m), r)
  BY <1>1, <1>2 DEF Past
<1> QED BY <1>3, <1>4 DEF m

\* The tool message of the first call that waits.
LEMMA TakeFacts ==
  ASSUME Shape, PlaceInv, MessageInv, Take, allowed # <<>>, pc \in {"gather", "each"}
  PROVE  MessageInv' /\ Extended(messages, messages')
         /\ messages' \in Seq(Message) /\ messages'[Len(messages')] = ToolMessage(Call(Head(allowed)))
<1> DEFINE h == Head(allowed)
           n == Len(batch)
<1>1. /\ allowed' = Tail(allowed) /\ messages' = Append(messages, ToolMessage(Call(h)))
      /\ UNCHANGED <<pc, round, batch>>
  BY DEF Take
<1>2. /\ h \in 1..n /\ h \in ToSet(allowed) /\ Call(h) \in Placed
      /\ ToSet(Tail(allowed)) = ToSet(allowed) \ {h}
  BY HeadFacts
<1>3. messages \in Seq(Message) /\ round \in Nat /\ n \in Nat
  BY ShapeFacts DEF Shape
<1> HIDE DEF h, n
<1>4. /\ messages' \in Seq(Message) /\ Extended(messages, messages')
      /\ messages'[Len(messages')] = ToolMessage(Call(h))
  BY <1>1, <1>2, <1>3, MessageTypes, AppendExtends
<1>5. PICK p \in 1..Len(messages) : Half(messages, p, round, n, Answered)
  BY DEF MessageInv, Within, n
<1>6. Answered = (1..n) \ ToSet(allowed)
  BY DEF Answered, n
<1>7. Answered' = (1..n) \ ToSet(Tail(allowed))
  BY <1>1 DEF Answered, n
<1>8. Answered' = Answered \cup {h}
  BY <1>2, <1>6, <1>7
<1> DEFINE s == <<h>>
           mm == messages \o AnswersTo(round, s)
<1>9. s \in Seq(Nat) /\ Increasing(s) /\ ToSet(s) = {h} /\ Len(s) = Cardinality({h})
  <2>1. h \in Nat /\ Cardinality({h}) = 1
    <3>1. h \in Nat
      BY <1>2, <1>3
    <3>2. Cardinality({h}) = 1
      BY FS_Singleton
    <3> QED BY <3>1, <3>2
  <2>2. s \in Seq(Nat) /\ Len(s) = 1 /\ DOMAIN s = {1} /\ s[1] = h
    BY <2>1
  <2> HIDE DEF s
  <2>3. Increasing(s)
    BY <2>1, <2>2 DEF Increasing
  <2>4. ToSet(s) = {h}
    BY <2>2 DEF ToSet
  <2> QED BY <2>1, <2>2, <2>3, <2>4
<1>10. messages' = mm
  <2> DEFINE t == AnswersTo(round, s)
  <2>1. t = <<ToolMessage(Call(h))>>
    BY DEF Call, AnswersTo
  <2>2. messages \o <<ToolMessage(Call(h))>> = Append(messages, ToolMessage(Call(h)))
    BY <1>2, <1>3, MessageTypes
  <2> HIDE DEF t
  <2>3. mm = messages \o t
    BY DEF t
  <2> QED BY <1>1, <2>1, <2>2, <2>3
<1>11. Answered \in SUBSET (1..n) /\ {h} \in SUBSET ((1..n) \ Answered)
  BY <1>2, <1>6
<1>12. Once(messages)
  BY DEF MessageInv, Within
<1> HIDE DEF s
<1>13. /\ Once(mm) /\ p \in 1..Len(mm) /\ Half(mm, p, round, n, Answered \cup {h})
  <2> HIDE DEF mm
  <2>1. mm = messages \o AnswersTo(round, s)
    BY DEF mm
  <2> QED BY <1>3, <1>5, <1>9, <1>11, <1>12, <2>1, AnswersAppended
<1> HIDE DEF mm
<1>14. Once(messages') /\ p \in 1..Len(messages') /\ Half(messages', p, round', Len(batch'), Answered')
  BY <1>1, <1>8, <1>10, <1>13 DEF n
<1>15. MessageInv'
  BY <1>1, <1>14 DEF MessageInv, Between, Within
<1> QED BY <1>4, <1>15 DEF h

LEMMA MessageStep ==
  ASSUME Shape, PlaceInv, MessageInv, [Next]_vars PROVE MessageInv'
<1>1. CASE Stop
  BY <1>1, MessagesKept DEF Stop, End, tools
<1>2. CASE Start
  <2>1. pc' = "round" /\ messages' = <<UserMessage>>
    BY <1>2 DEF Start
  <2> QED BY <2>1, UserAlone DEF MessageInv, Between, Within
<1>3. CASE StartRound
  BY <1>3, MessagesKept DEF StartRound, tools, Between
<1>4. CASE Ask
  BY <1>4, MessagesKept DEF Ask, End, tools, Between
<1>5. CASE Overflow
  <2>1. pc' = "wait" /\ messages' = <<UserMessage>>
    BY <1>5 DEF Overflow
  <2> QED BY <2>1, UserAlone DEF MessageInv, Between, Within
<1>6. CASE ModelError
  BY <1>6, MessagesKept DEF ModelError, End, tools
<1>7. CASE Answer
  <2>1. UNCHANGED <<round, allowed>> /\ pc = "wait"
    BY <1>7 DEF Answer
  <2>2. /\ messages \in Seq(Message) /\ Whole(messages) /\ Once(messages)
        /\ Past(messages, Len(messages), round)
    BY <2>1 DEF Shape, MessageInv, Between
  <2>3. CASE pc' = "ask" /\ messages' = Append(messages, UserMessage)
    <3>1. Whole(messages') /\ Once(messages') /\ Past(messages', Len(messages'), round)
      BY <2>2, <2>3, UserAppended
    <3> QED BY <2>1, <2>3, <3>1 DEF MessageInv, Between, Within
  <2>4. CASE pc' = "over" /\ UNCHANGED <<messages, batch>>
    BY <2>1, <2>4, MessagesKept
  <2>5. CASE \E names : Called(names)
    <3>1. PICK names : Called(names)
      BY <2>5
    <3>2. Len(names) \in Nat /\ round \in Nat
      BY <3>1, ShapeFacts DEF Called, Batches
    <3>3. messages' = Append(messages, Assistant(CallsOf(round, Len(names))))
      BY <3>1 DEF Called
    <3>4. /\ Once(messages') /\ Len(messages') \in 1..Len(messages')
          /\ Half(messages', Len(messages'), round, Len(names), {})
      <4> DEFINE mm == messages'
                 n == Len(names)
      <4>1. n \in Nat /\ mm = Append(messages, Assistant(CallsOf(round, n)))
        BY <3>2, <3>3
      <4> HIDE DEF mm, n
      <4>2. Once(mm) /\ Len(mm) \in 1..Len(mm) /\ Half(mm, Len(mm), round, n, {})
        BY <2>2, <3>2, <4>1, CallsAppended
      <4> QED BY <4>2 DEF mm, n
    <3>5. pc' = "screen" /\ Len(batch') = Len(names) /\ Answered' = {}
      BY <3>1 DEF Called, Answered
    <3> QED BY <2>1, <3>4, <3>5 DEF MessageInv, Between, Within
  <2> QED BY <1>7, <2>3, <2>4, <2>5, AnswerFacts
<1>8. CASE Screen
  <2>1. PICK B, s : Screened(B, s)
    BY <1>8, ScreenFacts
  <2>2. pc = "screen" /\ pc' \in {"all", "each"} /\ UNCHANGED <<round, batch>>
    BY <1>8, ScreenFacts DEF Screen
  <2>3. /\ messages \in Seq(Message) /\ round \in Nat /\ Len(batch) \in Nat /\ Once(messages)
    BY <2>2, ShapeFacts DEF Shape, MessageInv, Within
  <2>4. PICK p \in 1..Len(messages) : Half(messages, p, round, Len(batch), {})
    BY <2>2 DEF MessageInv, Within, Answered
  <2>5. /\ s \in Seq(Nat) /\ Increasing(s) /\ ToSet(s) = B /\ Len(s) = Cardinality(B)
        /\ messages' = messages \o AnswersTo(round, s)
        /\ B \in SUBSET ((1..Len(batch)) \ {}) /\ {} \in SUBSET (1..Len(batch))
        /\ ToSet(allowed') = (1..Len(batch)) \ B
    BY <2>1 DEF Screened
  <2>6. /\ Once(messages') /\ p \in 1..Len(messages')
        /\ Half(messages', p, round, Len(batch), {} \cup B)
    BY <2>3, <2>4, <2>5, AnswersAppended
  <2>7. Answered' = {} \cup B
    <3>1. Answered' = (1..Len(batch)) \ ToSet(allowed')
      BY <2>2 DEF Answered, ToSet
    <3> QED BY <2>5, <3>1
  <2> QED BY <2>2, <2>6, <2>7 DEF MessageInv, Between, Within
<1>9. CASE StartAll
  BY <1>9, MessagesKept DEF StartAll, Within
<1>10. CASE Gather
  BY <1>10, TakeFacts DEF Gather
<1>11. CASE StartOne
  BY <1>11, MessagesKept DEF StartOne, control
<1>12. CASE TakeOne
  BY <1>12, TakeFacts DEF TakeOne, PlaceInv
<1>13. CASE NextRound
  <2>1. /\ pc \in {"each", "gather"} /\ allowed = <<>>
        /\ \/ pc' = "summary" /\ messages' = Append(messages, UserMessage) /\ round' = round
           \/ pc' = "round" /\ round' = round + 1 /\ messages' = messages
    BY <1>13 DEF NextRound
  <2>2. /\ messages \in Seq(Message) /\ round \in Nat /\ Len(batch) \in Nat /\ Once(messages)
    BY <2>1, ShapeFacts DEF Shape, MessageInv, Within
  <2>3. ToSet(allowed) = {}
    BY <2>1 DEF ToSet
  <2>4. Answered = 1..Len(batch)
    BY <2>1, <2>3 DEF Answered
  <2>5. PICK p \in 1..Len(messages) : Half(messages, p, round, Len(batch), 1..Len(batch))
    BY <2>1, <2>4 DEF MessageInv, Within
  <2>6. Whole(messages) /\ Past(messages, Len(messages), round + 1)
    BY <2>2, <2>5, AllAnswered
  <2>7. CASE pc' = "summary" /\ messages' = Append(messages, UserMessage)
    <3>1. Whole(messages') /\ Once(messages')
      BY <2>2, <2>6, <2>7, UserAppended
    <3> QED BY <2>7, <3>1 DEF MessageInv, Between, Within
  <2>8. CASE pc' = "round" /\ round' = round + 1 /\ messages' = messages
    BY <2>2, <2>6, <2>8 DEF MessageInv, Between, Within
  <2> QED BY <2>1, <2>7, <2>8
<1>14. CASE Summarize
  BY <1>14, MessagesKept DEF Summarize, End, tools
<1>15. CASE WorkerEnds
  BY <1>15, MessagesKept DEF WorkerEnds, control
<1>16. CASE AskToStop
  BY <1>16, MessagesKept DEF AskToStop, tools, control
<1>17. CASE Leave
  BY <1>17, MessagesKept DEF Leave, End, tools
<1>18. CASE UNCHANGED vars
  BY <1>18, MessagesKept DEF vars, control, tools
<1> QED
  BY <1>1, <1>2, <1>3, <1>4, <1>5, <1>6, <1>7, <1>8, <1>9, <1>10, <1>11, <1>12, <1>13, <1>14,
     <1>15, <1>16, <1>17, <1>18 DEF Next, Loop

-----------------------------------------------------------------------------
(* What ran stays before the model.                                        *)

LEMMA RanKept ==
  ASSUME Shape, RanInv, Extended(messages, messages'), messages' \in Seq(Message),
         UNCHANGED <<executed, dropped>>, pc # "over",
         \/ pc' = pc /\ UNCHANGED open
         \/ pc # "each"
         \/ open = {}
  PROVE  RanInv'
<1> SUFFICES ASSUME NEW k \in DOMAIN executed
             PROVE  \/ executed[k].call \in dropped
                    \/ \E i \in DOMAIN messages' : messages'[i] = ToolMessage(executed[k].call)
                    \/ pc' = "each" /\ open' = {executed[k].call}
  BY DEF RanInv, ToolMessage
<1>1. CASE executed[k].call \in dropped
  BY <1>1
<1>2. CASE \E i \in DOMAIN messages : messages[i] = ToolMessage(executed[k].call)
  <2>1. PICK i \in DOMAIN messages : messages[i] = ToolMessage(executed[k].call)
    BY <1>2
  <2>2. i \in DOMAIN messages' /\ messages'[i] = messages[i]
    BY <2>1, ShapeFacts DEF Extended
  <2> QED BY <2>1, <2>2
<1>3. CASE pc = "each" /\ open = {executed[k].call}
  BY <1>3
<1> QED BY <1>1, <1>2, <1>3 DEF RanInv

LEMMA SameExtends == ASSUME NEW m, m \in Seq(Message) PROVE Extended(m, m)
BY DEF Extended

\* A tool that is counted is known by its message or is the one that runs.
LEMMA RanCounted ==
  ASSUME Shape, RanInv, Extended(messages, messages'), messages' \in Seq(Message),
         UNCHANGED dropped, NEW e \in Execution, executed' = Append(executed, e),
         pc # "each" \/ open = {}, pc # "over",
         \/ messages'[Len(messages')] = ToolMessage(e.call) /\ Len(messages') > 0
         \/ pc' = "each" /\ open' = {e.call}
  PROVE  RanInv'
<1>1. executed \in Seq(Execution)
  BY DEF Shape
<1>2. Len(executed') = Len(executed) + 1 /\ DOMAIN executed' = 1..(Len(executed) + 1)
  BY <1>1
<1>3. Len(executed) \in Nat /\ executed'[Len(executed) + 1] = e
  BY <1>1
<1>4. \A k \in 1..Len(executed) : executed'[k] = executed[k]
  BY <1>1
<1> SUFFICES ASSUME NEW k \in DOMAIN executed'
             PROVE  \/ executed'[k].call \in dropped'
                    \/ \E i \in DOMAIN messages' : messages'[i] = ToolMessage(executed'[k].call)
                    \/ pc' = "each" /\ open' = {executed'[k].call}
  BY DEF RanInv, ToolMessage
<1>5. CASE k \in 1..Len(executed)
  <2>1. executed'[k] = executed[k] /\ k \in DOMAIN executed
    BY <1>1, <1>4, <1>5
  <2>2. CASE executed[k].call \in dropped
    BY <2>1, <2>2
  <2>3. CASE \E i \in DOMAIN messages : messages[i] = ToolMessage(executed[k].call)
    <3>1. PICK i \in DOMAIN messages : messages[i] = ToolMessage(executed[k].call)
      BY <2>3
    <3>2. i \in DOMAIN messages' /\ messages'[i] = messages[i]
      BY <3>1, ShapeFacts DEF Extended
    <3> QED BY <2>1, <3>1, <3>2
  <2>4. CASE pc = "each" /\ open = {executed[k].call}
    BY <2>4
  <2> QED BY <2>1, <2>2, <2>3, <2>4 DEF RanInv
<1>6. CASE k = Len(executed) + 1
  <2>1. executed'[k] = e
    BY <1>3, <1>6
  <2>2. Len(messages') > 0 => Len(messages') \in DOMAIN messages'
    OBVIOUS
  <2> QED BY <2>1, <2>2
<1> QED BY <1>2, <1>3, <1>5, <1>6

LEMMA RanStep ==
  ASSUME Shape, PlaceInv, MessageInv, RanInv, [Next]_vars, Shape' PROVE RanInv'
<1>1. Extended(messages, messages)
  BY SameExtends DEF Shape
<1>2. messages' \in Seq(Message)
  BY DEF Shape
<1>3. ASSUME pc' = "over" PROVE RanInv'
  BY <1>3 DEF RanInv
<1>4. CASE Start
  <2>1. executed' = <<>>
    BY <1>4 DEF Start, tools, PlaceInv
  <2>2. DOMAIN executed' = {}
    BY <2>1
  <2> QED BY <2>2 DEF RanInv
<1>5. CASE StartRound
  BY <1>1, <1>2, <1>5, RanKept DEF StartRound, tools
<1>6. CASE Ask
  BY <1>1, <1>2, <1>3, <1>6, RanKept DEF Ask, End, tools
<1>7. CASE Overflow
  <2>1. /\ pc = "wait" /\ executed' = executed
        /\ dropped' = dropped \cup UNION {messages[i].calls : i \in DOMAIN messages}
    BY <1>7 DEF Overflow, tools
  <2>2. ASSUME NEW k \in DOMAIN executed PROVE executed[k].call \in dropped'
    <3>1. CASE executed[k].call \in dropped
      BY <2>1, <3>1
    <3>2. CASE \E i \in DOMAIN messages : messages[i] = ToolMessage(executed[k].call)
      <4>1. PICK i \in DOMAIN messages : messages[i] = ToolMessage(executed[k].call)
        BY <3>2
      <4>2. executed[k].call \in messages[i].calls
        BY <4>1, ToolMessageIs
      <4> QED BY <2>1, <4>2
    <3> QED BY <2>1, <3>1, <3>2 DEF RanInv
  <2> QED BY <2>1, <2>2 DEF RanInv
<1>8. CASE Answer
  <2>1. UNCHANGED <<executed, dropped, open>> /\ pc = "wait"
    BY <1>8 DEF Answer
  <2>2. CASE messages' = Append(messages, UserMessage)
    BY <1>2, <2>1, <2>2, MessageTypes, AppendExtends, RanKept DEF Shape
  <2>3. CASE \E names : Called(names)
    <3>1. PICK names : Called(names)
      BY <2>3
    <3>2. Assistant(CallsOf(round, Len(names))) \in Message
      <4>1. Len(names) \in Nat /\ round \in Nat
        BY <3>1, ShapeFacts DEF Called, Batches
      <4> QED BY <4>1, MessageTypes
    <3>3. Extended(messages, messages')
      BY <3>1, <3>2, AppendExtends DEF Called, Shape
    <3> QED BY <1>2, <2>1, <3>3, RanKept
  <2> QED BY <1>3, <1>8, <2>2, <2>3, AnswerFacts
<1>9. CASE Screen
  <2>1. PICK B, s : Screened(B, s)
    BY <1>9, ScreenFacts
  <2>2. pc = "screen" /\ UNCHANGED <<executed, dropped>>
    BY <1>9 DEF Screen
  <2>3. Extended(messages, messages')
    <3> DEFINE t == AnswersTo(round, s)
    <3>1. t \in Seq(Message)
      <4>1. round \in Nat /\ s \in Seq(Nat)
        BY <2>1, ShapeFacts DEF Screened
      <4>2. t = AnswersTo(round, s)
        OBVIOUS
      <4> HIDE DEF t
      <4> QED BY <4>1, <4>2, AnswersAre
    <3>2. messages \in Seq(Message) /\ messages' = messages \o t
      BY <2>1 DEF Screened, Shape
    <3> HIDE DEF t
    <3>3. Len(messages') = Len(messages) + Len(t) /\ \A j \in 1..Len(messages) : messages'[j] = messages[j]
      BY <3>1, <3>2, Joined
    <3>4. Len(t) \in Nat /\ Len(messages) \in Nat
      BY <3>1, <3>2
    <3>5. Len(messages) <= Len(messages')
      BY <3>3, <3>4
    <3> QED BY <3>3, <3>5 DEF Extended
  <2> QED BY <1>2, <2>2, <2>3, RanKept
<1>10. CASE StartAll
  BY <1>1, <1>2, <1>10, RanKept DEF StartAll
<1>11. CASE Gather
  <2> DEFINE h == Head(allowed)
             e == [name |-> batch[h], call |-> Call(h)]
  <2>1. /\ pc = "gather" /\ allowed # <<>> /\ executed' = Append(executed, e)
        /\ Take /\ UNCHANGED dropped
    BY <1>11 DEF Gather, Count, Take
  <2>2. e \in Execution /\ e.call = Call(h)
    BY <2>1, HeadFacts
  <2>3. /\ Extended(messages, messages')
        /\ messages'[Len(messages')] = ToolMessage(e.call)
    BY <2>1, <2>2, TakeFacts
  <2>4. Len(messages') > 0
    <3>1. messages' = Append(messages, ToolMessage(Call(h))) /\ Call(h) \in Placed
      BY <2>1, HeadFacts DEF Take
    <3>2. Len(messages') = Len(messages) + 1 /\ Len(messages) \in Nat
      BY <3>1, MessageTypes, AppendExtends DEF Shape
    <3> QED BY <3>2
  <2> HIDE DEF e
  <2> QED BY <1>2, <2>1, <2>2, <2>3, <2>4, RanCounted
<1>12. CASE StartOne
  <2> DEFINE h == Head(allowed)
             e == [name |-> batch[h], call |-> Call(h)]
  <2>1. /\ pc = "each" /\ pc' = "each" /\ allowed # <<>> /\ executed' = Append(executed, e)
        /\ open = {} /\ open' = {e.call} /\ UNCHANGED <<messages, dropped>>
    BY <1>12 DEF StartOne, Count, control
  <2>2. e \in Execution
    BY <2>1, HeadFacts
  <2> HIDE DEF e
  <2> QED BY <1>1, <1>2, <2>1, <2>2, RanCounted
<1>13. CASE TakeOne
  <2> DEFINE h == Head(allowed)
  <2>1. /\ pc = "each" /\ pc' = "each" /\ allowed # <<>> /\ open = {Call(h)} /\ Take
        /\ UNCHANGED <<executed, dropped>>
    BY <1>13 DEF TakeOne, PlaceInv, Take
  <2>2. /\ Extended(messages, messages') /\ messages'[Len(messages')] = ToolMessage(Call(h))
    BY <2>1, TakeFacts
  <2>3. Len(messages') \in DOMAIN messages'
    <3>1. messages' = Append(messages, ToolMessage(Call(h))) /\ Call(h) \in Placed
      BY <2>1, HeadFacts DEF Take
    <3>2. Len(messages') = Len(messages) + 1 /\ Len(messages) \in Nat
      BY <3>1, MessageTypes, AppendExtends DEF Shape
    <3> QED BY <1>2, <3>2
  <2> HIDE DEF h
  <2> SUFFICES ASSUME NEW k \in DOMAIN executed
               PROVE  \/ executed[k].call \in dropped
                      \/ \E i \in DOMAIN messages' : messages'[i] = ToolMessage(executed[k].call)
    BY <2>1 DEF RanInv, ToolMessage
  <2>4. CASE executed[k].call \in dropped
    BY <2>4
  <2>5. CASE \E i \in DOMAIN messages : messages[i] = ToolMessage(executed[k].call)
    <3>1. PICK i \in DOMAIN messages : messages[i] = ToolMessage(executed[k].call)
      BY <2>5
    <3>2. i \in DOMAIN messages' /\ messages'[i] = messages[i]
      BY <1>2, <2>2, <3>1, ShapeFacts DEF Extended
    <3> QED BY <3>1, <3>2
  <2>6. CASE open = {executed[k].call}
    <3>1. executed[k].call = Call(h)
      BY <2>1, <2>6
    <3> QED BY <2>2, <2>3, <3>1
  <2> QED BY <2>1, <2>4, <2>5, <2>6 DEF RanInv
<1>14. CASE NextRound
  <2>1. /\ pc \in {"each", "gather"} /\ allowed = <<>> /\ UNCHANGED <<executed, dropped, open>>
        /\ messages' \in {messages, Append(messages, UserMessage)}
    BY <1>14 DEF NextRound
  <2>2. pc = "each" => open = {}
    BY <2>1 DEF PlaceInv
  <2>3. Extended(messages, messages')
    BY <1>1, <2>1, MessageTypes, AppendExtends DEF Shape
  <2> QED BY <1>2, <2>1, <2>2, <2>3, RanKept
<1>15. CASE WorkerEnds
  BY <1>1, <1>2, <1>3, <1>15, RanKept DEF WorkerEnds, control
<1>16. CASE AskToStop
  BY <1>1, <1>2, <1>3, <1>16, RanKept DEF AskToStop, tools, control
<1>17. CASE UNCHANGED vars
  BY <1>1, <1>2, <1>3, <1>17, RanKept DEF vars, tools, control
<1>18. ASSUME Stop \/ ModelError \/ Summarize \/ Leave PROVE RanInv'
  BY <1>3, <1>18 DEF Stop, ModelError, Summarize, Leave, End
<1> QED
  BY <1>4, <1>5, <1>6, <1>7, <1>8, <1>9, <1>10, <1>11, <1>12, <1>13, <1>14,
     <1>15, <1>16, <1>17, <1>18 DEF Next, Loop

-----------------------------------------------------------------------------
(* The guardrails hold after every step.                                   *)

\* The tools that ran, after one more.
LEMMA Counted ==
  ASSUME Shape, NEW e \in Execution, executed' = Append(executed, e)
  PROVE  /\ Len(executed') = Len(executed) + 1
         /\ \A k \in 1..Len(executed) : executed'[k] = executed[k] /\ RoundOf(k)' = RoundOf(k)
         /\ executed'[Len(executed) + 1] = e
         /\ \A k \in DOMAIN executed' : k \in 1..Len(executed) \/ k = Len(executed) + 1
         /\ DOMAIN executed' = 1..(Len(executed) + 1)
BY DEF Shape, RoundOf

\* Both actions that count a tool.
Counts(e) ==
    /\ pc \in {"each", "gather"} /\ pc' = pc /\ allowed # <<>>
    /\ e = [name |-> batch[Head(allowed)], call |-> Call(Head(allowed))]
    /\ executed' = Append(executed, e)
    /\ UNCHANGED <<turn, round, batch>>
    /\ \/ pc = "each" /\ UNCHANGED <<allowed, force>>
          /\ open = {} /\ open' = {Call(Head(allowed))}
       \/ pc = "gather" /\ allowed' = Tail(allowed)
          /\ force' = (force \/ ForcesSummary(batch[Head(allowed)], Len(executed')))

LEMMA CountSteps ==
  ASSUME Gather \/ StartOne PROVE \E e : Counts(e)
<1> DEFINE e == [name |-> batch[Head(allowed)], call |-> Call(Head(allowed))]
<1>1. CASE Gather
  BY <1>1 DEF Gather, Count, Take, Counts
<1>2. CASE StartOne
  BY <1>2 DEF StartOne, Count, Counts, control
<1> QED BY <1>1, <1>2

LEMMA CountsFacts ==
  ASSUME Shape, PlaceInv, NEW e, Counts(e)
  PROVE  /\ e \in Execution /\ executed' = Append(executed, e)
         /\ e.name = batch[Head(allowed)] /\ e.call[1] = round
         /\ Head(allowed) = allowed[1] /\ 1 \in DOMAIN allowed
BY HeadFacts DEF Counts, Call

LEMMA ExecutedAfter ==
  ASSUME Shape, NEW e \in Execution, executed' = Append(executed, e)
  PROVE  ExecutedNames' = ExecutedNames \cup {e.name}
<1>1. \A k \in 1..Len(executed) : executed'[k] = executed[k]
  BY Counted
<1>2. executed'[Len(executed) + 1] = e /\ DOMAIN executed' = 1..(Len(executed) + 1)
  BY Counted
<1>3. Len(executed) \in Nat /\ DOMAIN executed = 1..Len(executed)
  BY ShapeFacts
<1>4. ASSUME NEW x \in ExecutedNames' PROVE x \in ExecutedNames \cup {e.name}
  <2>1. PICK k \in DOMAIN executed' : x = executed'[k].name
    BY DEF ExecutedNames
  <2>2. k \in 1..Len(executed) \/ k = Len(executed) + 1
    BY <1>2, <1>3, <2>1
  <2> QED BY <1>1, <1>2, <1>3, <2>1, <2>2 DEF ExecutedNames
<1>5. ASSUME NEW x \in ExecutedNames PROVE x \in ExecutedNames'
  <2>1. PICK k \in DOMAIN executed : x = executed[k].name
    BY DEF ExecutedNames
  <2>2. k \in DOMAIN executed' /\ x = executed'[k].name
    BY <1>1, <1>2, <1>3, <2>1
  <2> QED BY <2>2 DEF ExecutedNames
<1>6. e.name \in ExecutedNames'
  <2>1. Len(executed) + 1 \in DOMAIN executed'
    BY <1>2, <1>3
  <2> QED BY <1>2, <2>1 DEF ExecutedNames
<1> QED BY <1>4, <1>5, <1>6

-----------------------------------------------------------------------------
(* The budget. *)

LEMMA BudgetSame ==
  ASSUME Shape, BudgetInv, UNCHANGED executed, round' \in {round, round + 1},
         \/ pc' \notin Within \ {"screen"}
         \/ allowed' = <<>>
         \/ Len(executed) < ToolBudget
         \/ pc \in Within \ {"screen"} /\ round' = round /\ allowed # <<>>
  PROVE  BudgetInv'
<1>1. round \in Nat /\ Len(executed) \in Nat /\ ToolBudget \in Nat
  BY ShapeFacts, Bounds
<1>2. \A k \in DOMAIN executed : RoundOf(k) \in Nat
  <2> SUFFICES ASSUME NEW k \in DOMAIN executed PROVE executed[k].call[1] \in Nat
    BY DEF RoundOf
  <2>1. executed[k] \in Execution
    BY DEF Shape
  <2> QED BY <2>1 DEF Execution, Placed
<1>3. \A k : RoundOf(k)' = RoundOf(k)
  BY DEF RoundOf
<1>4. \A k \in DOMAIN executed' : RoundOf(k)' <= round'
  BY <1>1, <1>2, <1>3 DEF BudgetInv
<1>5. BudgetKept'
  BY <1>3 DEF BudgetInv, BudgetKept
<1>6. ASSUME pc' \in Within \ {"screen"}, allowed' # <<>>, Len(executed') >= ToolBudget
      PROVE  RoundOf(ToolBudget)' = round'
  BY <1>1, <1>3, <1>6 DEF BudgetInv
<1> QED BY <1>4, <1>5, <1>6 DEF BudgetInv

LEMMA BudgetCounted ==
  ASSUME Shape, PlaceInv, BudgetInv, NEW e, Counts(e)
  PROVE  BudgetInv'
<1>1. /\ e \in Execution /\ executed' = Append(executed, e) /\ e.call[1] = round
      /\ pc \in Within \ {"screen"} /\ allowed # <<>> /\ round' = round
  BY CountsFacts DEF Counts, Within
<1>2. PICK n \in Nat : n = Len(executed)
  BY ShapeFacts
<1>3. n \in Nat /\ DOMAIN executed = 1..n /\ ToolBudget \in Nat \ {0} /\ round \in Nat
  BY <1>2, ShapeFacts, Bounds
<1>4. /\ Len(executed') = n + 1 /\ DOMAIN executed' = 1..(n + 1)
      /\ \A k \in 1..n : RoundOf(k)' = RoundOf(k)
      /\ RoundOf(n + 1)' = round
  <2>1. RoundOf(n + 1)' = executed'[n + 1].call[1]
    BY DEF RoundOf
  <2> QED BY <1>1, <1>2, <2>1, Counted
<1>5. \A k \in DOMAIN executed' : RoundOf(k)' <= round'
  <2> SUFFICES ASSUME NEW k \in 1..(n + 1) PROVE RoundOf(k)' <= round
    BY <1>1, <1>4
  <2>1. CASE k = n + 1
    BY <1>3, <1>4, <2>1
  <2>2. CASE k # n + 1
    BY <1>3, <1>4, <2>2 DEF BudgetInv
  <2> QED BY <2>1, <2>2
<1>6. n >= ToolBudget => RoundOf(ToolBudget)' = round
  BY <1>1, <1>3, <1>4, <1>2 DEF BudgetInv
<1>7. n + 1 >= ToolBudget => RoundOf(ToolBudget)' = round
  <2>1. CASE n + 1 = ToolBudget
    BY <1>4, <2>1
  <2>2. CASE n + 1 # ToolBudget
    BY <1>3, <1>6, <2>2
  <2> QED BY <2>1, <2>2
<1>8. BudgetKept'
  <2> SUFFICES ASSUME NEW k \in 1..(n + 1), k > ToolBudget PROVE RoundOf(k)' = RoundOf(ToolBudget)'
    BY <1>4 DEF BudgetKept
  <2>1. CASE k = n + 1
    BY <1>3, <1>4, <1>7, <2>1
  <2>2. CASE k # n + 1
    <3>1. k \in 1..n /\ ToolBudget \in 1..n
      BY <1>3, <2>2
    <3>2. RoundOf(k) = RoundOf(ToolBudget)
      BY <1>3, <3>1 DEF BudgetInv, BudgetKept
    <3> QED BY <1>4, <3>1, <3>2
  <2> QED BY <2>1, <2>2
<1> QED BY <1>1, <1>4, <1>5, <1>7, <1>8 DEF BudgetInv

LEMMA BudgetStep ==
  ASSUME Shape, PlaceInv, BudgetInv, [Next]_vars PROVE BudgetInv'
<1> USE DEF Within
<1>1. ASSUME Stop \/ Start \/ StartRound \/ Ask \/ Overflow \/ ModelError \/ Summarize \/ Leave
      PROVE  BudgetInv'
  BY <1>1, BudgetSame DEF Stop, Start, StartRound, Ask, Overflow, ModelError, Summarize, Leave,
                          End, tools, control
<1>2. CASE Answer
  <2>1. pc' \notin Within \ {"screen"}
    BY <1>2, AnswerFacts DEF Called
  <2> QED BY <1>2, <2>1, BudgetSame DEF Answer
<1>3. CASE Screen
  <2>1. allowed' \in Seq(Nat) /\ \A i \in ToSet(allowed') : ~Blocked(batch[i])
    BY <1>3, ScreenFacts
  <2>2. allowed' = <<>> \/ Len(executed) < ToolBudget
    <3> SUFFICES ASSUME allowed' # <<>> PROVE Len(executed) < ToolBudget
      OBVIOUS
    <3>1. 1 \in 1..Len(allowed')
      BY <2>1
    <3>2. allowed'[1] \in ToSet(allowed')
      BY <2>1, <3>1, InToSet
    <3>3. ~(Len(executed) >= ToolBudget)
      BY <2>1, <3>2 DEF Blocked
    <3> QED BY <3>3, ShapeFacts, Bounds
  <2>3. UNCHANGED <<executed, round>>
    BY <1>3 DEF Screen
  <2> QED BY <2>2, <2>3, BudgetSame
<1>4. CASE StartAll
  BY <1>4, BudgetSame DEF StartAll, PlaceInv
<1>5. ASSUME Gather \/ StartOne PROVE BudgetInv'
  BY <1>5, CountSteps, BudgetCounted
<1>6. CASE TakeOne
  BY <1>6, BudgetSame DEF TakeOne, Take, PlaceInv
<1>7. CASE NextRound
  BY <1>7, BudgetSame DEF NextRound
<1>8. CASE WorkerEnds \/ AskToStop \/ UNCHANGED vars
  <2>1. UNCHANGED <<pc, round, allowed, executed>>
    BY <1>8 DEF WorkerEnds, AskToStop, vars, control, tools
  <2> QED BY <2>1, BudgetSame
<1> QED
  BY <1>1, <1>2, <1>3, <1>4, <1>5, <1>6, <1>7, <1>8 DEF Next, Loop

-----------------------------------------------------------------------------
(* The lead search is the last. *)

LEMMA SearchSame ==
  ASSUME SearchInv, UNCHANGED <<executed, round>>,
         \/ pc \notin {"each", "gather", "summary", "over"}
         \/ pc' = "over"
         \/ UNCHANGED <<pc, allowed, batch, open, force>>
  PROVE  SearchInv'
<1>1. \A j : RoundOf(j)' = RoundOf(j)
  BY DEF RoundOf
<1>2. CASE pc \notin {"each", "gather", "summary", "over"}
  BY <1>1, <1>2 DEF SearchInv
<1>3. CASE pc' = "over"
  BY <1>1, <1>3 DEF SearchInv
<1>4. CASE UNCHANGED <<pc, allowed, batch, open, force>>
  BY <1>1, <1>4 DEF SearchInv
<1> QED BY <1>2, <1>3, <1>4

LEMMA SearchCounted ==
  ASSUME Shape, PlaceInv, SearchInv, NEW e, Counts(e)
  PROVE  SearchInv'
<1>1. /\ e \in Execution /\ executed' = Append(executed, e) /\ e.call[1] = round
      /\ e.name = batch[Head(allowed)] /\ round' = round /\ batch' = batch
      /\ pc \in {"each", "gather"} /\ pc' = pc
  BY CountsFacts DEF Counts
<1>2. force => force'
  BY DEF Counts
<1>3. pc = "each" => open = {} /\ open' # {} /\ Head(allowed') = Head(allowed)
  BY DEF Counts
<1>4. pc = "gather" /\ e.name = "discover_leads" => force'
  BY <1>1 DEF Counts, ForcesSummary
<1> DEFINE n == Len(executed)
<1>5. n \in Nat /\ DOMAIN executed = 1..n
  BY ShapeFacts
<1>6. /\ DOMAIN executed' = 1..(n + 1) /\ executed'[n + 1] = e
      /\ \A k \in 1..n : executed'[k] = executed[k]
  BY <1>1, Counted
<1> HIDE DEF n
<1>7. \A j : RoundOf(j)' = executed'[j].call[1]
  BY DEF RoundOf
<1> SUFFICES ASSUME NEW j \in 1..(n + 1), executed'[j].name = "discover_leads"
             PROVE  /\ executed'[j].call[1] = round
                    /\ pc = "gather" => force'
                    /\ pc = "each" => force' \/ batch[Head(allowed)] = "discover_leads"
  BY <1>1, <1>3, <1>6, <1>7 DEF SearchInv
<1>8. CASE j = n + 1
  BY <1>1, <1>4, <1>6, <1>8
<1>9. CASE j # n + 1
  <2>1. j \in DOMAIN executed /\ executed'[j] = executed[j]
    BY <1>5, <1>6, <1>9
  <2>2. /\ RoundOf(j) = round /\ (pc = "gather" => force)
        /\ (pc = "each" => force \/ open # {})
    BY <2>1 DEF SearchInv
  <2> QED BY <1>2, <1>3, <2>1, <2>2 DEF RoundOf
<1> QED BY <1>8, <1>9

LEMMA SearchStep ==
  ASSUME Shape, PlaceInv, SearchInv, [Next]_vars PROVE SearchInv'
<1>1. ASSUME Stop \/ Start \/ StartRound \/ Ask \/ Overflow \/ ModelError \/ Answer \/ Screen
             \/ StartAll \/ Summarize \/ Leave
      PROVE  SearchInv'
  BY <1>1, SearchSame DEF Stop, Start, StartRound, Ask, Overflow, ModelError, Answer, Screen,
                          StartAll, Summarize, Leave, End, tools, control
<1>2. ASSUME Gather \/ StartOne PROVE SearchInv'
  BY <1>2, CountSteps, SearchCounted
<1>3. CASE TakeOne
  <2>1. /\ pc = "each" /\ pc' = pc /\ UNCHANGED <<round, executed>>
        /\ force' = (force \/ ForcesSummary(batch[Head(allowed)], Len(executed')))
    BY <1>3 DEF TakeOne, Take
  <2>2. \A j : RoundOf(j)' = RoundOf(j)
    BY <2>1 DEF RoundOf
  <2>3. batch[Head(allowed)] = "discover_leads" => force'
    BY <2>1 DEF ForcesSummary
  <2> QED BY <2>1, <2>2, <2>3 DEF SearchInv
<1>4. CASE NextRound
  <2>1. /\ pc \in {"each", "gather"} /\ allowed = <<>> /\ UNCHANGED executed
        /\ force => pc' = "summary" /\ round' = round
    BY <1>4 DEF NextRound
  <2>2. \A j : RoundOf(j)' = RoundOf(j)
    BY <2>1 DEF RoundOf
  <2>3. pc = "each" => open = {}
    BY <2>1 DEF PlaceInv
  <2> QED BY <2>1, <2>2, <2>3 DEF SearchInv
<1>5. CASE WorkerEnds \/ AskToStop \/ UNCHANGED vars
  <2>1. UNCHANGED <<executed, round, pc, allowed, batch, open, force>>
    BY <1>5 DEF WorkerEnds, AskToStop, vars, control, tools
  <2> QED BY <2>1, SearchSame
<1> QED BY <1>1, <1>2, <1>3, <1>4, <1>5 DEF Next, Loop

-----------------------------------------------------------------------------
(* A turn that looks up an ASN does nothing else. *)

LEMMA LookSame ==
  ASSUME LookInv, UNCHANGED <<turn, executed>>,
         \/ UNCHANGED <<batch, allowed>>
         \/ allowed' = <<>>
  PROVE  LookInv'
<1>1. LookupOnly' = LookupOnly
  BY DEF LookupOnly, ExecutedNames
<1>2. allowed' = <<>> => DOMAIN allowed' = {}
  OBVIOUS
<1> QED BY <1>1, <1>2 DEF LookInv

LEMMA LookStep ==
  ASSUME Shape, PlaceInv, LookInv, [Next]_vars PROVE LookInv'
<1>1. ASSUME Stop \/ Start \/ StartRound \/ Ask \/ Overflow \/ ModelError \/ StartAll
             \/ Summarize \/ Leave \/ WorkerEnds \/ AskToStop \/ UNCHANGED vars
      PROVE  LookInv'
  BY <1>1, LookSame DEF Stop, Start, StartRound, Ask, Overflow, ModelError, StartAll,
                        Summarize, Leave, WorkerEnds, AskToStop, End, vars, tools, control
<1>2. CASE Answer
  <2>1. pc = "wait" /\ UNCHANGED <<turn, executed, allowed>>
    BY <1>2 DEF Answer
  <2> QED BY <2>1, LookSame DEF PlaceInv, Between
<1>3. CASE Screen
  <2>1. UNCHANGED <<turn, executed, batch>>
    BY <1>3 DEF Screen
  <2>2. LookupOnly' = LookupOnly
    BY <2>1 DEF LookupOnly, ExecutedNames
  <2>3. allowed' \in Seq(Nat) /\ \A i \in ToSet(allowed') : ~Blocked(batch[i])
    BY <1>3, ScreenFacts
  <2>4. ASSUME turn.asn, NEW k \in DOMAIN allowed' PROVE batch[allowed'[k]] = "lookup_asns"
    <3>1. allowed'[k] \in ToSet(allowed')
      BY DEF ToSet
    <3>2. ~(Len(executed) >= ToolBudget) /\ ~MustLookup(batch[allowed'[k]])
      BY <2>3, <3>1 DEF Blocked
    <3>3. Len(executed) < ToolBudget
      BY <3>2, ShapeFacts, Bounds
    <3> QED BY <2>4, <3>2, <3>3 DEF MustLookup
  <2> QED BY <2>1, <2>2, <2>4 DEF LookInv
<1>4. ASSUME Gather \/ StartOne PROVE LookInv'
  <2>1. PICK e : Counts(e)
    BY <1>4, CountSteps
  <2>2. /\ e \in Execution /\ executed' = Append(executed, e)
        /\ e.name = batch[Head(allowed)]
        /\ Head(allowed) = allowed[1] /\ 1 \in DOMAIN allowed
    BY <2>1, CountsFacts
  <2>3. UNCHANGED <<turn, batch>>
    BY <2>1 DEF Counts
  <2>4. \A k \in DOMAIN allowed' : \E i \in DOMAIN allowed : allowed'[k] = allowed[i]
    <3>1. CASE allowed' = allowed
      BY <3>1
    <3>2. CASE allowed' = Tail(allowed)
      <4>1. allowed # <<>>
        BY <2>1 DEF Counts
      <4> QED BY <3>2, <4>1, HeadFacts
    <3> QED BY <2>1, <3>1, <3>2 DEF Counts
  <2>5. turn.asn => e.name = "lookup_asns"
    BY <2>2 DEF LookInv
  <2>6. ExecutedNames' = ExecutedNames \cup {e.name}
    BY <2>2, ExecutedAfter
  <2> QED BY <2>3, <2>4, <2>5, <2>6 DEF LookInv, LookupOnly
<1>5. CASE TakeOne
  <2>1. /\ UNCHANGED <<turn, executed, batch>> /\ allowed' = Tail(allowed) /\ allowed # <<>>
    BY <1>5 DEF TakeOne, Take, PlaceInv
  <2>2. \A k \in DOMAIN allowed' : \E i \in DOMAIN allowed : allowed'[k] = allowed[i]
    BY <2>1, HeadFacts
  <2>3. LookupOnly' = LookupOnly
    BY <2>1 DEF LookupOnly, ExecutedNames
  <2> QED BY <2>1, <2>2, <2>3 DEF LookInv
<1>6. CASE NextRound
  BY <1>6, LookSame DEF NextRound
<1> QED BY <1>1, <1>2, <1>3, <1>4, <1>5, <1>6 DEF Next, Loop

-----------------------------------------------------------------------------
(* The invariant and what follows from it.                                 *)

LEMMA InvInit == Init => Inv
<1> SUFFICES ASSUME Init PROVE Inv
  OBVIOUS
<1> USE DEF Init, Between, Within
<1>1. DOMAIN messages = {} /\ DOMAIN allowed = {} /\ DOMAIN executed = {} /\ 1..Len(messages) = {}
      /\ Len(batch) = 0
  OBVIOUS
<1>2. Shape
  <2>1. Len(batch) <= MaxOpen
    BY <1>1, MaxOpenIs
  <2>2. <<>> \in Seq(Message) /\ <<>> \in Seq(Named) /\ <<>> \in Seq(Nat) /\ <<>> \in Seq(Execution)
    OBVIOUS
  <2>3. /\ turn \in AskedTurns /\ pc \in Between /\ pc # "over" /\ ending = "none"
        /\ recovered \in BOOLEAN /\ force \in BOOLEAN /\ stopAsked \in BOOLEAN
        /\ open \subseteq Placed /\ running \subseteq open
    OBVIOUS
  <2>4. round \in 0..(MaxRounds - 1) /\ asks \in 0..MaxAsks /\ nudges \in 0..MaxNudges
    BY SetTypes
  <2>5. messages = <<>> /\ batch = <<>> /\ allowed = <<>> /\ executed = <<>>
    OBVIOUS
  <2> HIDE DEF Init, Between, Within
  <2> QED BY <2>1, <2>2, <2>3, <2>4, <2>5 DEF Shape
<1>3. PlaceInv
  BY <1>1 DEF PlaceInv, Increasing
<1>4. MessageInv
  BY <1>1 DEF MessageInv, Whole, Once, Past
<1>5. RanInv
  BY <1>1 DEF RanInv
<1>6. GuardInv
  <2>1. BudgetInv
    BY <1>1 DEF BudgetInv, BudgetKept
  <2>2. SearchInv
    BY <1>1 DEF SearchInv
  <2>3. LookInv
    BY <1>1 DEF LookInv, LookupOnly, ExecutedNames
  <2> QED BY <2>1, <2>2, <2>3 DEF GuardInv
<1> QED BY <1>2, <1>3, <1>4, <1>5, <1>6 DEF Inv

LEMMA InvStep == Inv /\ [Next]_vars => Inv'
<1> SUFFICES ASSUME Inv, [Next]_vars PROVE Inv'
  OBVIOUS
<1>1. Shape /\ PlaceInv /\ MessageInv /\ RanInv /\ BudgetInv /\ SearchInv /\ LookInv
  BY DEF Inv, GuardInv
<1>2. Shape'
  BY <1>1, ShapeStep
<1>3. PlaceInv'
  BY <1>1, PlaceStep
<1>4. MessageInv'
  BY <1>1, MessageStep
<1>5. RanInv'
  BY <1>1, <1>2, RanStep
<1>6. BudgetInv'
  BY <1>1, BudgetStep
<1>7. SearchInv'
  BY <1>1, SearchStep
<1>8. LookInv'
  BY <1>1, LookStep
<1> QED BY <1>2, <1>3, <1>4, <1>5, <1>6, <1>7, <1>8 DEF Inv, GuardInv

LEMMA Invariant == Spec => []Inv
BY InvInit, InvStep, PTL DEF Spec

\* A request whose messages are whole has, behind each assistant message, the
\* tool messages of its calls and nothing else.
LEMMA WholeIsFollowed ==
  ASSUME Shape, Whole(messages), NEW i \in DOMAIN messages, messages[i].role = "assistant"
  PROVE  /\ ToSet(Following(i)) = {ToolMessage(c) : c \in messages[i].calls}
         /\ Len(Following(i)) = Cardinality(messages[i].calls)
<1> DEFINE calls == messages[i].calls
           n == Cardinality(calls)
           f == Following(i)
<1>1. Block(messages, i)
  BY DEF Whole
<1>2. IsFiniteSet(calls) /\ i + n <= Len(messages)
  BY <1>1 DEF Block
<1>3. /\ \A j \in (i + 1)..(i + n) : \E c \in calls : messages[j] = ToolMessage(c)
      /\ \A c \in calls : \E j \in (i + 1)..(i + n) : messages[j] = ToolMessage(c)
  BY <1>1 DEF Block
<1>4. n \in Nat
  BY <1>2, FS_CardinalityType
<1>5. messages \in Seq(Message) /\ Len(messages) \in Nat /\ i \in 1..Len(messages)
  BY ShapeFacts DEF Shape
<1>6. f = SubSeq(messages, i + 1, Min({Len(messages), i + n}))
  BY DEF Following
<1> HIDE DEF calls, n, f
<1>7. Min({Len(messages), i + n}) = i + n
  <2>1. \E x \in {Len(messages), i + n} : \A y \in {Len(messages), i + n} : x <= y
    BY <1>2, <1>4, <1>5
  <2>2. /\ Min({Len(messages), i + n}) \in {Len(messages), i + n}
        /\ \A y \in {Len(messages), i + n} : Min({Len(messages), i + n}) <= y
    BY <2>1 DEF Min
  <2> QED BY <1>2, <1>4, <1>5, <2>2
<1>8. /\ Len(f) = n /\ DOMAIN f = 1..n
      /\ \A k \in 1..n : f[k] = messages[i + k] /\ i + k \in (i + 1)..(i + n)
  <2>1. f = SubSeq(messages, i + 1, i + n)
    BY <1>6, <1>7
  <2>2. /\ i + 1 \in Int /\ i + n \in Int /\ (i + n) - (i + 1) + 1 = n
        /\ (IF i + 1 <= i + n THEN (i + n) - (i + 1) + 1 ELSE 0) = n
    BY <1>4, <1>5
  <2>3. \A k \in (i + 1)..(i + n) : messages[k] \in Message
    BY <1>2, <1>4, <1>5
  <2> DEFINE a == i + 1
             b == i + n
  <2>4. a \in Int /\ b \in Int /\ \A k \in a..b : messages[k] \in Message
    BY <2>2, <2>3
  <2> HIDE DEF a, b
  <2>5. /\ SubSeq(messages, a, b) \in Seq(Message)
        /\ Len(SubSeq(messages, a, b)) = IF a <= b THEN b - a + 1 ELSE 0
        /\ \A k \in 1..(b - a + 1) : SubSeq(messages, a, b)[k] = messages[a + k - 1]
    BY <2>4, SubSeqProperties
  <2>6. Len(f) = n /\ f \in Seq(Message)
    BY <2>1, <2>2, <2>5 DEF a, b
  <2>7. \A k \in 1..n : f[k] = messages[(i + 1) + k - 1]
    BY <2>1, <2>2, <2>5 DEF a, b
  <2>8. \A k \in 1..n : i + k \in (i + 1)..(i + n) /\ (i + 1) + k - 1 = i + k
    BY <1>4, <1>5
  <2> QED BY <2>6, <2>7, <2>8
<1>9. ToSet(f) = {ToolMessage(c) : c \in calls}
  <2>1. ASSUME NEW x \in ToSet(f) PROVE \E c \in calls : x = ToolMessage(c)
    <3>1. PICK k \in 1..n : x = f[k]
      BY <1>8, <2>1 DEF ToSet
    <3> QED BY <1>3, <1>8, <3>1
  <2>2. ASSUME NEW c \in calls PROVE ToolMessage(c) \in ToSet(f)
    <3>1. PICK j \in (i + 1)..(i + n) : messages[j] = ToolMessage(c)
      BY <1>3
    <3>2. j - i \in 1..n /\ i + (j - i) = j
      BY <1>4, <1>5
    <3>3. f[j - i] = ToolMessage(c)
      BY <1>8, <3>1, <3>2
    <3> QED BY <1>8, <3>2, <3>3 DEF ToSet
  <2> QED BY <2>1, <2>2
<1> QED BY <1>8, <1>9 DEF calls, n, f

LEMMA InvRequests == Inv => WellFormed /\ ResultsKept
<1> SUFFICES ASSUME Inv, pc \in {"wait", "summary"}
             PROVE  /\ \A i \in DOMAIN messages : messages[i].role = "assistant" =>
                          /\ ToSet(Following(i)) = {ToolMessage(c) : c \in messages[i].calls}
                          /\ Len(Following(i)) = Cardinality(messages[i].calls)
                    /\ \A i \in DOMAIN messages : messages[i].role = "tool" =>
                          Cardinality({j \in DOMAIN messages : messages[j] = messages[i]}) = 1
                    /\ \A k \in DOMAIN executed :
                          \/ executed[k].call \in dropped
                          \/ \E i \in DOMAIN messages : messages[i] = ToolMessage(executed[k].call)
  BY DEF WellFormed, ResultsKept
<1>1. Shape /\ Whole(messages) /\ Once(messages) /\ RanInv
  BY DEF Inv, MessageInv, Between
<1>2. ASSUME NEW i \in DOMAIN messages, messages[i].role = "tool"
      PROVE  Cardinality({j \in DOMAIN messages : messages[j] = messages[i]}) = 1
  <2>1. {j \in DOMAIN messages : messages[j] = messages[i]} = {i}
    BY <1>1, <1>2 DEF Once
  <2> QED BY <2>1, FS_Singleton
<1>3. ASSUME NEW k \in DOMAIN executed
      PROVE  \/ executed[k].call \in dropped
             \/ \E i \in DOMAIN messages : messages[i] = ToolMessage(executed[k].call)
  BY <1>1 DEF RanInv
<1> QED BY <1>1, <1>2, <1>3, WholeIsFollowed

LEMMA InvGuards == Inv => Guardrails
<1> SUFFICES ASSUME Inv PROVE Guardrails
  OBVIOUS
<1>1. BudgetKept
  BY DEF Inv, GuardInv, BudgetInv
<1>2. DiscoverIsLast
  BY DEF Inv, GuardInv, BudgetInv, SearchInv, DiscoverIsLast
<1>3. turn.asn => ExecutedNames \subseteq {"lookup_asns"}
  BY DEF Inv, GuardInv, LookInv, LookupOnly
<1> QED BY <1>1, <1>2, <1>3 DEF Guardrails, LookupOnly

LEMMA InvType == Inv => TypeOK
<1> SUFFICES ASSUME Inv PROVE TypeOK
  OBVIOUS
<1>1. \A k \in DOMAIN allowed : allowed[k] \in DOMAIN batch
  BY DEF Inv, PlaceInv
<1> QED BY <1>1 DEF Inv, Shape, TypeOK, Between, Within

-----------------------------------------------------------------------------
(* The reader's view. *)

\* The allowed calls, counted.
LEMMA CallsCount ==
  ASSUME Shape, PlaceInv
  PROVE  /\ IsFiniteSet(Calls(allowed)) /\ Cardinality(Calls(allowed)) \in Nat
         /\ Cardinality(Calls(allowed)) <= MaxOpen
         /\ allowed # <<>> => Cardinality(Calls(allowed)) > 0
<1> DEFINE T == ToSet(allowed)
           C == {Call(i) : i \in T}
<1>1. Len(batch) \in Nat /\ Len(batch) <= MaxOpen /\ MaxOpen \in Nat
  BY MaxOpenIs, ShapeFacts DEF Shape
<1>2. T \in SUBSET (1..Len(batch))
  BY ShapeFacts DEF PlaceInv, ToSet
<1>3. Calls(allowed) = C
  BY CallsAre
<1>4. allowed # <<>> => C # {}
  <2> SUFFICES ASSUME allowed # <<>> PROVE C # {}
    OBVIOUS
  <2>1. Head(allowed) \in T
    BY HeadFacts
  <2> QED BY <2>1
<1> HIDE DEF T
<1>5. IsFiniteSet(T) /\ Cardinality(T) \in Nat /\ Cardinality(T) <= Len(batch)
  BY <1>1, <1>2, PartOfInterval
<1>6. IsFiniteSet(C) /\ Cardinality(C) = Cardinality(T)
  <2> DEFINE f == [i \in T |-> Call(i)]
  <2>1. f \in [T -> C]
    OBVIOUS
  <2>2. \A i, j \in T : f[i] = f[j] => i = j
    BY CallsAre
  <2>3. \A c \in C : \E i \in T : f[i] = c
    OBVIOUS
  <2> HIDE DEF f, C
  <2>4. f \in Bijection(T, C)
    BY <2>1, <2>2, <2>3 DEF Bijection, Injection, Surjection, IsInjective
  <2> QED BY <1>5, <2>4, FS_Bijection DEF ExistsBijection
<1> HIDE DEF C
<1>7. C # {} => Cardinality(C) # 0
  BY <1>6, FS_EmptySet
<1> QED BY <1>1, <1>3, <1>4, <1>5, <1>6, <1>7

LEMMA NoneOpen == Cardinality({}) = 0
BY FS_EmptySet

LEMMA OneOpen == \A c : IsFiniteSet({c}) /\ Cardinality({c}) = 1
BY FS_Singleton

LEMMA StreamInit == Init => Stream!Init
BY NoneOpen DEF Init, Stream!Init

\* The end of the turn is the end of the stream.
LEMMA EndIsDone ==
  ASSUME ending = "none", open = {}, UNCHANGED <<open, stopAsked>>,
         ending' \in {"reply", "error"} \/ (ending' = "stopped" /\ stopAsked)
  PROVE  Stream!Done
BY NoneOpen DEF Stream!Done

LEMMA StreamStep ==
  ASSUME Shape, PlaceInv, [Next]_vars PROVE [Stream!Next]_(Stream!vars)
<1> USE DEF Between
<1>1. pc # "over" => ending = "none"
  BY DEF Shape
<1>2. pc \in Between => open = {}
  BY DEF PlaceInv
<1>3. ASSUME UNCHANGED <<open, ending, stopAsked>> PROVE UNCHANGED Stream!vars
  BY <1>3 DEF Stream!vars
<1>4. ASSUME Stop \/ ModelError \/ Summarize PROVE Stream!Done
  <2>1. pc \in Between /\ UNCHANGED <<open, stopAsked>>
    BY <1>4 DEF Stop, ModelError, Summarize, tools
  <2>2. ending' \in {"reply", "error"} \/ (ending' = "stopped" /\ stopAsked)
    BY <1>4 DEF Stop, ModelError, Summarize, End
  <2> QED BY <1>1, <1>2, <2>1, <2>2, EndIsDone
<1>5. CASE Ask
  <2>1. CASE ending' = ending
    BY <1>3, <1>5, <2>1 DEF Ask, tools
  <2>2. CASE ending' # ending
    <3>1. pc = "ask" /\ ending' = "reply" /\ UNCHANGED <<open, stopAsked>>
      BY <1>5, <2>2 DEF Ask, End, tools
    <3>2. Stream!Done
      BY <1>1, <1>2, <3>1, EndIsDone
    <3> QED BY <3>2 DEF Stream!Next
  <2> QED BY <2>1, <2>2
<1>6. CASE Answer
  <2>1. pc = "wait" /\ UNCHANGED <<open, stopAsked>>
    BY <1>6 DEF Answer
  <2>2. ending' = ending \/ ending' \in {"error", "reply"}
    BY <1>6, AnswerFacts DEF Called
  <2>3. CASE ending' = ending
    BY <1>3, <2>1, <2>3
  <2>4. CASE ending' \in {"error", "reply"}
    <3>1. Stream!Done
      BY <1>1, <1>2, <2>1, <2>4, EndIsDone
    <3> QED BY <3>1 DEF Stream!Next
  <2> QED BY <2>2, <2>3, <2>4
<1>7. ASSUME Start \/ StartRound \/ Overflow \/ Screen \/ NextRound \/ WorkerEnds \/ UNCHANGED vars
      PROVE  UNCHANGED <<open, ending, stopAsked>>
  BY <1>7 DEF Start, StartRound, Overflow, Screen, NextRound, WorkerEnds, vars, tools
<1>8. CASE StartAll
  <2>1. /\ pc = "all" /\ open = {} /\ open' = Calls(allowed) /\ allowed # <<>>
        /\ UNCHANGED <<ending, stopAsked>>
    BY <1>8 DEF StartAll, PlaceInv
  <2>2. /\ Cardinality(open) = 0 /\ Cardinality(open') \in 1..MaxOpen /\ MaxOpen \in Nat
    BY <2>1, CallsCount, MaxOpenIs, NoneOpen
  <2>3. Stream!Announce
    BY <1>1, <2>1, <2>2 DEF Stream!Announce, MaxOpen
  <2> QED BY <2>3 DEF Stream!Next
<1>9. CASE StartOne
  <2>1. /\ pc = "each" /\ open = {} /\ open' = {Call(Head(allowed))}
        /\ UNCHANGED <<ending, stopAsked>>
    BY <1>9 DEF StartOne
  <2>2. /\ Cardinality(open) = 0 /\ Cardinality(open') = 1 /\ MaxOpen \in Nat \ {0}
    BY <2>1, OneOpen, MaxOpenIs, NoneOpen
  <2>3. Stream!Announce
    BY <1>1, <2>1, <2>2 DEF Stream!Announce, MaxOpen
  <2> QED BY <2>3 DEF Stream!Next
<1>10. CASE Gather
  <2>1. /\ pc = "gather" /\ open = Calls(allowed) /\ allowed # <<>>
        /\ open' = open \ {Call(Head(allowed))} /\ UNCHANGED <<ending, stopAsked>>
    BY <1>10 DEF Gather, Take, PlaceInv
  <2>2. Call(Head(allowed)) \in open
    BY <2>1, HeadFacts, CallsAre
  <2>3. IsFiniteSet(open) /\ Cardinality(open) \in Nat /\ Cardinality(open) > 0
    BY <2>1, CallsCount
  <2>4. Cardinality(open') = Cardinality(open) - 1
    BY <2>1, <2>2, <2>3, FS_RemoveElement
  <2>5. Stream!Result
    BY <1>1, <2>1, <2>3, <2>4 DEF Stream!Result
  <2> QED BY <2>5 DEF Stream!Next
<1>11. CASE TakeOne
  <2>1. /\ pc = "each" /\ open = {Call(Head(allowed))} /\ open' = {}
        /\ UNCHANGED <<ending, stopAsked>>
    BY <1>11 DEF TakeOne, Take, PlaceInv
  <2>2. Cardinality(open) = 1 /\ Cardinality(open') = 0
    BY <2>1, OneOpen, NoneOpen
  <2>3. Stream!Result
    BY <1>1, <2>1, <2>2 DEF Stream!Result
  <2> QED BY <2>3 DEF Stream!Next
<1>12. CASE AskToStop
  <2>1. Stream!AskToStop
    BY <1>12 DEF AskToStop, Stream!AskToStop, tools
  <2> QED BY <2>1 DEF Stream!Next
<1>13. CASE Leave
  <2>1. Stream!Leave
    BY <1>13 DEF Leave, End, Stream!Leave, tools
  <2> QED BY <2>1 DEF Stream!Next
<1> QED
  BY <1>3, <1>4, <1>5, <1>6, <1>7, <1>8, <1>9, <1>10, <1>11, <1>12, <1>13
     DEF Next, Loop, Stream!Next

-----------------------------------------------------------------------------
(* The theorems.                                                           *)

\* The state is well formed in every reachable state.
THEOREM TypeCorrect == Spec => []TypeOK
BY Invariant, InvType, PTL

\* In every request of a turn each call of an assistant message has exactly one
\* tool message, and they follow it before anything else, whatever the model
\* asks for, however its calls are screened and in whichever way they are run.
THEOREM RequestsWellFormed == Spec => []WellFormed
BY Invariant, InvRequests, PTL

\* Every tool that ran is before the model in every later request of the turn,
\* unless the thread was compressed on an overflow.
THEOREM ResultsBeforeModel == Spec => []ResultsKept
BY Invariant, InvRequests, PTL

\* The budget of tools, the lead search that is the last and the look-up that is
\* alone hold over the whole turn, not only for the call that is screened.
THEOREM GuardrailsHold == Spec => []Guardrails
BY Invariant, InvGuards, PTL

\* Every step of the turn is, for who reads it, a step of TurnStream or none: a
\* tool announced has its result before the stream ends, the stream ends once,
\* and it says it was stopped only when somebody asked for it.  (That it ends is
\* left to the fairness the run assumes.)
THEOREM StreamImplemented == Spec => Stream!Init /\ [][Stream!Next]_(Stream!vars)
<1>1. Inv => Shape /\ PlaceInv
  BY DEF Inv
<1>2. Inv /\ [Next]_vars => [Stream!Next]_(Stream!vars)
  BY <1>1, StreamStep
<1> QED BY <1>2, Invariant, StreamInit, PTL DEF Spec
=============================================================================
