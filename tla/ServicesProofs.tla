---------------------------- MODULE ServicesProofs ----------------------------
(***************************************************************************)
(* What the parts that share no state promise, proved of the composition   *)
(* that MCServices checks: a step of one part leaves the others' variables *)
(* alone (StepOf), so each part has an inductive invariant of its own.     *)
(***************************************************************************)
EXTENDS MCServices, TLAPS, FiniteSetTheorems, SequenceTheorems, WellFoundedInduction

\* A set of naturals has a least member.
LEMMA LeastNat ==
  ASSUME NEW S, S \subseteq Nat, S # {} PROVE \E a \in S : \A b \in S : a <= b
<1> DEFINE Below == {ss \in Nat \X Nat : ss[1] < ss[2]}
<1>1. IsWellFoundedOn(Below, Nat)
  BY NatLessThanWellFounded DEF OpToRel
<1>2. PICK a \in S : \A b \in S : ~(<<b, a>> \in Below)
  <2> HIDE DEF Below
  <2> QED BY <1>1, WFMin
<1>3. \A b \in S : ~(b < a)
  BY <1>2
<1> QED BY <1>3

\* A step is one of a part, or leaves its variables as they are.
LEMMA StepOf ==
  ASSUME [MCNext]_vars
  PROVE  /\ Tools!Next \/ UNCHANGED tools
         /\ Enrich!Next \/ UNCHANGED enrich
         /\ Logins!Next \/ UNCHANGED logins
         /\ Llm!Next \/ UNCHANGED llm
         /\ Next \/ UNCHANGED asnVars
BY DEF MCNext, OfLlm, OfLookup, OfEvents, OfTools, OfEnrich, OfLogins, Of, vars

-----------------------------------------------------------------------------
(* AgentTools: what is destroyed was offered.                               *)

ToolSteps == {"free", "filter", "copy", "notes", "contact", "learn", "teach",
              "prior", "reset", "queue"}
Deleting == {"copy", "notes", "contact", "learn", "teach"}
Clearing == {"prior", "reset"}
Over == {"append", "done"}

Contact == [email : Addresses,
            by : [who : {"nobody", "user", "card"}, card : Nat, attempt : Nat]]
Cards == [tool : Tools!Destructive, ids : SUBSET Nat,
          at : {"asked", "running", "append", "done", "cancelled"}, attempt : Nat,
          raised : SUBSET Nat, undo : SUBSET Addresses, undone : BOOLEAN,
          wiped : SUBSET [email : Addresses, attempt : Nat]]
Loops == [step : ToolSteps, card : Nat, todo : Seq(Nat), copied : SUBSET Addresses,
          deleted : Nat, noted : BOOLEAN, base : SUBSET Addresses, since : SUBSET Addresses]

ToolsType ==
    /\ rows \in Seq(Contact) /\ cards \in Seq(Cards) /\ loop \in Loops
    /\ prefs \subseteq Addresses /\ blocklist \subseteq Addresses
    /\ \A c \in DOMAIN cards : cards[c].ids \subseteq DOMAIN rows

\* What a reset removed is in the undo of its attempt, unless that one was not
\* answered well.
WipedOffered(card) ==
    \A w \in card.wiped :
        w.attempt \in card.raised \/ (w.attempt = card.attempt /\ w.email \in card.undo)

\* A card has an undo once its tool has ended; the tool on the loop is the one
\* of the card that runs.
CardsInv ==
    /\ \A c \in DOMAIN cards : cards[c].at \notin Over => cards[c].undo = {}
    /\ \A c \in DOMAIN cards : WipedOffered(cards[c])
    /\ loop.step \notin {"free", "filter"} =>
          loop.card \in DOMAIN cards /\ cards[loop.card].at = "running"
    /\ loop.step \in Deleting => cards[loop.card].tool = "delete_contacts"
    /\ loop.step \in Clearing => cards[loop.card].tool = "reset_lead_preferences"
    /\ loop.step = "queue" => cards[loop.card].tool = "queue_emails"

Named(i) == \E k \in DOMAIN loop.todo : loop.todo[k] = i

\* What the attempt of the running card has still to delete it has copied, or
\* will copy.
CopyInv ==
    loop.step \in Deleting =>
        /\ \A k \in DOMAIN loop.todo : loop.todo[k] \in cards[loop.card].ids
        /\ loop.step \in {"contact", "learn", "teach"} => loop.todo # <<>>
        /\ loop.step = "copy" =>
              /\ loop.deleted = 0
              /\ \A i \in cards[loop.card].ids :
                    Tools!Alive(i) => Named(i) \/ rows[i].email \in loop.copied
        /\ loop.step # "copy" =>
              \A i \in cards[loop.card].ids :
                    Tools!Alive(i) => rows[i].email \in loop.copied

\* Who removed a contact, and where its address is.
GoneInv ==
    \A i \in DOMAIN rows : rows[i].by.who = "card" =>
        LET c == rows[i].by.card  a == rows[i].by.attempt IN
        /\ c \in DOMAIN cards /\ a <= cards[c].attempt
        /\ cards[c].tool = "delete_contacts" /\ i \in cards[c].ids
        /\ \/ a \in cards[c].raised
           \/ /\ cards[c].at = "running" /\ a = cards[c].attempt
              /\ loop.step \in Deleting /\ loop.card = c
              /\ loop.deleted > 0 /\ rows[i].email \in loop.copied
           \/ a = cards[c].attempt /\ rows[i].email \in cards[c].undo

WipeInv == loop.step = "reset" => prefs \ loop.since \subseteq loop.base

MailInv == \A m \in mail : /\ m.card \in DOMAIN cards
                           /\ cards[m.card].tool = "queue_emails" /\ m.id \in cards[m.card].ids

ToolsInv == ToolsType /\ CardsInv /\ CopyInv /\ GoneInv /\ WipeInv /\ MailInv

-----------------------------------------------------------------------------
(* Lemmas. *)

LEMMA ToolCardinality == \A S : Tools!Cardinality(S) = Cardinality(S)
BY DEF Tools!Cardinality, Cardinality

Increasing(s) == \A i, j \in DOMAIN s : i < j => s[i] < s[j]
Ordered(S) == \E s \in [1..Cardinality(S) -> S] : Increasing(s)

LEMMA PartOfInterval ==
  ASSUME NEW n \in Nat, NEW S \in SUBSET (1..n)
  PROVE  IsFiniteSet(S) /\ Cardinality(S) \in Nat
<1>1. IsFiniteSet(1..n)
  BY FS_Interval
<1>2. IsFiniteSet(S)
  BY <1>1, FS_Subset
<1> QED BY <1>2, FS_CardinalityType

\* Every set of contacts has an order: the least interval with a set that had
\* none would owe it to its last element.
LEMMA OrderExists ==
  ASSUME NEW n \in Nat, NEW S \in SUBSET (1..n) PROVE Ordered(S)
<1> DEFINE Bad == {k \in Nat : \E T \in SUBSET (1..k) : ~Ordered(T)}
<1>1. SUFFICES ASSUME Bad # {} PROVE FALSE
  OBVIOUS
<1>2. PICK m \in Bad : \A k \in Bad : m <= k
  <2>1. Bad \subseteq Nat
    OBVIOUS
  <2> HIDE DEF Bad
  <2> QED BY <1>1, <2>1, LeastNat
<1>3. PICK T \in SUBSET (1..m) : ~Ordered(T)
  OBVIOUS
<1>4. CASE m = 0
  <2>1. T = {}
    BY <1>4
  <2>2. Cardinality(T) = 0
    BY <2>1, FS_EmptySet
  <2>3. <<>> \in [1..Cardinality(T) -> T]
    BY <2>2
  <2>4. Increasing(<<>>)
    BY DEF Increasing
  <2> QED BY <1>3, <2>3, <2>4 DEF Ordered
<1>5. CASE m # 0
  <2> DEFINE U == T \ {m}
             c == Cardinality(U)
  <2>1. m \in Nat /\ m - 1 \in Nat /\ ~(m <= m - 1) /\ U \in SUBSET (1..(m - 1))
    BY <1>5
  <2>2. Ordered(U)
    <3> HIDE DEF U
    <3> QED BY <1>2, <2>1
  <2>3. PICK u \in [1..c -> U] : Increasing(u)
    BY <2>2 DEF Ordered
  <2>4. c \in Nat
    <3> HIDE DEF U
    <3> QED BY <2>1, PartOfInterval
  <2>5. CASE m \notin T
    <3>1. U = T
      BY <2>5
    <3> QED BY <1>3, <2>2, <3>1
  <2>6. CASE m \in T
    <3> DEFINE s == [k \in 1..(c + 1) |-> IF k = c + 1 THEN m ELSE u[k]]
    <3>1. Cardinality(T) = c + 1
      <4>1. IsFiniteSet(T) /\ Cardinality(T) \in Nat
        BY PartOfInterval
      <4>2. Cardinality(T \ {m}) = Cardinality(T) - 1
        BY <2>6, <4>1, FS_RemoveElement
      <4> QED BY <4>1, <4>2
    <3>2. \A k \in 1..c : u[k] \in Nat /\ u[k] < m /\ u[k] \in T
      <4>1. \A k \in 1..c : u[k] \in U /\ u[k] \in T
        BY <2>3
      <4> HIDE DEF U, c
      <4>2. \A x \in U : x \in Nat /\ x < m
        BY <2>1
      <4> QED BY <4>1, <4>2
    <3> HIDE DEF U, c
    <3>3. s \in [1..Cardinality(T) -> T]
      BY <2>4, <2>6, <3>1, <3>2
    <3>4. Increasing(s)
      <4> SUFFICES ASSUME NEW i \in 1..(c + 1), NEW j \in 1..(c + 1), i < j PROVE s[i] < s[j]
        BY DEF Increasing
      <4>1. CASE j = c + 1
        BY <2>4, <3>2, <4>1
      <4>2. CASE j # c + 1
        <5>1. i \in DOMAIN u /\ j \in DOMAIN u
          BY <2>4, <2>3, <4>2
        <5> QED BY <2>3, <2>4, <4>2, <5>1 DEF Increasing
      <4> QED BY <4>1, <4>2
    <3> QED BY <1>3, <3>3, <3>4 DEF Ordered
  <2> QED BY <2>5, <2>6
<1> QED BY <1>4, <1>5

\* The contacts of a card in their order, each of them.
LEMMA SortedIs ==
  ASSUME NEW n \in Nat, NEW S \in SUBSET (1..n)
  PROVE  /\ Tools!Sorted(S) \in Seq(Nat)
         /\ \A k \in DOMAIN Tools!Sorted(S) : Tools!Sorted(S)[k] \in S
         /\ \A i \in S : \E k \in DOMAIN Tools!Sorted(S) : Tools!Sorted(S)[k] = i
<1> DEFINE s == Tools!Sorted(S)
           c == Cardinality(S)
<1>1. s \in [1..c -> S] /\ Increasing(s)
  BY OrderExists, ToolCardinality DEF Tools!Sorted, Ordered, Increasing
<1>2. c \in Nat /\ IsFiniteSet(S) /\ S \subseteq Nat
  BY PartOfInterval
<1> HIDE DEF s, c
<1>3. s \in Seq(Nat) /\ DOMAIN s = 1..c /\ \A i \in 1..c : s[i] \in Nat
  <2>1. s \in [1..c -> Nat]
    BY <1>1, <1>2
  <2> QED BY <1>2, <2>1
<1>4. \A i, j \in 1..c : s[i] = s[j] => i = j
  <2> SUFFICES ASSUME NEW i \in 1..c, NEW j \in 1..c, s[i] = s[j] PROVE i = j
    OBVIOUS
  <2>1. s[i] \in Nat /\ ~(s[i] < s[j]) /\ ~(s[j] < s[i])
    BY <1>3
  <2>2. ~(i < j) /\ ~(j < i)
    BY <1>1, <2>1 DEF Increasing
  <2> QED BY <1>2, <2>2
<1>5. s \in Injection(1..c, S)
  BY <1>1, <1>4 DEF Injection, IsInjective
<1>6. IsFiniteSet(1..c) /\ Cardinality(1..c) = c
  BY <1>2, FS_Interval
<1>7. s \in Surjection(1..c, S)
  BY <1>2, <1>5, <1>6, FS_Injection DEF c
<1> QED BY <1>1, <1>3, <1>7 DEF s, Surjection

\* The contacts grow at the end; one that goes goes by the user's hand.
RowsGrow ==
    /\ DOMAIN rows \subseteq DOMAIN rows'
    /\ \A i \in DOMAIN rows :
          /\ rows'[i].email = rows[i].email
          /\ rows'[i].by = rows[i].by \/ rows'[i].by.who = "user"
    /\ \A i \in DOMAIN rows' : i \notin DOMAIN rows => rows'[i].by.who = "nobody"

SameWork == /\ loop'.step = loop.step /\ loop'.card = loop.card /\ loop'.todo = loop.todo
            /\ loop'.copied = loop.copied /\ loop'.deleted = loop.deleted

LEMMA RowType == ASSUME NEW e \in Addresses PROVE Tools!Row(e) \in Contact /\ Tools!Row(e).by = Tools!Nobody
BY DEF Tools!Row, Contact, Tools!Nobody

LEMMA SameRowsGrow == ASSUME UNCHANGED rows PROVE RowsGrow
BY DEF RowsGrow

LEMMA ImportGrows ==
  ASSUME ToolsType, NEW S \in SUBSET Addresses, Tools!Import(S)
  PROVE  rows' \in Seq(Contact) /\ RowsGrow
<1> DEFINE fresh == (S \ blocklist) \ Tools!Held
           n == Cardinality(fresh)
<1>1. PICK order \in [1..n -> fresh] : rows' = rows \o [i \in DOMAIN order |-> Tools!Row(order[i])]
  BY ToolCardinality DEF Tools!Import
<1>2. n \in Nat
  BY ToolConstants, FS_Subset, FS_CardinalityType
<1>3. \A i \in 1..n : order[i] \in Addresses
  BY <1>1
<1> HIDE DEF fresh, n
<1> DEFINE more == [i \in DOMAIN order |-> Tools!Row(order[i])]
<1>4. more \in Seq(Contact) /\ Len(more) = n /\ \A i \in 1..n : more[i].by = Tools!Nobody
  BY <1>1, <1>2, <1>3, RowType
<1> HIDE DEF more
<1>5. rows \in Seq(Contact) /\ rows' = rows \o more
  BY <1>1 DEF more, ToolsType
<1>6. rows' \in Seq(Contact)
  BY <1>4, <1>5
<1>7. /\ Len(rows') = Len(rows) + n /\ Len(rows) \in Nat
      /\ \A i \in 1..Len(rows) : rows'[i] = rows[i]
      /\ \A i \in 1..Len(rows') : i \notin 1..Len(rows) => rows'[i] = more[i - Len(rows)]
  <2>1. /\ Len(rows') = Len(rows) + Len(more)
        /\ \A i \in 1..(Len(rows) + Len(more)) :
              rows'[i] = IF i <= Len(rows) THEN rows[i] ELSE more[i - Len(rows)]
    BY <1>4, <1>5, ConcatProperties
  <2>2. Len(rows) \in Nat
    BY <1>5
  <2> QED BY <1>2, <1>4, <2>1, <2>2
<1>8. RowsGrow
  <2>1. \A i \in 1..Len(rows') : i \notin 1..Len(rows) => i - Len(rows) \in 1..n
    BY <1>2, <1>7
  <2>2. DOMAIN rows = 1..Len(rows) /\ DOMAIN rows' = 1..Len(rows')
    BY <1>5, <1>6
  <2>3. \A i \in 1..Len(rows') : i \notin 1..Len(rows) => rows'[i].by.who = "nobody"
    BY <2>1, <1>4, <1>7 DEF Tools!Nobody
  <2>4. 1..Len(rows) \subseteq 1..Len(rows')
    BY <1>2, <1>7
  <2> QED BY <2>2, <2>3, <2>4, <1>7 DEF RowsGrow
<1> QED BY <1>6, <1>8

LEMMA CardChange ==
  ASSUME cards \in Seq(Cards), NEW c \in DOMAIN cards, NEW card \in Cards
  PROVE  /\ [cards EXCEPT ![c] = card] \in Seq(Cards)
         /\ DOMAIN [cards EXCEPT ![c] = card] = DOMAIN cards
OBVIOUS

\* Of its cards a step changes at most that one was refused, answered or undone.
CardsKeep ==
    /\ DOMAIN cards' = DOMAIN cards
    /\ \A d \in DOMAIN cards :
          /\ cards'[d].tool = cards[d].tool /\ cards'[d].ids = cards[d].ids
          /\ cards'[d].attempt = cards[d].attempt /\ cards'[d].raised = cards[d].raised
          /\ cards'[d].undo = cards[d].undo /\ cards'[d].wiped = cards[d].wiped
          /\ cards'[d].at = "running" <=> cards[d].at = "running"
          /\ cards'[d].at \in Over <=> cards[d].at \in Over

LEMMA SameCardsKeep == ASSUME UNCHANGED cards PROVE CardsKeep
BY DEF CardsKeep

\* The requests of others leave the work of the tool as it is.
LEMMA OthersKeep ==
  ASSUME ToolsInv, RowsGrow, CardsKeep, SameWork
  PROVE  /\ CardsInv' /\ CopyInv' /\ GoneInv'
         /\ \A c \in DOMAIN cards' : cards'[c].ids \subseteq DOMAIN rows'
         /\ UNCHANGED mail => MailInv'
<1> USE DEF ToolsInv, ToolsType
<1>1. CardsInv'
  BY DEF CardsInv, WipedOffered, SameWork, CardsKeep, Deleting, Clearing
<1>2. CopyInv'
  <2>1. ASSUME loop.step \in Deleting
        PROVE  \A i \in cards[loop.card].ids :
                  Tools!Alive(i)' => Tools!Alive(i) /\ rows'[i].email = rows[i].email
    BY <2>1 DEF CardsInv, RowsGrow, Tools!Alive, Tools!Nobody, Deleting
  <2>2. \A i : Named(i)' <=> Named(i)
    BY DEF Named, SameWork
  <2>3. loop.step \in Deleting => cards'[loop.card].ids = cards[loop.card].ids
    BY DEF CardsInv, CardsKeep, Deleting
  <2> QED BY <2>1, <2>2, <2>3 DEF CopyInv, SameWork
<1>3. GoneInv'
  <2> SUFFICES ASSUME NEW i \in DOMAIN rows', rows'[i].by.who = "card"
               PROVE  LET c == rows'[i].by.card  a == rows'[i].by.attempt IN
                      /\ c \in DOMAIN cards' /\ a <= cards'[c].attempt
                      /\ cards'[c].tool = "delete_contacts" /\ i \in cards'[c].ids
                      /\ \/ a \in cards'[c].raised
                         \/ /\ cards'[c].at = "running" /\ a = cards'[c].attempt
                            /\ loop'.step \in Deleting /\ loop'.card = c
                            /\ loop'.deleted > 0 /\ rows'[i].email \in loop'.copied
                         \/ a = cards'[c].attempt /\ rows'[i].email \in cards'[c].undo
    BY DEF GoneInv
  <2>1. i \in DOMAIN rows /\ rows'[i].by = rows[i].by /\ rows'[i].email = rows[i].email
    BY DEF RowsGrow
  <2> QED BY <2>1 DEF GoneInv, SameWork, CardsKeep
<1>4. \A c \in DOMAIN cards' : cards'[c].ids \subseteq DOMAIN rows'
  BY DEF CardsKeep, RowsGrow
<1>5. UNCHANGED mail => MailInv'
  BY DEF CardsKeep, MailInv
<1> QED BY <1>1, <1>2, <1>3, <1>4, <1>5

LEMMA ToolsInit == ASSUME Tools!Init PROVE ToolsInv
<1> USE DEF Tools!Init
<1>1. Tools!Free \in Loops
  BY DEF Tools!Free, Loops, ToolSteps
<1>2. \A i \in DOMAIN Present : Present[i] \in Addresses
  BY ToolConstants
<1>3. rows = [i \in 1..Len(Present) |-> Tools!Row(Present[i])] /\ Len(Present) \in Nat
  BY ToolConstants
<1>4. rows \in Seq(Contact) /\ \A i \in DOMAIN rows : rows[i].by.who = "nobody"
  BY <1>2, <1>3, RowType, ToolConstants DEF Tools!Nobody
<1>5. ToolsType
  BY <1>1, <1>4 DEF ToolsType
<1>6. loop.step = "free"
  BY DEF Tools!Free
<1> QED BY <1>4, <1>5, <1>6 DEF ToolsInv, CardsInv, CopyInv, GoneInv, WipeInv, MailInv, Deleting, Clearing

LEMMA CardType ==
  ASSUME NEW tool \in Tools!Destructive, NEW S \in SUBSET Nat
  PROVE  /\ Tools!Card(tool, S) \in Cards
         /\ Tools!Card(tool, S).undo = {} /\ Tools!Card(tool, S).wiped = {}
         /\ Tools!Card(tool, S).ids = S /\ Tools!Card(tool, S).tool = tool
BY DEF Tools!Card, Cards

LEMMA FreeType == Tools!Free \in Loops /\ Tools!Free.step = "free" /\ Tools!Free.deleted = 0
BY DEF Tools!Free, Loops, ToolSteps

LEMMA AskFirstStep ==
  ASSUME ToolsInv, NEW tool \in Tools!Destructive, NEW S \in SUBSET DOMAIN rows,
         Tools!AskFirst(tool, S)
  PROVE  ToolsInv'
<1> DEFINE card == Tools!Card(tool, S)
<1>1. /\ cards' = Append(cards, card) /\ loop.step = "free"
      /\ UNCHANGED <<rows, prefs, blocklist, mail, loop>>
  BY DEF Tools!AskFirst, Tools!LoopFree
<1>2. card \in Cards /\ card.undo = {} /\ card.wiped = {} /\ card.ids = S
  BY CardType DEF ToolsInv, ToolsType
<1> HIDE DEF card
<1>3. /\ cards' \in Seq(Cards) /\ DOMAIN cards \subseteq DOMAIN cards'
      /\ \A c \in DOMAIN cards : cards'[c] = cards[c]
      /\ \A c \in DOMAIN cards' : c \notin DOMAIN cards => cards'[c] = card
  BY <1>1, <1>2, AppendProperties DEF ToolsInv, ToolsType
<1>4. ToolsType'
  BY <1>1, <1>2, <1>3 DEF ToolsInv, ToolsType
<1>5. CardsInv'
  BY <1>1, <1>2, <1>3 DEF ToolsInv, CardsInv, WipedOffered, Deleting, Clearing
<1>6. CopyInv' /\ WipeInv'
  BY <1>1 DEF CopyInv, WipeInv, Deleting
<1>7. GoneInv'
  BY <1>1, <1>3 DEF ToolsInv, GoneInv
<1>8. MailInv'
  BY <1>1, <1>3 DEF ToolsInv, MailInv
<1> QED BY <1>4, <1>5, <1>6, <1>7, <1>8 DEF ToolsInv

\* An import, the agent's or the user's, which leaves the tool alone.
LEMMA ImportKeeps ==
  ASSUME ToolsInv, NEW S \in SUBSET Addresses, Tools!Import(S),
         UNCHANGED <<prefs, blocklist, mail, cards, loop>>
  PROVE  ToolsInv'
<1>1. rows' \in Seq(Contact) /\ RowsGrow
  BY ImportGrows DEF ToolsInv
<1>2. ToolsType'
  BY <1>1 DEF ToolsInv, ToolsType, RowsGrow
<1>3. CardsInv' /\ CopyInv' /\ GoneInv'
  BY <1>1, OthersKeep, SameCardsKeep DEF SameWork
<1>4. WipeInv' /\ MailInv'
  BY DEF ToolsInv, WipeInv, MailInv
<1> QED BY <1>2, <1>3, <1>4 DEF ToolsInv

LEMMA FiltersStep ==
  ASSUME ToolsInv, \/ \E e \in Refusable : Tools!ReadFilters(e)
                   \/ Tools!WriteFilters
  PROVE  ToolsInv'
<1>1. /\ loop.step \in {"free", "filter"} /\ loop' \in Loops /\ loop'.step \in {"free", "filter"}
      /\ blocklist' \subseteq Addresses /\ UNCHANGED <<rows, prefs, mail, cards>>
  <2>1. ASSUME NEW e \in Refusable, Tools!ReadFilters(e) PROVE <1>1!:
    <3>1. blocklist \cup {e} \in SUBSET Addresses
      BY ToolConstants DEF ToolsInv, ToolsType
    <3>2. loop' = [[Tools!Free EXCEPT !.step = "filter"] EXCEPT !.base = blocklist \cup {e}]
      BY <2>1 DEF Tools!ReadFilters
    <3>3. loop' \in Loops /\ loop'.step = "filter"
      BY <3>1, <3>2, FreeType DEF Loops, ToolSteps
    <3> QED BY <2>1, <3>3 DEF Tools!ReadFilters, Tools!LoopFree, ToolsInv, ToolsType
  <2>2. ASSUME Tools!WriteFilters PROVE <1>1!:
    BY <2>2, FreeType DEF Tools!WriteFilters, ToolsInv, ToolsType, Loops
  <2> QED BY <2>1, <2>2
<1>2. ToolsType'
  BY <1>1 DEF ToolsInv, ToolsType
<1>3. CardsInv' /\ CopyInv' /\ WipeInv'
  BY <1>1 DEF ToolsInv, CardsInv, WipedOffered, CopyInv, WipeInv, Deleting, Clearing
<1>4. GoneInv' /\ MailInv'
  BY <1>1 DEF ToolsInv, GoneInv, MailInv, Deleting
<1> QED BY <1>2, <1>3, <1>4 DEF ToolsInv

\* A card starts with nothing deleted: its attempt is a new one.
LEMMA BeginIs ==
  ASSUME ToolsInv, NEW c \in DOMAIN cards
  PROVE  LET begun == Tools!Begin(c) IN
         /\ begun \in Loops /\ begun.card = c /\ begun.deleted = 0
         /\ begun.step \in {"copy", "prior", "queue"}
         /\ begun.step = "copy" <=> cards[c].tool = "delete_contacts"
         /\ begun.step = "prior" <=> cards[c].tool = "reset_lead_preferences"
         /\ begun.step = "queue" <=> cards[c].tool = "queue_emails"
         /\ begun.step = "copy" => begun.todo = Tools!Sorted(cards[c].ids)
<1>1. cards[c] \in Cards /\ cards[c].ids \subseteq DOMAIN rows /\ rows \in Seq(Contact) /\ c \in Nat
  BY DEF ToolsInv, ToolsType
<1>2. cards[c].ids \in SUBSET (1..Len(rows)) /\ Len(rows) \in Nat
  BY <1>1
<1>3. Tools!Sorted(cards[c].ids) \in Seq(Nat)
  BY <1>2, SortedIs
<1>4. cards[c].tool \in {"delete_contacts", "reset_lead_preferences", "queue_emails"}
  BY <1>1 DEF Cards, Tools!Destructive
<1>5. CASE cards[c].tool = "delete_contacts"
  BY <1>1, <1>3, <1>5 DEF Tools!Begin, Tools!Free, Tools!Ids, Loops, ToolSteps
<1>6. CASE cards[c].tool = "reset_lead_preferences"
  <2>1. Tools!Begin(c) = [[Tools!Free EXCEPT !.step = "prior"] EXCEPT !.card = c]
    BY <1>6 DEF Tools!Begin
  <2>2. Tools!Begin(c) \in Loops
    BY <1>1, <2>1, FreeType DEF Loops, ToolSteps
  <2>3. /\ Tools!Begin(c).card = c /\ Tools!Begin(c).deleted = 0
        /\ Tools!Begin(c).step = "prior"
    BY <2>1, FreeType DEF Loops
  <2> QED BY <1>6, <2>2, <2>3
<1>7. CASE cards[c].tool = "queue_emails"
  <2>1. Tools!Begin(c) = [[Tools!Free EXCEPT !.step = "queue"] EXCEPT !.card = c]
    BY <1>7 DEF Tools!Begin
  <2>2. Tools!Begin(c) \in Loops
    BY <1>1, <2>1, FreeType DEF Loops, ToolSteps
  <2>3. /\ Tools!Begin(c).card = c /\ Tools!Begin(c).deleted = 0
        /\ Tools!Begin(c).step = "queue"
    BY <2>1, FreeType DEF Loops
  <2> QED BY <1>7, <2>2, <2>3
<1> QED BY <1>4, <1>5, <1>6, <1>7

\* A step that changes one card keeps its tool and its contacts.
LEMMA CardChanges ==
  ASSUME ToolsInv, NEW c \in DOMAIN cards, NEW card \in Cards,
         card.tool = cards[c].tool, card.ids = cards[c].ids,
         cards' = [cards EXCEPT ![c] = card], DOMAIN rows \subseteq DOMAIN rows'
  PROVE  /\ cards' \in Seq(Cards) /\ DOMAIN cards' = DOMAIN cards /\ cards'[c] = card
         /\ \A d \in DOMAIN cards : /\ d # c => cards'[d] = cards[d]
                                    /\ cards'[d].tool = cards[d].tool
                                    /\ cards'[d].ids = cards[d].ids
                                    /\ cards'[d].ids \subseteq DOMAIN rows'
         /\ UNCHANGED mail => MailInv'
<1>1. cards' \in Seq(Cards) /\ DOMAIN cards' = DOMAIN cards /\ cards'[c] = card
  BY CardChange DEF ToolsInv, ToolsType
<1>2. \A d \in DOMAIN cards : /\ d # c => cards'[d] = cards[d]
                              /\ cards'[d].tool = cards[d].tool
                              /\ cards'[d].ids = cards[d].ids
  BY <1>1 DEF ToolsInv, ToolsType
<1>3. \A d \in DOMAIN cards : cards'[d].ids \subseteq DOMAIN rows'
  BY <1>2 DEF ToolsInv, ToolsType
<1>4. UNCHANGED mail => MailInv'
  BY <1>1, <1>2 DEF ToolsInv, MailInv
<1> QED BY <1>1, <1>2, <1>3, <1>4

LEMMA ConfirmStep ==
  ASSUME ToolsInv, NEW c \in DOMAIN cards, Tools!Confirm(c) PROVE ToolsInv'
<1> DEFINE card == [[cards[c] EXCEPT !.at = "running"] EXCEPT !.attempt = @ + 1]
           begun == Tools!Begin(c)
<1>1. /\ loop.step = "free" /\ cards[c].at = "asked" /\ cards' = [cards EXCEPT ![c] = card]
      /\ loop' = begun /\ UNCHANGED <<rows, prefs, blocklist, mail>>
  BY DEF Tools!Confirm, Tools!LoopFree
<1>2. cards[c] \in Cards
  BY DEF ToolsInv, ToolsType
<1>3. /\ card \in Cards /\ card.tool = cards[c].tool /\ card.ids = cards[c].ids
      /\ card.at = "running" /\ card.undo = cards[c].undo /\ card.wiped = cards[c].wiped
      /\ card.raised = cards[c].raised /\ card.attempt = cards[c].attempt + 1
  <2>1. cards[c].attempt + 1 \in Nat
    BY <1>2 DEF Cards
  <2> QED BY <1>2, <2>1 DEF Cards
<1>4. /\ begun \in Loops /\ begun.card = c /\ begun.deleted = 0
      /\ begun.step \in {"copy", "prior", "queue"}
      /\ begun.step = "copy" <=> cards[c].tool = "delete_contacts"
      /\ begun.step = "prior" <=> cards[c].tool = "reset_lead_preferences"
      /\ begun.step = "queue" <=> cards[c].tool = "queue_emails"
      /\ begun.step = "copy" => begun.todo = Tools!Sorted(cards[c].ids)
  BY BeginIs
<1> HIDE DEF card, begun
<1>5. /\ cards' \in Seq(Cards) /\ DOMAIN cards' = DOMAIN cards /\ cards'[c] = card
      /\ \A d \in DOMAIN cards : /\ d # c => cards'[d] = cards[d]
                                 /\ cards'[d].ids \subseteq DOMAIN rows'
      /\ MailInv'
  BY <1>1, <1>3, CardChanges
<1>6. ToolsType'
  BY <1>1, <1>4, <1>5 DEF ToolsInv, ToolsType
<1>7. CardsInv'
  <2>1. \A d \in DOMAIN cards : cards'[d].at \notin Over => cards'[d].undo = {}
    BY <1>1, <1>3, <1>5 DEF ToolsInv, CardsInv, Over
  <2>2. \A d \in DOMAIN cards : WipedOffered(cards'[d])
    BY <1>1, <1>3, <1>5 DEF ToolsInv, CardsInv, Over, WipedOffered
  <2> QED BY <2>1, <2>2, <1>1, <1>3, <1>4, <1>5 DEF CardsInv, Deleting, Clearing
<1>8. CopyInv'
  <2> SUFFICES ASSUME loop'.step \in Deleting PROVE CopyInv'
    BY DEF CopyInv
  <2>1. loop'.step = "copy" /\ loop'.todo = Tools!Sorted(cards[c].ids) /\ loop'.deleted = 0
    BY <1>1, <1>4 DEF Deleting
  <2>2. rows \in Seq(Contact) /\ cards[c].ids \subseteq DOMAIN rows
    BY DEF ToolsInv, ToolsType
  <2>3. cards[c].ids \in SUBSET (1..Len(rows)) /\ Len(rows) \in Nat
    BY <2>2
  <2>4. /\ \A k \in DOMAIN loop'.todo : loop'.todo[k] \in cards[c].ids
        /\ \A i \in cards[c].ids : \E k \in DOMAIN loop'.todo : loop'.todo[k] = i
    <3> DEFINE S == cards[c].ids
    <3> HIDE DEF S
    <3>1. /\ \A k \in DOMAIN Tools!Sorted(S) : Tools!Sorted(S)[k] \in S
          /\ \A i \in S : \E k \in DOMAIN Tools!Sorted(S) : Tools!Sorted(S)[k] = i
      <4>1. S \in SUBSET (1..Len(rows)) /\ Len(rows) \in Nat
        BY <2>3 DEF S
      <4> QED BY <4>1, SortedIs
    <3>2. loop'.todo = Tools!Sorted(S)
      BY <2>1 DEF S
    <3> QED BY <3>1, <3>2 DEF S
  <2>5. cards'[loop'.card].ids = cards[c].ids
    BY <1>1, <1>3, <1>4, <1>5
  <2> QED BY <2>1, <2>4, <2>5 DEF CopyInv, Named
<1>9. GoneInv'
  BY <1>1, <1>3, <1>5, <1>2 DEF ToolsInv, GoneInv, CardsInv, Deleting, Over, Cards
<1>10. WipeInv'
  BY <1>1, <1>4 DEF WipeInv
<1> QED BY <1>5, <1>6, <1>7, <1>8, <1>9, <1>10 DEF ToolsInv

\* What others write to the preferences is no loss of a reset that has read them.
LEMMA OthersLearn ==
  ASSUME loop \in Loops, prefs \subseteq Addresses, WipeInv, prefs' \in SUBSET Addresses,
         Tools!Others(prefs')
  PROVE  loop' \in Loops /\ SameWork /\ WipeInv'
<1>1. CASE loop.step = "reset"
  <2>1. loop' = [loop EXCEPT !.since = @ \cup (prefs' \ prefs)]
    BY <1>1 DEF Tools!Others
  <2>2. /\ loop' \in Loops /\ SameWork
        /\ loop'.since = loop.since \cup (prefs' \ prefs) /\ loop'.base = loop.base
    BY <2>1 DEF Loops, SameWork
  <2> QED BY <1>1, <2>2 DEF WipeInv
<1>2. CASE loop.step # "reset"
  BY <1>2 DEF Tools!Others, SameWork, WipeInv
<1> QED BY <1>1, <1>2

LEMMA DismissStep ==
  ASSUME ToolsInv, NEW c \in DOMAIN cards, Tools!Dismiss(c) PROVE ToolsInv'
<1>1. /\ cards[c].at = "asked" /\ cards' = [cards EXCEPT ![c] = [cards[c] EXCEPT !.at = "cancelled"]]
      /\ UNCHANGED <<rows, prefs, blocklist, mail, loop>>
  BY DEF Tools!Dismiss
<1>2. cards \in Seq(Cards) /\ cards[c] \in Cards /\ [cards[c] EXCEPT !.at = "cancelled"] \in Cards
  <2>1. cards \in Seq(Cards) /\ cards[c] \in Cards
    BY DEF ToolsInv, ToolsType
  <2> QED BY <2>1 DEF Cards
<1>3. cards' \in Seq(Cards)
  BY <1>1, <1>2
<1>4. CardsKeep
  BY <1>1, <1>2 DEF CardsKeep, Cards, Over
<1>5. RowsGrow /\ SameWork
  BY <1>1, SameRowsGrow DEF SameWork
<1>6. ToolsType'
  BY <1>1, <1>3, <1>4, <1>5, OthersKeep DEF ToolsInv, ToolsType
<1>7. WipeInv'
  BY <1>1 DEF ToolsInv, WipeInv
<1> QED BY <1>1, <1>4, <1>5, <1>6, <1>7, OthersKeep DEF ToolsInv

LEMMA UndoStep ==
  ASSUME ToolsInv, NEW c \in DOMAIN cards, Tools!Undo(c) PROVE ToolsInv'
<1>1. /\ cards[c].at = "done" /\ cards' = [cards EXCEPT ![c] = [cards[c] EXCEPT !.undone = TRUE]]
      /\ UNCHANGED <<blocklist, mail>>
  BY DEF Tools!Undo
<1>2. cards \in Seq(Cards) /\ cards[c] \in Cards /\ [cards[c] EXCEPT !.undone = TRUE] \in Cards
  <2>1. cards \in Seq(Cards) /\ cards[c] \in Cards
    BY DEF ToolsInv, ToolsType
  <2> QED BY <2>1 DEF Cards
<1>3. cards' \in Seq(Cards)
  BY <1>1, <1>2
<1>4. CardsKeep
  BY <1>1, <1>2 DEF CardsKeep, Cards
<1>5. /\ rows' \in Seq(Contact) /\ RowsGrow /\ loop' \in Loops /\ SameWork
      /\ prefs' \subseteq Addresses /\ WipeInv'
  <2>1. cards[c].undo \in SUBSET Addresses
    BY <1>2 DEF Cards
  <2>2. CASE cards[c].tool = "delete_contacts"
    <3>1. Tools!Import(cards[c].undo) /\ UNCHANGED <<prefs, loop>>
      BY <2>2 DEF Tools!Undo
    <3>2. rows' \in Seq(Contact) /\ RowsGrow
      BY <2>1, <3>1, ImportGrows DEF ToolsInv
    <3> QED BY <3>1, <3>2 DEF ToolsInv, ToolsType, SameWork, WipeInv
  <2>3. CASE cards[c].tool # "delete_contacts"
    <3>1. prefs' = cards[c].undo /\ Tools!Others(prefs') /\ UNCHANGED rows
      BY <2>3 DEF Tools!Undo
    <3>2. loop' \in Loops /\ SameWork /\ WipeInv'
      BY <2>1, <3>1, OthersLearn DEF ToolsInv, ToolsType
    <3> QED BY <2>1, <3>1, <3>2, SameRowsGrow DEF ToolsInv, ToolsType
  <2> QED BY <2>2, <2>3
<1>6. ToolsType'
  BY <1>1, <1>3, <1>4, <1>5, OthersKeep DEF ToolsInv, ToolsType
<1> QED BY <1>1, <1>4, <1>5, <1>6, OthersKeep DEF ToolsInv

LEMMA DeleteByHandStep ==
  ASSUME ToolsInv, NEW i \in DOMAIN rows, Tools!DeleteByHand(i) PROVE ToolsInv'
<1>1. /\ rows' = [rows EXCEPT ![i] = [rows[i] EXCEPT !.by = Tools!User]]
      /\ prefs' = prefs \cup {rows[i].email} /\ Tools!Others(prefs')
      /\ UNCHANGED <<blocklist, mail, cards>>
  BY DEF Tools!DeleteByHand
<1>2. rows \in Seq(Contact) /\ rows[i] \in Contact /\ [rows[i] EXCEPT !.by = Tools!User] \in Contact
  <2>1. rows \in Seq(Contact) /\ rows[i] \in Contact
    BY DEF ToolsInv, ToolsType
  <2> QED BY <2>1 DEF Contact, Tools!User
<1>3. rows' \in Seq(Contact) /\ prefs' \in SUBSET Addresses
  BY <1>1, <1>2 DEF ToolsInv, ToolsType, Contact
<1>4. RowsGrow
  BY <1>1, <1>2 DEF RowsGrow, Contact, Tools!User
<1>5. loop' \in Loops /\ SameWork /\ WipeInv'
  BY <1>1, <1>3, OthersLearn DEF ToolsInv, ToolsType
<1>6. CardsKeep
  BY <1>1, SameCardsKeep
<1>7. ToolsType'
  BY <1>1, <1>3, <1>4, <1>5, <1>6, OthersKeep DEF ToolsInv, ToolsType
<1> QED BY <1>1, <1>4, <1>5, <1>6, <1>7, OthersKeep DEF ToolsInv

LEMMA AddNoteStep == ASSUME ToolsInv, Tools!AddNote PROVE ToolsInv'
<1>1. /\ loop' = [loop EXCEPT !.noted = TRUE] /\ loop.step = "contact"
      /\ UNCHANGED <<rows, prefs, blocklist, mail, cards>>
  BY DEF Tools!AddNote
<1>2. loop' \in Loops /\ SameWork
  BY <1>1 DEF ToolsInv, ToolsType, Loops, SameWork
<1>3. CardsKeep /\ RowsGrow
  BY <1>1, SameCardsKeep, SameRowsGrow
<1>4. ToolsType'
  BY <1>1, <1>2 DEF ToolsInv, ToolsType
<1>5. WipeInv'
  BY <1>1, <1>2 DEF WipeInv, SameWork
<1> QED BY <1>1, <1>2, <1>3, <1>4, <1>5, OthersKeep DEF ToolsInv

LEMMA SaveFiltersStep ==
  ASSUME ToolsInv, NEW list \in SUBSET Refusable, Tools!SaveFilters(list) PROVE ToolsInv'
<1>1. blocklist' = list /\ UNCHANGED <<rows, prefs, mail, cards, loop>>
  BY DEF Tools!SaveFilters
<1>2. SameWork /\ CardsKeep /\ RowsGrow
  BY <1>1, SameCardsKeep, SameRowsGrow DEF SameWork
<1>3. ToolsType' /\ WipeInv'
  BY <1>1, ToolConstants DEF ToolsInv, ToolsType, WipeInv
<1> QED BY <1>1, <1>2, <1>3, OthersKeep DEF ToolsInv

LEMMA EmailType == ASSUME ToolsType, NEW i \in DOMAIN rows PROVE rows[i].email \in Addresses
<1>1. rows[i] \in Contact
  BY DEF ToolsType
<1> QED BY <1>1 DEF Contact

LEMMA TailIs ==
  ASSUME NEW s \in Seq(Nat), s # <<>>
  PROVE  /\ Tail(s) \in Seq(Nat) /\ 1 \in DOMAIN s /\ Head(s) = s[1] /\ Head(s) \in Nat
         /\ \A k \in DOMAIN Tail(s) : k + 1 \in DOMAIN s /\ Tail(s)[k] = s[k + 1]
         /\ \A k \in DOMAIN s : k = 1 \/ (k - 1 \in DOMAIN Tail(s) /\ Tail(s)[k - 1] = s[k])
<1>1. /\ Tail(s) \in Seq(Nat) /\ Len(Tail(s)) = Len(s) - 1 /\ Len(s) \in Nat \ {0}
      /\ \A i \in 1..(Len(s) - 1) : Tail(s)[i] = s[i + 1]
  OBVIOUS
<1>2. \A k \in DOMAIN Tail(s) : k + 1 \in DOMAIN s /\ Tail(s)[k] = s[k + 1]
  BY <1>1
<1>3. \A k \in DOMAIN s : k = 1 \/ (k - 1 \in DOMAIN Tail(s) /\ Tail(s)[k - 1] = s[k])
  BY <1>1
<1> QED BY <1>1, <1>2, <1>3

\* A deletion that goes on.
LEMMA DeletingMoves ==
  ASSUME ToolsInv, loop.step \in Deleting, loop' \in Loops, loop'.step \in Deleting,
         loop'.card = loop.card, loop'.deleted = loop.deleted, loop.copied \subseteq loop'.copied,
         prefs' \subseteq Addresses, UNCHANGED <<rows, blocklist, mail, cards>>, CopyInv'
  PROVE  ToolsInv'
<1>1. ToolsType'
  BY DEF ToolsInv, ToolsType
<1>2. CardsInv'
  BY DEF ToolsInv, CardsInv, WipedOffered, Deleting, Clearing
<1>3. GoneInv'
  BY DEF ToolsInv, GoneInv
<1>4. WipeInv' /\ MailInv'
  BY DEF ToolsInv, WipeInv, MailInv, Deleting
<1> QED BY <1>1, <1>2, <1>3, <1>4 DEF ToolsInv

LEMMA CopyRowStep == ASSUME ToolsInv, Tools!CopyRow PROVE ToolsInv'
<1> DEFINE c == loop.card
<1>1. /\ loop.step = "copy" /\ loop \in Loops /\ c \in DOMAIN cards
      /\ UNCHANGED <<rows, prefs, blocklist, mail, cards>>
  BY DEF Tools!CopyRow, ToolsInv, ToolsType, CardsInv, Deleting
<1>2. /\ \A k \in DOMAIN loop.todo : loop.todo[k] \in cards[c].ids
      /\ loop.deleted = 0
      /\ \A i \in cards[c].ids : Tools!Alive(i) => Named(i) \/ rows[i].email \in loop.copied
  BY <1>1 DEF ToolsInv, CopyInv, Deleting
<1>3. rows \in Seq(Contact) /\ cards[c].ids \in SUBSET (1..Len(rows)) /\ Len(rows) \in Nat
  BY <1>1 DEF ToolsInv, ToolsType
<1>4. CASE loop.todo = <<>>
  <2> DEFINE all == Tools!Sorted(cards[c].ids)
  <2>1. loop' = [[loop EXCEPT !.step = "notes"] EXCEPT !.todo = all]
    BY <1>1, <1>4 DEF Tools!CopyRow, Tools!Ids
  <2>2. all \in Seq(Nat) /\ \A k \in DOMAIN all : all[k] \in cards[c].ids
    <3> DEFINE S == cards[c].ids
    <3>1. S \in SUBSET (1..Len(rows)) /\ Len(rows) \in Nat
      BY <1>3
    <3> HIDE DEF S
    <3>2. Tools!Sorted(S) \in Seq(Nat) /\ \A k \in DOMAIN Tools!Sorted(S) : Tools!Sorted(S)[k] \in S
      BY <3>1, SortedIs
    <3> QED BY <3>2 DEF S
  <2> HIDE DEF all
  <2>3. /\ loop' \in Loops /\ loop'.step = "notes" /\ loop'.card = c /\ loop'.todo = all
        /\ loop'.deleted = loop.deleted /\ loop'.copied = loop.copied
    BY <1>1, <2>1, <2>2 DEF Loops, ToolSteps
  <2>4. \A i \in cards[c].ids : Tools!Alive(i) => rows[i].email \in loop.copied
    BY <1>2, <1>4 DEF Named
  <2>5. CopyInv'
    BY <1>1, <2>2, <2>3, <2>4 DEF CopyInv, Tools!Alive, Deleting
  <2> QED BY <1>1, <2>3, <2>5, DeletingMoves DEF Deleting, ToolsInv, ToolsType
<1>5. CASE loop.todo # <<>>
  <2> DEFINE i == Head(loop.todo)
             copy == IF Tools!Alive(i) THEN loop.copied \cup {rows[i].email} ELSE loop.copied
  <2>1. loop' = [[loop EXCEPT !.todo = Tail(loop.todo)] EXCEPT !.copied = copy]
    BY <1>1, <1>5 DEF Tools!CopyRow
  <2>2. /\ loop.todo \in Seq(Nat) /\ loop.copied \subseteq Addresses
    BY <1>1 DEF Loops
  <2>3. /\ Tail(loop.todo) \in Seq(Nat) /\ 1 \in DOMAIN loop.todo /\ i = loop.todo[1]
        /\ \A k \in DOMAIN Tail(loop.todo) :
              k + 1 \in DOMAIN loop.todo /\ Tail(loop.todo)[k] = loop.todo[k + 1]
        /\ \A k \in DOMAIN loop.todo :
              k = 1 \/ (k - 1 \in DOMAIN Tail(loop.todo) /\ Tail(loop.todo)[k - 1] = loop.todo[k])
    BY <1>5, <2>2, TailIs
  <2>4. copy \in SUBSET Addresses /\ loop.copied \subseteq copy
    BY <2>2, EmailType DEF Tools!Alive, ToolsInv
  <2>5. Tools!Alive(i) => rows[i].email \in copy
    OBVIOUS
  <2> HIDE DEF i, copy
  <2>6. /\ loop' \in Loops /\ loop'.step = "copy" /\ loop'.card = c /\ loop'.todo = Tail(loop.todo)
        /\ loop'.deleted = loop.deleted /\ loop'.copied = copy
    BY <1>1, <2>1, <2>3, <2>4 DEF Loops
  <2>7. \A k \in DOMAIN loop'.todo : loop'.todo[k] \in cards[c].ids
    BY <1>2, <2>3, <2>6
  <2>8. ASSUME NEW j, Named(j) PROVE j = i \/ Named(j)'
    <3>1. PICK k \in DOMAIN loop.todo : loop.todo[k] = j
      BY <2>8 DEF Named
    <3>2. k = 1 \/ (k - 1 \in DOMAIN loop'.todo /\ loop'.todo[k - 1] = j)
      BY <2>3, <2>6, <3>1
    <3> QED BY <2>3, <3>1, <3>2 DEF Named
  <2>9. ASSUME NEW j \in cards[c].ids, Tools!Alive(j)
        PROVE  Named(j)' \/ rows[j].email \in copy
    BY <1>2, <2>4, <2>5, <2>8, <2>9
  <2>10. CopyInv'
    BY <1>1, <1>2, <2>6, <2>7, <2>9 DEF CopyInv, Tools!Alive, Deleting
  <2> QED BY <1>1, <2>4, <2>6, <2>10, DeletingMoves DEF Deleting, ToolsInv, ToolsType
<1> QED BY <1>4, <1>5

\* The running card, its contacts yet to be deleted and what is copied of them.
LEMMA DeletingNow ==
  ASSUME ToolsInv, loop.step \in Deleting \ {"copy"}
  PROVE  /\ loop \in Loops /\ loop.card \in DOMAIN cards /\ cards[loop.card] \in Cards
         /\ cards[loop.card].at = "running" /\ cards[loop.card].tool = "delete_contacts"
         /\ \A k \in DOMAIN loop.todo : loop.todo[k] \in cards[loop.card].ids
         /\ \A i \in cards[loop.card].ids : Tools!Alive(i) => rows[i].email \in loop.copied
         /\ loop.step \in {"contact", "learn", "teach"} => loop.todo # <<>>
         /\ loop.todo # <<>> => /\ Head(loop.todo) \in cards[loop.card].ids
                                /\ Tail(loop.todo) \in Seq(Nat)
                                /\ \A k \in DOMAIN Tail(loop.todo) :
                                      Tail(loop.todo)[k] \in cards[loop.card].ids
<1>1. /\ loop \in Loops /\ loop.card \in DOMAIN cards /\ cards[loop.card] \in Cards
      /\ cards[loop.card].at = "running" /\ cards[loop.card].tool = "delete_contacts"
  BY DEF ToolsInv, ToolsType, CardsInv, Deleting
<1>2. /\ \A k \in DOMAIN loop.todo : loop.todo[k] \in cards[loop.card].ids
      /\ \A i \in cards[loop.card].ids : Tools!Alive(i) => rows[i].email \in loop.copied
      /\ loop.step \in {"contact", "learn", "teach"} => loop.todo # <<>>
  BY DEF ToolsInv, CopyInv, Deleting
<1>3. loop.todo \in Seq(Nat)
  BY <1>1 DEF Loops
<1>4. loop.todo # <<>> => /\ Head(loop.todo) \in cards[loop.card].ids
                          /\ Tail(loop.todo) \in Seq(Nat)
                          /\ \A k \in DOMAIN Tail(loop.todo) :
                                Tail(loop.todo)[k] \in cards[loop.card].ids
  BY <1>2, <1>3, TailIs
<1> QED BY <1>1, <1>2, <1>4

LEMMA DeleteNotesStep == ASSUME ToolsInv, Tools!DeleteNotes PROVE ToolsInv'
<1> DEFINE i == Head(loop.todo)
<1>1. /\ loop.step = "notes" /\ loop.todo # <<>>
      /\ loop' = IF Tools!Alive(i) THEN [[loop EXCEPT !.step = "contact"] EXCEPT !.noted = FALSE]
                 ELSE [loop EXCEPT !.todo = Tail(loop.todo)]
      /\ UNCHANGED <<rows, prefs, blocklist, mail, cards>>
  BY DEF Tools!DeleteNotes
<1>2. loop.step \in Deleting \ {"copy"}
  BY <1>1 DEF Deleting
<1>3. /\ loop' \in Loops /\ loop'.step \in {"notes", "contact"} /\ loop'.card = loop.card
      /\ loop'.deleted = loop.deleted /\ loop'.copied = loop.copied
      /\ \/ loop'.todo = loop.todo
         \/ loop'.step = "notes" /\ loop'.todo = Tail(loop.todo)
  BY <1>1, <1>2, DeletingNow DEF Loops, ToolSteps
<1>4. CopyInv'
  BY <1>1, <1>2, <1>3, DeletingNow DEF CopyInv, Tools!Alive, Deleting
<1> QED BY <1>1, <1>2, <1>3, <1>4, DeletingMoves DEF Deleting, ToolsInv, ToolsType

LEMMA LearnStep ==
  ASSUME ToolsInv, Tools!LearnRead \/ Tools!LearnWrite PROVE ToolsInv'
<1>1. CASE Tools!LearnRead
  <2>1. /\ loop.step = "learn" /\ loop' = [[loop EXCEPT !.step = "teach"] EXCEPT !.base = prefs]
        /\ UNCHANGED <<rows, prefs, blocklist, mail, cards>>
    BY <1>1 DEF Tools!LearnRead
  <2>2. loop.step \in Deleting \ {"copy"} /\ prefs \in SUBSET Addresses
    BY <2>1 DEF Deleting, ToolsInv, ToolsType
  <2>3. /\ loop' \in Loops /\ loop'.step = "teach" /\ loop'.card = loop.card
        /\ loop'.deleted = loop.deleted /\ loop'.copied = loop.copied /\ loop'.todo = loop.todo
    BY <2>1, <2>2, DeletingNow DEF Loops, ToolSteps
  <2>4. CopyInv'
    BY <2>1, <2>2, <2>3, DeletingNow DEF CopyInv, Tools!Alive, Deleting
  <2> QED BY <2>1, <2>2, <2>3, <2>4, DeletingMoves DEF Deleting
<1>2. CASE Tools!LearnWrite
  <2> DEFINE i == Head(loop.todo)
  <2>1. /\ loop.step = "teach" /\ loop' = [[loop EXCEPT !.step = "notes"] EXCEPT !.todo = Tail(loop.todo)]
        /\ prefs' = loop.base \cup {rows[i].email}
        /\ UNCHANGED <<rows, blocklist, mail, cards>>
    BY <1>2 DEF Tools!LearnWrite
  <2>2. loop.step \in Deleting \ {"copy"} /\ loop.todo # <<>>
    BY <2>1, DeletingNow DEF Deleting
  <2>3. /\ loop' \in Loops /\ loop'.step = "notes" /\ loop'.card = loop.card
        /\ loop'.deleted = loop.deleted /\ loop'.copied = loop.copied /\ loop'.todo = Tail(loop.todo)
    BY <2>1, <2>2, DeletingNow DEF Loops, ToolSteps
  <2>4. CopyInv'
    BY <2>1, <2>2, <2>3, DeletingNow DEF CopyInv, Tools!Alive, Deleting
  <2>5. prefs' \subseteq Addresses
    <3>1. i \in DOMAIN rows /\ loop.base \subseteq Addresses
      BY <2>2, DeletingNow DEF ToolsInv, ToolsType, Loops
    <3> QED BY <2>1, <3>1, EmailType DEF ToolsInv
  <2> QED BY <2>1, <2>2, <2>3, <2>4, <2>5, DeletingMoves DEF Deleting
<1> QED BY <1>1, <1>2

LEMMA DeleteRowStep == ASSUME ToolsInv, Tools!DeleteRow PROVE ToolsInv'
<1> DEFINE i == Head(loop.todo)
           c == loop.card
           a == cards[c].attempt
           gone == [who |-> "card", card |-> c, attempt |-> a]
<1>1. /\ loop.step = "contact" /\ UNCHANGED <<prefs, blocklist, mail, cards>>
      /\ rows' = IF Tools!Alive(i) THEN [rows EXCEPT ![i] = [rows[i] EXCEPT !.by = gone]] ELSE rows
      /\ loop' = IF Tools!Alive(i) THEN [[loop EXCEPT !.step = "learn"] EXCEPT !.deleted = @ + 1]
                 ELSE [[loop EXCEPT !.step = "notes"] EXCEPT !.todo = Tail(loop.todo)]
  BY DEF Tools!DeleteRow, Tools!StillNoted
<1>2. loop.step \in Deleting \ {"copy"}
  BY <1>1 DEF Deleting
<1>3. /\ loop \in Loops /\ c \in DOMAIN cards /\ cards[c] \in Cards /\ loop.todo # <<>>
      /\ cards[c].at = "running" /\ cards[c].tool = "delete_contacts"
      /\ \A k \in DOMAIN loop.todo : loop.todo[k] \in cards[c].ids
      /\ \A j \in cards[c].ids : Tools!Alive(j) => rows[j].email \in loop.copied
      /\ i \in cards[c].ids /\ Tail(loop.todo) \in Seq(Nat)
      /\ \A k \in DOMAIN Tail(loop.todo) : Tail(loop.todo)[k] \in cards[c].ids
  BY <1>1, <1>2, DeletingNow
<1>4. CASE ~Tools!Alive(i)
  <2>1. /\ loop' \in Loops /\ loop'.step = "notes" /\ loop'.card = c
        /\ loop'.deleted = loop.deleted /\ loop'.copied = loop.copied /\ loop'.todo = Tail(loop.todo)
    BY <1>1, <1>3, <1>4 DEF Loops, ToolSteps
  <2>2. UNCHANGED rows
    BY <1>1, <1>4
  <2>3. CopyInv'
    BY <1>1, <1>3, <2>1, <2>2 DEF CopyInv, Tools!Alive, Deleting
  <2> QED BY <1>1, <1>2, <2>1, <2>2, <2>3, DeletingMoves DEF Deleting, ToolsInv, ToolsType
<1>5. CASE Tools!Alive(i)
  <2> DEFINE contact == [rows[i] EXCEPT !.by = gone]
  <2>1. rows \in Seq(Contact) /\ i \in DOMAIN rows /\ rows[i] \in Contact
    BY <1>5 DEF ToolsInv, ToolsType, Tools!Alive
  <2>2. gone \in [who : {"nobody", "user", "card"}, card : Nat, attempt : Nat]
    <3>1. a \in Nat /\ c \in Nat
      BY <1>3 DEF Cards, Loops
    <3> QED BY <3>1
  <2> HIDE DEF gone
  <2>3. contact \in Contact /\ contact.by = gone /\ contact.email = rows[i].email
    BY <2>1, <2>2 DEF Contact
  <2> HIDE DEF contact
  <2>4. rows' = [rows EXCEPT ![i] = contact]
    BY <1>1, <1>5 DEF contact, gone
  <2>5. /\ rows' \in Seq(Contact) /\ DOMAIN rows' = DOMAIN rows /\ rows'[i] = contact
        /\ \A j \in DOMAIN rows : j # i => rows'[j] = rows[j]
    BY <2>1, <2>3, <2>4
  <2>6. /\ loop' \in Loops /\ loop'.step = "learn" /\ loop'.card = c /\ loop'.todo = loop.todo
        /\ loop'.deleted = loop.deleted + 1 /\ loop'.copied = loop.copied /\ loop.deleted \in Nat
    <3>1. loop.deleted \in Nat
      BY <1>3 DEF Loops
    <3>2. PICK n \in Nat : n = loop.deleted + 1
      BY <3>1
    <3>3. loop' = [[loop EXCEPT !.step = "learn"] EXCEPT !.deleted = n]
      BY <1>1, <1>5, <1>3, <3>2 DEF Loops
    <3>4. loop' \in Loops
      BY <1>3, <3>3 DEF Loops, ToolSteps
    <3> QED BY <1>3, <3>1, <3>2, <3>3, <3>4 DEF Loops
  <2>7. ToolsType'
    BY <1>1, <2>5, <2>6 DEF ToolsInv, ToolsType
  <2>8. CardsInv'
    BY <1>1, <1>3, <2>6 DEF ToolsInv, CardsInv, WipedOffered, Deleting, Clearing
  <2>9. CopyInv'
    <3>1. \A j \in cards[c].ids : Tools!Alive(j)' => Tools!Alive(j) /\ rows'[j].email = rows[j].email
      <4>1. gone # Tools!Nobody
        BY DEF gone, Tools!Nobody
      <4> QED BY <2>3, <2>5, <4>1 DEF Tools!Alive
    <3> QED BY <1>1, <1>3, <2>6, <3>1 DEF CopyInv, Deleting
  <2>10. GoneInv'
    <3> SUFFICES ASSUME NEW j \in DOMAIN rows', rows'[j].by.who = "card"
                 PROVE  LET d == rows'[j].by.card  b == rows'[j].by.attempt IN
                        /\ d \in DOMAIN cards' /\ b <= cards'[d].attempt
                        /\ cards'[d].tool = "delete_contacts" /\ j \in cards'[d].ids
                        /\ \/ b \in cards'[d].raised
                           \/ /\ cards'[d].at = "running" /\ b = cards'[d].attempt
                              /\ loop'.step \in Deleting /\ loop'.card = d
                              /\ loop'.deleted > 0 /\ rows'[j].email \in loop'.copied
                           \/ b = cards'[d].attempt /\ rows'[j].email \in cards'[d].undo
      BY DEF GoneInv
    <3>1. CASE j = i
      <4>1. rows'[j].by.card = c /\ rows'[j].by.attempt = a /\ rows'[j].email = rows[i].email
        BY <2>3, <2>5, <3>1 DEF gone
      <4>2. a \in Nat /\ rows[i].email \in loop.copied
        BY <1>3, <1>5 DEF Cards
      <4> QED BY <1>1, <1>3, <2>6, <3>1, <4>1, <4>2 DEF Deleting
    <3>2. CASE j # i
      <4>1. j \in DOMAIN rows /\ rows'[j] = rows[j]
        BY <2>5, <3>2
      <4>2. /\ loop'.step \in Deleting /\ loop'.card = loop.card /\ loop'.copied = loop.copied
            /\ loop.deleted > 0 => loop'.deleted > 0
            /\ UNCHANGED cards
        BY <1>1, <2>6 DEF Deleting
      <4>3. GoneInv
        BY DEF ToolsInv
      <4> HIDE DEF i, c, a
      <4> QED BY <4>1, <4>2, <4>3 DEF GoneInv
    <3> QED BY <3>1, <3>2
  <2>11. WipeInv' /\ MailInv'
    BY <1>1, <2>6 DEF ToolsInv, WipeInv, MailInv
  <2> QED BY <2>7, <2>8, <2>9, <2>10, <2>11 DEF ToolsInv
<1> QED BY <1>4, <1>5

\* The tool is over: the loop is free, its card is another one.
LEMMA ToolOver ==
  ASSUME ToolsInv, loop.step \notin {"free", "filter"}, NEW card \in Cards,
         card.tool = cards[loop.card].tool, card.ids = cards[loop.card].ids,
         card.attempt = cards[loop.card].attempt, WipedOffered(card),
         card.at \notin Over => card.undo = {},
         cards[loop.card].raised \subseteq card.raised,
         loop.step \in Deleting /\ loop.deleted > 0 =>
            card.attempt \in card.raised \/ loop.copied \subseteq card.undo,
         cards' = [cards EXCEPT ![loop.card] = card], loop' = Tools!Free,
         UNCHANGED <<rows, blocklist>>, prefs' \subseteq Addresses
  PROVE  ToolsType' /\ CardsInv' /\ CopyInv' /\ GoneInv' /\ WipeInv' /\ (UNCHANGED mail => MailInv')
<1> DEFINE c == loop.card
<1>1. c \in DOMAIN cards /\ cards[c].at = "running" /\ cards[c].undo = {}
  BY DEF ToolsInv, CardsInv, Over
<1>2. /\ cards' \in Seq(Cards) /\ DOMAIN cards' = DOMAIN cards /\ cards'[c] = card
      /\ \A d \in DOMAIN cards : /\ d # c => cards'[d] = cards[d]
                                 /\ cards'[d].tool = cards[d].tool
                                 /\ cards'[d].ids = cards[d].ids
                                 /\ cards'[d].ids \subseteq DOMAIN rows'
      /\ UNCHANGED mail => MailInv'
  BY <1>1, CardChanges
<1>3. loop' \in Loops /\ loop'.step = "free"
  BY FreeType
<1>4. ToolsType'
  BY <1>2, <1>3 DEF ToolsInv, ToolsType
<1>5. CardsInv'
  <2>1. \A d \in DOMAIN cards : /\ cards'[d].at \notin Over => cards'[d].undo = {}
                                /\ WipedOffered(cards'[d])
    BY <1>2 DEF ToolsInv, CardsInv, WipedOffered
  <2> QED BY <1>2, <1>3, <2>1 DEF CardsInv, Deleting, Clearing
<1>6. CopyInv' /\ WipeInv'
  BY <1>3 DEF CopyInv, WipeInv, Deleting
<1>7. GoneInv'
  <2> SUFFICES ASSUME NEW j \in DOMAIN rows, rows[j].by.who = "card"
               PROVE  LET d == rows[j].by.card  b == rows[j].by.attempt IN
                      /\ d \in DOMAIN cards' /\ b <= cards'[d].attempt
                      /\ cards'[d].tool = "delete_contacts" /\ j \in cards'[d].ids
                      /\ \/ b \in cards'[d].raised
                         \/ b = cards'[d].attempt /\ rows[j].email \in cards'[d].undo
    BY DEF GoneInv
  <2> DEFINE d == rows[j].by.card
  <2>1. CASE d # c
    BY <1>2, <2>1 DEF ToolsInv, GoneInv
  <2>2. CASE d = c
    BY <1>1, <1>2, <2>2 DEF ToolsInv, GoneInv
  <2> QED BY <2>1, <2>2
<1> QED BY <1>2, <1>4, <1>5, <1>6, <1>7

\* What Failed makes of the card: its attempt is among those that raised.
LEMMA FailedIs ==
  ASSUME ToolsInv, NEW c \in DOMAIN cards
  PROVE  \E card \in Cards :
            /\ Tools!Failed(c) = [cards EXCEPT ![c] = card]
            /\ card.tool = cards[c].tool /\ card.ids = cards[c].ids /\ card.at = "asked"
            /\ card.attempt = cards[c].attempt /\ card.undo = {}
            /\ card.raised = cards[c].raised \cup {cards[c].attempt} /\ WipedOffered(card)
<1> DEFINE old == cards[c]
           raised_ == old.raised \cup {old.attempt}
           card == [[[old EXCEPT !.at = "asked"] EXCEPT !.undo = {}] EXCEPT !.raised = raised_]
<1>1. Tools!Failed(c) = [cards EXCEPT ![c] = card]
  BY DEF Tools!Failed
<1>2. old \in Cards /\ WipedOffered(old)
  BY DEF ToolsInv, ToolsType, CardsInv
<1>3. raised_ \in SUBSET Nat
  BY <1>2 DEF Cards
<1> HIDE DEF raised_
<1>4. /\ card \in Cards /\ card.tool = old.tool /\ card.ids = old.ids /\ card.at = "asked"
      /\ card.attempt = old.attempt /\ card.undo = {} /\ card.raised = raised_
      /\ card.wiped = old.wiped
  BY <1>2, <1>3 DEF Cards
<1> HIDE DEF card
<1>5. WipedOffered(card)
  BY <1>2, <1>4 DEF WipedOffered, raised_
<1> QED BY <1>1, <1>4, <1>5 DEF raised_

LEMMA RaiseStep == ASSUME ToolsInv, Tools!Raise PROVE ToolsInv'
<1>1. /\ loop.step \notin {"free", "filter"} /\ cards' = Tools!Failed(loop.card) /\ loop' = Tools!Free
      /\ UNCHANGED <<rows, prefs, blocklist, mail>>
  BY DEF Tools!Raise
<1>2. loop.card \in DOMAIN cards
  BY <1>1 DEF ToolsInv, CardsInv
<1>3. PICK card \in Cards :
            /\ Tools!Failed(loop.card) = [cards EXCEPT ![loop.card] = card]
            /\ card.tool = cards[loop.card].tool /\ card.ids = cards[loop.card].ids
            /\ card.at = "asked" /\ card.attempt = cards[loop.card].attempt /\ card.undo = {}
            /\ card.raised = cards[loop.card].raised \cup {cards[loop.card].attempt}
            /\ WipedOffered(card)
  BY <1>2, FailedIs
<1>4. ToolsType' /\ CardsInv' /\ CopyInv' /\ GoneInv' /\ WipeInv' /\ (UNCHANGED mail => MailInv')
  BY <1>1, <1>3, ToolOver DEF ToolsInv, ToolsType
<1> QED BY <1>1, <1>4 DEF ToolsInv

\* The append raises: the loop is another tool's, or free.
LEMMA AnswerFailsStep ==
  ASSUME ToolsInv, NEW c \in DOMAIN cards, Tools!AnswerFails(c) PROVE ToolsInv'
<1>1. /\ cards[c].at = "append" /\ cards' = Tools!Failed(c)
      /\ UNCHANGED <<rows, prefs, blocklist, mail, loop>>
  BY DEF Tools!AnswerFails
<1>2. PICK card \in Cards :
            /\ Tools!Failed(c) = [cards EXCEPT ![c] = card]
            /\ card.tool = cards[c].tool /\ card.ids = cards[c].ids /\ card.at = "asked"
            /\ card.attempt = cards[c].attempt /\ card.undo = {}
            /\ card.raised = cards[c].raised \cup {cards[c].attempt} /\ WipedOffered(card)
  BY FailedIs
<1>3. /\ cards' \in Seq(Cards) /\ DOMAIN cards' = DOMAIN cards /\ cards'[c] = card
      /\ \A d \in DOMAIN cards : /\ d # c => cards'[d] = cards[d]
                                 /\ cards'[d].tool = cards[d].tool
                                 /\ cards'[d].ids = cards[d].ids
                                 /\ cards'[d].ids \subseteq DOMAIN rows'
      /\ MailInv'
  BY <1>1, <1>2, CardChanges
<1>4. ToolsType'
  BY <1>1, <1>3 DEF ToolsInv, ToolsType
<1>5. CardsInv'
  <2>1. \A d \in DOMAIN cards : /\ cards'[d].at \notin Over => cards'[d].undo = {}
                                /\ WipedOffered(cards'[d])
    BY <1>2, <1>3 DEF ToolsInv, CardsInv, WipedOffered
  <2>2. loop.step \notin {"free", "filter"} => loop.card # c
    BY <1>1 DEF ToolsInv, CardsInv
  <2> QED BY <1>1, <1>3, <2>1, <2>2 DEF ToolsInv, CardsInv, Deleting, Clearing
<1>6. CopyInv' /\ WipeInv'
  <2>1. loop.step \in Deleting => loop.card \in DOMAIN cards
    BY DEF ToolsInv, CardsInv, Deleting
  <2> QED BY <1>1, <1>3, <2>1 DEF ToolsInv, CopyInv, WipeInv, Named, Tools!Alive
<1>7. GoneInv'
  <2> SUFFICES ASSUME NEW j \in DOMAIN rows, rows[j].by.who = "card"
               PROVE  LET d == rows[j].by.card  b == rows[j].by.attempt IN
                      /\ d \in DOMAIN cards' /\ b <= cards'[d].attempt
                      /\ cards'[d].tool = "delete_contacts" /\ j \in cards'[d].ids
                      /\ \/ b \in cards'[d].raised
                         \/ /\ cards'[d].at = "running" /\ b = cards'[d].attempt
                            /\ loop'.step \in Deleting /\ loop'.card = d
                            /\ loop'.deleted > 0 /\ rows[j].email \in loop'.copied
                         \/ b = cards'[d].attempt /\ rows[j].email \in cards'[d].undo
    BY <1>1 DEF GoneInv
  <2> DEFINE d == rows[j].by.card
  <2>1. CASE d # c
    BY <1>1, <1>3, <2>1 DEF ToolsInv, GoneInv
  <2>2. CASE d = c
    BY <1>1, <1>2, <1>3, <2>2 DEF ToolsInv, GoneInv
  <2> QED BY <2>1, <2>2
<1> QED BY <1>3, <1>4, <1>5, <1>6, <1>7 DEF ToolsInv

LEMMA ToldStep ==
  ASSUME ToolsInv, NEW c \in DOMAIN cards, Tools!Told(c) PROVE ToolsInv'
<1>1. /\ cards[c].at = "append" /\ cards' = [cards EXCEPT ![c] = [cards[c] EXCEPT !.at = "done"]]
      /\ UNCHANGED <<rows, prefs, blocklist, mail, loop>>
  BY DEF Tools!Told
<1>2. cards \in Seq(Cards) /\ cards[c] \in Cards /\ [cards[c] EXCEPT !.at = "done"] \in Cards
  <2>1. cards \in Seq(Cards) /\ cards[c] \in Cards
    BY DEF ToolsInv, ToolsType
  <2> QED BY <2>1 DEF Cards
<1>3. cards' \in Seq(Cards)
  BY <1>1, <1>2
<1>4. CardsKeep
  BY <1>1, <1>2 DEF CardsKeep, Cards, Over
<1>5. RowsGrow /\ SameWork
  BY <1>1, SameRowsGrow DEF SameWork
<1>6. ToolsType'
  BY <1>1, <1>3, <1>4, <1>5, OthersKeep DEF ToolsInv, ToolsType
<1>7. WipeInv'
  BY <1>1 DEF ToolsInv, WipeInv
<1> QED BY <1>1, <1>4, <1>5, <1>6, <1>7, OthersKeep DEF ToolsInv

\* What Finish makes of the card.
LEMMA FinishIs ==
  ASSUME ToolsInv, loop.step \notin {"free", "filter"}, NEW undo \in SUBSET Addresses,
         Tools!Finish(undo)
  PROVE  \E card \in Cards :
            /\ cards' = [cards EXCEPT ![loop.card] = card] /\ loop' = Tools!Free
            /\ card.tool = cards[loop.card].tool /\ card.ids = cards[loop.card].ids
            /\ card.attempt = cards[loop.card].attempt /\ WipedOffered(card)
            /\ card.at = "append" /\ card.undo = undo
            /\ card.raised = cards[loop.card].raised
<1> DEFINE old == cards[loop.card]
           card == [[old EXCEPT !.at = "append"] EXCEPT !.undo = undo]
<1>1. loop.card \in DOMAIN cards /\ old \in Cards /\ old.undo = {} /\ WipedOffered(old)
  BY DEF ToolsInv, ToolsType, CardsInv, Over
<1>2. cards' = [cards EXCEPT ![loop.card] = card] /\ loop' = Tools!Free
  BY DEF Tools!Finish
<1>3. card \in Cards
  BY <1>1 DEF Cards
<1>4. /\ card.tool = old.tool /\ card.ids = old.ids /\ card.attempt = old.attempt
      /\ card.at = "append" /\ card.undo = undo /\ card.raised = old.raised
      /\ card.wiped = old.wiped
  BY <1>1 DEF Cards
<1> HIDE DEF card
<1>5. WipedOffered(card)
  BY <1>1, <1>4 DEF WipedOffered
<1> QED BY <1>2, <1>3, <1>4, <1>5

LEMMA DeletedStep == ASSUME ToolsInv, Tools!Deleted PROVE ToolsInv'
<1> DEFINE undo == IF loop.deleted > 0 THEN loop.copied ELSE {}
<1>1. /\ loop.step = "notes" /\ Tools!Finish(undo)
      /\ UNCHANGED <<rows, prefs, blocklist, mail>>
  BY DEF Tools!Deleted
<1>2. undo \in SUBSET Addresses /\ (loop.deleted > 0 => loop.copied = undo)
  BY DEF ToolsInv, ToolsType, Loops
<1> HIDE DEF undo
<1>3. PICK card \in Cards :
            /\ cards' = [cards EXCEPT ![loop.card] = card] /\ loop' = Tools!Free
            /\ card.tool = cards[loop.card].tool /\ card.ids = cards[loop.card].ids
            /\ card.attempt = cards[loop.card].attempt /\ WipedOffered(card)
            /\ card.at = "append" /\ card.undo = undo
            /\ card.raised = cards[loop.card].raised
  BY <1>1, <1>2, FinishIs
<1>4. ToolsType' /\ CardsInv' /\ CopyInv' /\ GoneInv' /\ WipeInv' /\ (UNCHANGED mail => MailInv')
  BY <1>1, <1>2, <1>3, ToolOver DEF ToolsInv, ToolsType, Over
<1> QED BY <1>1, <1>4 DEF ToolsInv

\* Its feedback raises: the deletion goes on.
LEMMA UnlearnedStep == ASSUME ToolsInv, Tools!Unlearned PROVE ToolsInv'
<1>1. /\ loop.step \in {"learn", "teach"}
      /\ loop' = [[loop EXCEPT !.step = "notes"] EXCEPT !.todo = Tail(loop.todo)]
      /\ UNCHANGED <<rows, prefs, blocklist, mail, cards>>
  BY DEF Tools!Unlearned
<1>2. loop.step \in Deleting \ {"copy"} /\ loop.todo # <<>>
  BY <1>1, DeletingNow DEF Deleting
<1>3. /\ loop' \in Loops /\ loop'.step = "notes" /\ loop'.card = loop.card
      /\ loop'.deleted = loop.deleted /\ loop'.copied = loop.copied /\ loop'.todo = Tail(loop.todo)
  BY <1>1, <1>2, DeletingNow DEF Loops, ToolSteps
<1>4. CopyInv'
  BY <1>1, <1>2, <1>3, DeletingNow DEF CopyInv, Tools!Alive, Deleting
<1> QED BY <1>1, <1>2, <1>3, <1>4, DeletingMoves DEF Deleting, ToolsInv, ToolsType

LEMMA ReadPriorStep == ASSUME ToolsInv, Tools!ReadPrior PROVE ToolsInv'
<1>1. /\ loop.step = "prior" /\ loop' = [[loop EXCEPT !.step = "reset"] EXCEPT !.base = prefs]
      /\ UNCHANGED <<rows, prefs, blocklist, mail, cards>>
  BY DEF Tools!ReadPrior
<1>2. loop \in Loops /\ prefs \in SUBSET Addresses
  BY DEF ToolsInv, ToolsType
<1>3. loop' \in Loops /\ loop'.step = "reset" /\ loop'.card = loop.card /\ loop'.base = prefs
  BY <1>1, <1>2 DEF Loops, ToolSteps
<1>4. ToolsType'
  BY <1>1, <1>3 DEF ToolsInv, ToolsType
<1>5. CardsInv' /\ CopyInv'
  BY <1>1, <1>3 DEF ToolsInv, CardsInv, WipedOffered, CopyInv, Deleting, Clearing
<1>6. GoneInv' /\ MailInv'
  BY <1>1, <1>3 DEF ToolsInv, GoneInv, MailInv, Deleting
<1>7. WipeInv'
  BY <1>1, <1>3 DEF WipeInv
<1> QED BY <1>4, <1>5, <1>6, <1>7 DEF ToolsInv

LEMMA ResetPrefsStep == ASSUME ToolsInv, Tools!ResetPrefs PROVE ToolsInv'
<1> DEFINE old == cards[loop.card]
           fresh == {[email |-> e, attempt |-> old.attempt] : e \in prefs \ loop.since}
           all == old.wiped \cup fresh
           card == [[[old EXCEPT !.at = "append"] EXCEPT !.undo = loop.base] EXCEPT !.wiped = all]
<1>1. /\ loop.step = "reset" /\ prefs' = {} /\ cards' = [cards EXCEPT ![loop.card] = card]
      /\ loop' = Tools!Free /\ UNCHANGED <<rows, blocklist, mail>>
  BY DEF Tools!ResetPrefs
<1>2. /\ loop.card \in DOMAIN cards /\ old \in Cards /\ loop.base \in SUBSET Addresses
      /\ old.undo = {} /\ WipedOffered(old) /\ prefs \subseteq Addresses
  BY <1>1 DEF ToolsInv, ToolsType, CardsInv, Loops, Over
<1>3. prefs \ loop.since \subseteq loop.base
  BY <1>1 DEF ToolsInv, WipeInv
<1>4. old.attempt \in Nat
  BY <1>2 DEF Cards
<1>5. \A w \in fresh : w.attempt = old.attempt /\ w.email \in loop.base
  BY <1>3
<1>6. all \in SUBSET [email : Addresses, attempt : Nat]
  BY <1>2, <1>4 DEF Cards
<1> HIDE DEF fresh
<1>7. \A w \in all : w \in old.wiped \/ w \in fresh
  OBVIOUS
<1> HIDE DEF all
<1>8. card \in Cards
  BY <1>2, <1>6 DEF Cards
<1>9. /\ card.tool = old.tool /\ card.ids = old.ids /\ card.at = "append"
      /\ card.attempt = old.attempt /\ card.raised = old.raised
      /\ card.undo = loop.base /\ card.wiped = all
  BY <1>2 DEF Cards
<1> HIDE DEF card
<1>10. WipedOffered(card)
  BY <1>2, <1>5, <1>7, <1>9 DEF WipedOffered
<1>11. ToolsType' /\ CardsInv' /\ CopyInv' /\ GoneInv' /\ WipeInv' /\ (UNCHANGED mail => MailInv')
  BY <1>1, <1>8, <1>9, <1>10, ToolOver DEF Deleting, Over
<1> QED BY <1>1, <1>11 DEF ToolsInv

\* The card of the e-mails is over, or can be confirmed again; what it has
\* queued is for the contacts it names.
LEMMA QueueEmailsStep == ASSUME ToolsInv, Tools!QueueEmails PROVE ToolsInv'
<1> DEFINE c == loop.card
<1>1. /\ loop.step = "queue" /\ UNCHANGED <<rows, prefs, blocklist>>
      /\ Tools!Finish({}) \/ (cards' = Tools!Failed(c) /\ loop' = Tools!Free)
      /\ \A m \in mail' : m \in mail \/ (m.card = c /\ m.id \in cards[c].ids)
  BY DEF Tools!QueueEmails, Tools!Queued, Tools!Ids
<1>2. c \in DOMAIN cards /\ cards[c].tool = "queue_emails" /\ cards \in Seq(Cards)
  BY <1>1 DEF ToolsInv, CardsInv, ToolsType
<1>3. PICK card \in Cards :
            /\ cards' = [cards EXCEPT ![c] = card] /\ loop' = Tools!Free
            /\ card.tool = cards[c].tool /\ card.ids = cards[c].ids
            /\ card.attempt = cards[c].attempt /\ WipedOffered(card)
            /\ card.undo = {} /\ cards[c].raised \subseteq card.raised
  <2>1. CASE Tools!Finish({})
    BY <1>1, <2>1, FinishIs
  <2>2. CASE cards' = Tools!Failed(c) /\ loop' = Tools!Free
    BY <1>2, <2>2, FailedIs
  <2> QED BY <1>1, <2>1, <2>2
<1>4. ToolsType' /\ CardsInv' /\ CopyInv' /\ GoneInv' /\ WipeInv'
  BY <1>1, <1>3, ToolOver DEF ToolsInv, ToolsType, Deleting
<1>5. MailInv'
  <2>1. /\ DOMAIN cards' = DOMAIN cards
        /\ \A d \in DOMAIN cards : cards'[d].tool = cards[d].tool /\ cards'[d].ids = cards[d].ids
    BY <1>2, <1>3
  <2> QED BY <1>1, <1>2, <2>1 DEF ToolsInv, MailInv
<1> QED BY <1>4, <1>5 DEF ToolsInv

LEMMA ToolsStep == ASSUME ToolsInv, Tools!Next PROVE ToolsInv'
<1>1. CASE Tools!Agent
  <2>1. ASSUME NEW tool \in Tools!Destructive, NEW S \in SUBSET DOMAIN rows, Tools!AskFirst(tool, S)
        PROVE  ToolsInv'
    BY <2>1, AskFirstStep
  <2>2. ASSUME NEW e \in Addresses, Tools!ImportLeads({e}) PROVE ToolsInv'
    BY <2>2, ImportKeeps DEF Tools!ImportLeads
  <2>3. ASSUME NEW e \in Refusable, Tools!ReadFilters(e) PROVE ToolsInv'
    BY <2>3, FiltersStep
  <2> QED BY <1>1, <2>1, <2>2, <2>3 DEF Tools!Agent
<1>2. CASE Tools!Tool
  BY <1>2, FiltersStep, CopyRowStep, DeleteNotesStep, DeleteRowStep, RaiseStep, DeletedStep,
     LearnStep, UnlearnedStep, ReadPriorStep, ResetPrefsStep, QueueEmailsStep,
     ToldStep, AnswerFailsStep DEF Tools!Tool
<1>3. CASE Tools!Person
  <2>1. ASSUME NEW c \in DOMAIN cards, Tools!Confirm(c) \/ Tools!Dismiss(c) \/ Tools!Undo(c)
        PROVE  ToolsInv'
    BY <2>1, ConfirmStep, DismissStep, UndoStep
  <2>2. ASSUME NEW i \in DOMAIN rows, Tools!DeleteByHand(i) PROVE ToolsInv'
    BY <2>2, DeleteByHandStep
  <2>3. ASSUME NEW e \in Addresses, Tools!ImportByHand(e) PROVE ToolsInv'
    BY <2>3, ImportKeeps DEF Tools!ImportByHand
  <2>4. ASSUME NEW list \in SUBSET Refusable, Tools!SaveFilters(list) PROVE ToolsInv'
    BY <2>4, SaveFiltersStep
  <2> QED BY <1>3, <2>1, <2>2, <2>3, <2>4, AddNoteStep DEF Tools!Person
<1> QED BY <1>1, <1>2, <1>3 DEF Tools!Next

LEMMA ToolsRest == ASSUME ToolsInv, UNCHANGED tools PROVE ToolsInv'
BY DEF ToolsInv, ToolsType, CardsInv, WipedOffered, CopyInv, GoneInv, WipeInv, MailInv, Named,
       Tools!Alive, tools

LEMMA OfferedFollows == ASSUME ToolsInv PROVE DestroyedIsOffered
<1>1. \A i \in DOMAIN rows : rows[i].by.who = "card" =>
          LET card == cards[rows[i].by.card]
              attempt_ == rows[i].by.attempt
          IN  /\ card.tool = "delete_contacts" /\ i \in card.ids
              /\ \/ attempt_ \in card.raised
                 \/ card.at = "running" /\ attempt_ = card.attempt
                 \/ rows[i].email \in card.undo
  BY DEF ToolsInv, GoneInv
<1>2. \A c \in DOMAIN cards : \A w \in cards[c].wiped :
          w.attempt \in cards[c].raised \/ w.email \in cards[c].undo
  BY DEF ToolsInv, CardsInv, WipedOffered
<1>3. \A m \in mail : cards[m.card].tool = "queue_emails" /\ m.id \in cards[m.card].ids
  BY DEF ToolsInv, MailInv
<1> QED BY <1>1, <1>2, <1>3 DEF DestroyedIsOffered, Tools!DestroyedIsOffered

\* Every contact that the agent removed, every preference that it cleared and
\* every mail that it queued belongs to a card the user confirmed for it, and an
\* attempt that was answered well offers what it removed for undo: what one had
\* removed that raised, on its way or in the append to the history after it, is
\* offered by none (_run_tool of app/agent_chat.py, POST /api/pi/confirm-tool).
THEOREM Offered == Spec => []DestroyedIsOffered
<1>1. MCInit => ToolsInv
  BY ToolsInit DEF MCInit
<1>2. ToolsInv /\ [MCNext]_vars => ToolsInv'
  BY StepOf, ToolsStep, ToolsRest
<1>3. ToolsInv => DestroyedIsOffered
  BY OfferedFollows
<1> QED BY <1>1, <1>2, <1>3, PTL DEF Spec

-----------------------------------------------------------------------------
(* LoginLimiter: the wrong passwords a window admits.                      *)

LogIn == [at : {"check", "verify", "record", "reset"}, key : Keys, now : Nat]

LoginsType ==
    /\ DOMAIN failures \subseteq Keys /\ failures \in [DOMAIN failures -> Seq(Nat)]
    /\ clock \in Nat
    /\ login \in [Requests -> LogIn \cup {Logins!Idle}]
    /\ guesses \in [Keys -> Seq(Nat)]

\* A time a thread goes by is never ahead of the clock.
Timely == \A t \in Requests : login[t].at # "idle" => login[t].now <= clock

\* The wrong passwords are kept in the order of the clock.
Kept(times) == /\ \A i \in DOMAIN times : clock - Window < times[i] /\ times[i] <= clock
               /\ \A i, j \in DOMAIN times : i <= j => times[i] <= times[j]

On(k, at_) == {t \in Requests : login[t].at = at_ /\ login[t].key = k}

\* Each time of G is a time of B, or that of a thread of P, and no two the same one.
Fits(G, B, P, L) ==
    \E H \in SUBSET DOMAIN G :
        /\ \E h \in [H -> DOMAIN B] :
              /\ \A i, j \in H : h[i] = h[j] => i = j
              /\ \A i \in H : B[h[i]] = G[i]
        /\ \E p \in [(DOMAIN G) \ H -> P] :
              /\ \A i, j \in (DOMAIN G) \ H : p[i] = p[j] => i = j
              /\ \A i \in (DOMAIN G) \ H : L[p[i]].now = G[i]

\* A wrong password is held by the limiter, or its thread is about to record it.
Counted(k) == Fits(guesses[k], Logins!Bucket(k), On(k, "record"), login)

\* Threads that have passed the check may add one each.
Bounded(k) == Len(guesses[k]) + Cardinality(On(k, "verify"))
                  <= MaxFailures - 1 + Cardinality(Requests)

LoginsInv == /\ LoginsType /\ Timely
             /\ \A k \in Keys : Kept(guesses[k])
             /\ \A k \in Keys \ uncounted : Counted(k) /\ Bounded(k)

-----------------------------------------------------------------------------
LEMMA LoginCardinality == \A S : Logins!Cardinality(S) = Cardinality(S)
BY DEF Logins!Cardinality, Cardinality

\* What _prune keeps: all from the first time that is not expired.
LEMMA PruneIs ==
  ASSUME NEW s \in Seq(Nat), NEW d \in Int
  PROVE  \/ /\ Logins!Prune(s, d) = <<>>
            /\ \A i \in DOMAIN s : ~(s[i] > d - Window)
         \/ \E m \in 1..Len(s) :
              /\ Logins!Prune(s, d) = SubSeq(s, m, Len(s))
              /\ \A i \in 1..(m - 1) : ~(s[i] > d - Window)
              /\ s[m] > d - Window
<1> DEFINE live == {i \in DOMAIN s : s[i] > d - Window}
<1>1. CASE live = {}
  BY <1>1 DEF Logins!Prune
<1>2. CASE live # {}
  <2> DEFINE m == CHOOSE i \in live : \A j \in live : i <= j
  <2>1. live \subseteq Nat
    OBVIOUS
  <2>2. \E i \in live : \A j \in live : i <= j
    <3> HIDE DEF live
    <3> QED BY <1>2, <2>1, LeastNat
  <2>3. m \in live /\ \A j \in live : m <= j
    <3> HIDE DEF live
    <3> QED BY <2>2
  <2>4. Logins!Prune(s, d) = SubSeq(s, m, Len(s))
    BY <1>2 DEF Logins!Prune
  <2> HIDE DEF m
  <2>5. m \in 1..Len(s) /\ s[m] > d - Window /\ \A i \in 1..(m - 1) : ~(s[i] > d - Window)
    BY <2>3
  <2> QED BY <2>4, <2>5
<1> QED BY <1>1, <1>2

LEMMA SubSeqIs ==
  ASSUME NEW s \in Seq(Nat), NEW m \in 1..Len(s)
  PROVE  /\ SubSeq(s, m, Len(s)) \in Seq(Nat)
         /\ Len(SubSeq(s, m, Len(s))) = Len(s) - m + 1
         /\ \A i \in 1..(Len(s) - m + 1) : SubSeq(s, m, Len(s))[i] = s[i + m - 1]
<1>1. Len(s) \in Nat /\ m \in Nat /\ 1 <= m /\ m <= Len(s) /\ \A i \in 1..Len(s) : s[i] \in Nat
  OBVIOUS
<1> QED BY <1>1

LEMMA PruneType == ASSUME NEW s \in Seq(Nat), NEW d \in Int PROVE Logins!Prune(s, d) \in Seq(Nat)
<1>1. CASE Logins!Prune(s, d) = <<>>
  BY <1>1
<1>2. CASE \E m \in 1..Len(s) : Logins!Prune(s, d) = SubSeq(s, m, Len(s))
  BY <1>2, SubSeqIs
<1> QED BY <1>1, <1>2, PruneIs

-----------------------------------------------------------------------------
(* Matching the wrong passwords with what is held or will be. *)

LEMMA FitsCount ==
  ASSUME NEW G \in Seq(Nat), NEW B \in Seq(Nat), NEW P, IsFiniteSet(P), NEW L, Fits(G, B, P, L)
  PROVE  Len(G) <= Len(B) + Cardinality(P) /\ Cardinality(P) \in Nat
<1>1. PICK H \in SUBSET DOMAIN G :
        /\ \E h \in [H -> DOMAIN B] :
              /\ \A i, j \in H : h[i] = h[j] => i = j
              /\ \A i \in H : B[h[i]] = G[i]
        /\ \E p \in [(DOMAIN G) \ H -> P] :
              /\ \A i, j \in (DOMAIN G) \ H : p[i] = p[j] => i = j
              /\ \A i \in (DOMAIN G) \ H : L[p[i]].now = G[i]
  BY DEF Fits
<1>2. PICK h \in [H -> DOMAIN B] : \A i, j \in H : h[i] = h[j] => i = j
  BY <1>1
<1>3. PICK p \in [(DOMAIN G) \ H -> P] : \A i, j \in (DOMAIN G) \ H : p[i] = p[j] => i = j
  BY <1>1
<1>4. h \in Injection(H, DOMAIN B) /\ p \in Injection((DOMAIN G) \ H, P)
  BY <1>2, <1>3 DEF Injection, IsInjective
<1>5. /\ IsFiniteSet(DOMAIN B) /\ Cardinality(DOMAIN B) = Len(B)
      /\ IsFiniteSet(DOMAIN G) /\ Cardinality(DOMAIN G) = Len(G)
  <2>1. DOMAIN B = 1..Len(B) /\ Len(B) \in Nat /\ DOMAIN G = 1..Len(G) /\ Len(G) \in Nat
    OBVIOUS
  <2>2. \A n \in Nat : IsFiniteSet(1..n) /\ Cardinality(1..n) = n
    BY FS_Interval
  <2> QED BY <2>1, <2>2
<1>6. /\ IsFiniteSet(H) /\ Cardinality(H) <= Len(B)
      /\ IsFiniteSet((DOMAIN G) \ H) /\ Cardinality((DOMAIN G) \ H) <= Cardinality(P)
  BY <1>4, <1>5, FS_Injection
<1>7. Cardinality((DOMAIN G) \ H) = Cardinality(DOMAIN G) - Cardinality(H)
  <2> DEFINE D == DOMAIN G
  <2>1. D \cap H = H /\ IsFiniteSet(D)
    BY <1>5
  <2> HIDE DEF D
  <2>2. Cardinality(D \ H) = Cardinality(D) - Cardinality(D \cap H)
    BY <2>1, FS_Difference
  <2> QED BY <2>1, <2>2 DEF D
<1>8. Cardinality(P) \in Nat /\ Cardinality(H) \in Nat /\ Len(G) \in Nat /\ Len(B) \in Nat
  BY <1>6, FS_CardinalityType
<1> QED BY <1>5, <1>6, <1>7, <1>8

LEMMA FitsEmpty == ASSUME NEW B, NEW P, NEW L PROVE Fits(<<>>, B, P, L)
<1>1. DOMAIN <<>> = {}
  OBVIOUS
<1>2. <<>> \in [{} -> DOMAIN B] /\ <<>> \in [(DOMAIN <<>>) \ {} -> P]
  BY <1>1
<1>3. /\ \E h \in [{} -> DOMAIN B] :
           /\ \A i, j \in {} : h[i] = h[j] => i = j
           /\ \A i \in {} : B[h[i]] = <<>>[i]
      /\ \E p \in [(DOMAIN <<>>) \ {} -> P] :
           /\ \A i, j \in (DOMAIN <<>>) \ {} : p[i] = p[j] => i = j
           /\ \A i \in (DOMAIN <<>>) \ {} : L[p[i]].now = <<>>[i]
  BY <1>1, <1>2
<1>4. {} \in SUBSET DOMAIN <<>>
  OBVIOUS
<1> QED BY <1>3, <1>4 DEF Fits

\* Only the times of the threads of P count, and there may be more of them.
LEMMA FitsFrame ==
  ASSUME NEW G \in Seq(Nat), NEW B, NEW P, NEW L, NEW Q, NEW M, Fits(G, B, P, L), P \subseteq Q,
         \A t \in P : M[t].now = L[t].now
  PROVE  Fits(G, B, Q, M)
<1>1. PICK H \in SUBSET DOMAIN G :
        /\ \E h \in [H -> DOMAIN B] :
              /\ \A i, j \in H : h[i] = h[j] => i = j
              /\ \A i \in H : B[h[i]] = G[i]
        /\ \E p \in [(DOMAIN G) \ H -> P] :
              /\ \A i, j \in (DOMAIN G) \ H : p[i] = p[j] => i = j
              /\ \A i \in (DOMAIN G) \ H : L[p[i]].now = G[i]
  BY DEF Fits
<1>2. PICK p \in [(DOMAIN G) \ H -> P] :
         /\ \A i, j \in (DOMAIN G) \ H : p[i] = p[j] => i = j
         /\ \A i \in (DOMAIN G) \ H : L[p[i]].now = G[i]
  BY <1>1
<1>3. /\ p \in [(DOMAIN G) \ H -> Q]
      /\ \A i \in (DOMAIN G) \ H : M[p[i]].now = G[i]
  BY <1>2
<1> QED BY <1>1, <1>2, <1>3 DEF Fits

\* What is expired and cut off is the time of none of G.
LEMMA FitsPruned ==
  ASSUME NEW G \in Seq(Nat), NEW B \in Seq(Nat), NEW P, NEW L, NEW d \in Int,
         Fits(G, B, P, L), \A i \in DOMAIN G : G[i] > d - Window
  PROVE  Fits(G, Logins!Prune(B, d), P, L)
<1> DEFINE cut == Logins!Prune(B, d)
<1>1. PICK H \in SUBSET DOMAIN G :
        /\ \E h \in [H -> DOMAIN B] :
              /\ \A i, j \in H : h[i] = h[j] => i = j
              /\ \A i \in H : B[h[i]] = G[i]
        /\ \E p \in [(DOMAIN G) \ H -> P] :
              /\ \A i, j \in (DOMAIN G) \ H : p[i] = p[j] => i = j
              /\ \A i \in (DOMAIN G) \ H : L[p[i]].now = G[i]
  BY DEF Fits
<1>2. PICK h \in [H -> DOMAIN B] : /\ \A i, j \in H : h[i] = h[j] => i = j
                                   /\ \A i \in H : B[h[i]] = G[i]
  BY <1>1
<1>3. \A i \in H : h[i] \in 1..Len(B) /\ B[h[i]] > d - Window
  BY <1>2
<1>4. \E g \in [H -> DOMAIN cut] : /\ \A i, j \in H : g[i] = g[j] => i = j
                                   /\ \A i \in H : cut[g[i]] = G[i]
  <2>1. CASE \A i \in DOMAIN B : ~(B[i] > d - Window)
    <3>1. H = {}
      BY <1>3, <2>1
    <3>2. <<>> \in [H -> DOMAIN cut]
      BY <3>1
    <3> QED BY <3>1, <3>2
  <2>2. ASSUME NEW m \in 1..Len(B), cut = SubSeq(B, m, Len(B)),
               \A i \in 1..(m - 1) : ~(B[i] > d - Window)
        PROVE  <1>4!:
    <3> HIDE DEF cut
    <3>1. /\ DOMAIN cut = 1..(Len(B) - m + 1)
          /\ \A i \in 1..(Len(B) - m + 1) : cut[i] = B[i + m - 1]
      BY <2>2, SubSeqIs
    <3> DEFINE g == [i \in H |-> h[i] - m + 1]
    <3>2. \A i \in H : h[i] \in m..Len(B)
      BY <1>3, <2>2
    <3>3. \A i \in H : h[i] - m + 1 \in 1..(Len(B) - m + 1) /\ (h[i] - m + 1) + m - 1 = h[i]
      BY <3>2
    <3>4. g \in [H -> DOMAIN cut]
      BY <3>1, <3>3
    <3>m. Len(B) \in Nat /\ m \in Nat
      OBVIOUS
    <3>n. \A i \in H : h[i] \in Nat
      BY <1>3, <3>m
    <3>5. ASSUME NEW i \in H, NEW j \in H, g[i] = g[j] PROVE i = j
      <4>1. h[i] - m + 1 = h[j] - m + 1
        BY <3>5
      <4>2. PICK a \in Nat, b \in Nat : a = h[i] /\ b = h[j]
        BY <3>n
      <4>3. a - m + 1 = b - m + 1
        BY <4>1, <4>2
      <4>4. a = b
        BY <3>m, <4>3
      <4> QED BY <1>2, <4>2, <4>4
    <3>6. \A i \in H : cut[g[i]] = G[i]
      BY <1>2, <3>1, <3>3
    <3> QED BY <3>4, <3>5, <3>6
  <2> QED BY <2>1, <2>2, PruneIs
<1> HIDE DEF cut
<1>5. Fits(G, cut, P, L)
  BY <1>1, <1>4 DEF Fits
<1> QED BY <1>5 DEF cut

\* Those of G that expire need no match any more.
LEMMA FitsLater ==
  ASSUME NEW G \in Seq(Nat), NEW B, NEW P, NEW L, NEW m \in 1..Len(G), Fits(G, B, P, L)
  PROVE  Fits(SubSeq(G, m, Len(G)), B, P, L)
<1> DEFINE late == SubSeq(G, m, Len(G))
           n == Len(G) - m + 1
<1>1. PICK H \in SUBSET DOMAIN G :
        /\ \E h \in [H -> DOMAIN B] :
              /\ \A i, j \in H : h[i] = h[j] => i = j
              /\ \A i \in H : B[h[i]] = G[i]
        /\ \E p \in [(DOMAIN G) \ H -> P] :
              /\ \A i, j \in (DOMAIN G) \ H : p[i] = p[j] => i = j
              /\ \A i \in (DOMAIN G) \ H : L[p[i]].now = G[i]
  BY DEF Fits
<1>2. PICK h \in [H -> DOMAIN B] : /\ \A i, j \in H : h[i] = h[j] => i = j
                                   /\ \A i \in H : B[h[i]] = G[i]
  BY <1>1
<1>3. PICK p \in [(DOMAIN G) \ H -> P] :
         /\ \A i, j \in (DOMAIN G) \ H : p[i] = p[j] => i = j
         /\ \A i \in (DOMAIN G) \ H : L[p[i]].now = G[i]
  BY <1>1
<1>4. DOMAIN late = 1..n /\ n \in Nat /\ \A i \in 1..n : late[i] = G[i + m - 1]
  BY SubSeqIs
<1>5. \A i \in 1..n : i + m - 1 \in DOMAIN G /\ i \in Nat
  OBVIOUS
<1> DEFINE K == {i \in 1..n : i + m - 1 \in H}
           g == [i \in K |-> h[i + m - 1]]
           q == [i \in (1..n) \ K |-> p[i + m - 1]]
<1>6. /\ g \in [K -> DOMAIN B] /\ \A i \in K : B[g[i]] = late[i]
      /\ \A i, j \in K : g[i] = g[j] => i = j
  BY <1>2, <1>4, <1>5
<1>7. \A i \in (1..n) \ K : i + m - 1 \in (DOMAIN G) \ H
  BY <1>5
<1>8. q \in [(DOMAIN late) \ K -> P] /\ \A i \in (DOMAIN late) \ K : L[q[i]].now = late[i]
  BY <1>3, <1>4, <1>7
<1>9. ASSUME NEW i \in (DOMAIN late) \ K, NEW j \in (DOMAIN late) \ K, q[i] = q[j] PROVE i = j
  <2>1. i + m - 1 = j + m - 1
    BY <1>3, <1>4, <1>7, <1>9
  <2> QED BY <1>4, <2>1
<1>10. K \in SUBSET DOMAIN late
  BY <1>4
<1> HIDE DEF K, g, q, late, n
<1>11. /\ \E f \in [K -> DOMAIN B] :
            /\ \A i, j \in K : f[i] = f[j] => i = j
            /\ \A i \in K : B[f[i]] = late[i]
       /\ \E f \in [(DOMAIN late) \ K -> P] :
            /\ \A i, j \in (DOMAIN late) \ K : f[i] = f[j] => i = j
            /\ \A i \in (DOMAIN late) \ K : L[f[i]].now = late[i]
  BY <1>6, <1>8, <1>9
<1>12. Fits(late, B, P, L)
  BY <1>10, <1>11 DEF Fits
<1> QED BY <1>12 DEF late

\* A password that turns out wrong: its thread is about to record it.
LEMMA FitsGuess ==
  ASSUME NEW G \in Seq(Nat), NEW B, NEW P, NEW L, NEW M, NEW t, t \notin P,
         Fits(G, B, P, L), \A q \in P : M[q].now = L[q].now, M[t].now \in Nat
  PROVE  Fits(Append(G, M[t].now), B, P \cup {t}, M)
<1> DEFINE more == Append(G, M[t].now)
           n == Len(G) + 1
<1>1. PICK H \in SUBSET DOMAIN G :
        /\ \E h \in [H -> DOMAIN B] :
              /\ \A i, j \in H : h[i] = h[j] => i = j
              /\ \A i \in H : B[h[i]] = G[i]
        /\ \E p \in [(DOMAIN G) \ H -> P] :
              /\ \A i, j \in (DOMAIN G) \ H : p[i] = p[j] => i = j
              /\ \A i \in (DOMAIN G) \ H : L[p[i]].now = G[i]
  BY DEF Fits
<1>2. PICK h \in [H -> DOMAIN B] : /\ \A i, j \in H : h[i] = h[j] => i = j
                                   /\ \A i \in H : B[h[i]] = G[i]
  BY <1>1
<1>3. PICK p \in [(DOMAIN G) \ H -> P] :
         /\ \A i, j \in (DOMAIN G) \ H : p[i] = p[j] => i = j
         /\ \A i \in (DOMAIN G) \ H : L[p[i]].now = G[i]
  BY <1>1
<1>4. /\ DOMAIN more = (DOMAIN G) \cup {n} /\ n \notin DOMAIN G /\ more[n] = M[t].now
      /\ \A i \in DOMAIN G : more[i] = G[i]
  OBVIOUS
<1> HIDE DEF more, n
<1> DEFINE Q == P \cup {t}
           q == [i \in (DOMAIN more) \ H |-> IF i = n THEN t ELSE p[i]]
<1>5. \A i \in (DOMAIN more) \ H : i = n \/ i \in (DOMAIN G) \ H
  BY <1>4
<1>6. q \in [(DOMAIN more) \ H -> Q]
  BY <1>3, <1>5
<1>7. ASSUME NEW i \in (DOMAIN more) \ H, NEW j \in (DOMAIN more) \ H, q[i] = q[j] PROVE i = j
  BY <1>3, <1>5, <1>7
<1>8. \A i \in (DOMAIN more) \ H : M[q[i]].now = more[i]
  BY <1>3, <1>4, <1>5
<1>9. \A i \in H : B[h[i]] = more[i]
  BY <1>2, <1>4
<1>10. H \in SUBSET DOMAIN more
  BY <1>4
<1> HIDE DEF q, Q
<1>11. /\ \E f \in [H -> DOMAIN B] :
            /\ \A i, j \in H : f[i] = f[j] => i = j
            /\ \A i \in H : B[f[i]] = more[i]
       /\ \E f \in [(DOMAIN more) \ H -> Q] :
            /\ \A i, j \in (DOMAIN more) \ H : f[i] = f[j] => i = j
            /\ \A i \in (DOMAIN more) \ H : M[f[i]].now = more[i]
  BY <1>2, <1>6, <1>7, <1>8, <1>9
<1>12. Fits(more, B, Q, M)
  BY <1>10, <1>11 DEF Fits
<1> QED BY <1>12 DEF more, Q

\* The thread records its failure.
LEMMA FitsRecord ==
  ASSUME NEW G \in Seq(Nat), NEW B \in Seq(Nat), NEW P, NEW L, NEW t \in P,
         L[t].now \in Nat, Fits(G, B, P, L)
  PROVE  Fits(G, Append(B, L[t].now), P \ {t}, L)
<1> DEFINE more == Append(B, L[t].now)
           n == Len(B) + 1
           Q == P \ {t}
<1>1. PICK H \in SUBSET DOMAIN G :
        /\ \E h \in [H -> DOMAIN B] :
              /\ \A i, j \in H : h[i] = h[j] => i = j
              /\ \A i \in H : B[h[i]] = G[i]
        /\ \E p \in [(DOMAIN G) \ H -> P] :
              /\ \A i, j \in (DOMAIN G) \ H : p[i] = p[j] => i = j
              /\ \A i \in (DOMAIN G) \ H : L[p[i]].now = G[i]
  BY DEF Fits
<1>2. PICK h \in [H -> DOMAIN B] : /\ \A i, j \in H : h[i] = h[j] => i = j
                                   /\ \A i \in H : B[h[i]] = G[i]
  BY <1>1
<1>3. PICK p \in [(DOMAIN G) \ H -> P] :
         /\ \A i, j \in (DOMAIN G) \ H : p[i] = p[j] => i = j
         /\ \A i \in (DOMAIN G) \ H : L[p[i]].now = G[i]
  BY <1>1
<1>4. /\ DOMAIN more = (DOMAIN B) \cup {n} /\ n \notin DOMAIN B /\ more[n] = L[t].now
      /\ \A i \in DOMAIN B : more[i] = B[i]
  OBVIOUS
<1> HIDE DEF more, n
<1> DEFINE mine == {i \in (DOMAIN G) \ H : p[i] = t}
           K == H \cup mine
           f == [i \in K |-> IF i \in H THEN h[i] ELSE n]
           g == [i \in (DOMAIN G) \ K |-> p[i]]
<1>5. K \in SUBSET DOMAIN G /\ f \in [K -> DOMAIN more] /\ \A i \in K : more[f[i]] = G[i]
  BY <1>2, <1>3, <1>4
<1>6. ASSUME NEW i \in K, NEW j \in K, f[i] = f[j] PROVE i = j
  <2>1. \A x \in H : f[x] \in DOMAIN B /\ f[x] = h[x]
    BY <1>2
  <2>2. \A x \in K \ H : f[x] = n /\ x \in (DOMAIN G) \ H /\ p[x] = t
    OBVIOUS
  <2> HIDE DEF f, K
  <2>3. CASE i \in H /\ j \in H
    BY <1>2, <1>6, <2>1, <2>3
  <2>4. CASE i \notin H /\ j \notin H
    BY <1>3, <2>2, <2>4
  <2>5. CASE ~(i \in H <=> j \in H)
    BY <1>4, <1>6, <2>1, <2>2, <2>5
  <2> QED BY <2>3, <2>4, <2>5
<1>7. g \in [(DOMAIN G) \ K -> Q] /\ \A i \in (DOMAIN G) \ K : L[g[i]].now = G[i]
  BY <1>3
<1>8. ASSUME NEW i \in (DOMAIN G) \ K, NEW j \in (DOMAIN G) \ K, g[i] = g[j] PROVE i = j
  BY <1>3, <1>8
<1> HIDE DEF f, g, K, Q
<1>9. /\ \E e \in [K -> DOMAIN more] :
            /\ \A i, j \in K : e[i] = e[j] => i = j
            /\ \A i \in K : more[e[i]] = G[i]
      /\ \E e \in [(DOMAIN G) \ K -> Q] :
            /\ \A i, j \in (DOMAIN G) \ K : e[i] = e[j] => i = j
            /\ \A i \in (DOMAIN G) \ K : L[e[i]].now = G[i]
  BY <1>5, <1>6, <1>7, <1>8
<1>10. Fits(G, more, Q, L)
  BY <1>5, <1>9 DEF Fits
<1> QED BY <1>10 DEF more, Q

-----------------------------------------------------------------------------
(* The steps. *)

LEMMA LoginsInit == ASSUME Logins!Init PROVE LoginsInv
<1> USE DEF Logins!Init
<1>1. /\ failures = <<>> /\ clock = 0 /\ \A t \in Requests : login[t].at = "idle"
      /\ \A k \in Keys : guesses[k] = <<>>
  BY DEF Logins!Idle
<1>2. LoginsType
  <2>1. DOMAIN failures = {} /\ failures \in [DOMAIN failures -> Seq(Nat)]
    BY <1>1
  <2>2. guesses \in [Keys -> Seq(Nat)]
    OBVIOUS
  <2> QED BY <1>1, <2>1, <2>2 DEF LoginsType
<1>3. Timely /\ \A k \in Keys : Kept(guesses[k])
  BY <1>1 DEF Timely, Kept
<1>4. \A k \in Keys : Counted(k)
  BY <1>1, FitsEmpty DEF Counted
<1>5. ASSUME NEW k \in Keys PROVE Bounded(k)
  <2>1. On(k, "verify") = {}
    BY <1>1 DEF On
  <2>2. Cardinality(On(k, "verify")) = 0 /\ Len(guesses[k]) = 0 /\ Cardinality(Requests) \in Nat
    BY <1>1, <2>1, FS_EmptySet, FS_CardinalityType, LoginConstants
  <2> QED BY <2>2, LoginConstants DEF Bounded
<1> QED BY <1>2, <1>3, <1>4, <1>5 DEF LoginsInv

LEMMA OnFinite ==
  ASSUME NEW k, NEW at_
  PROVE  /\ IsFiniteSet(On(k, at_)) /\ Cardinality(On(k, at_)) \in Nat
         /\ Cardinality(Requests) \in Nat
<1>1. On(k, at_) \in SUBSET Requests
  BY DEF On
<1>2. IsFiniteSet(On(k, at_))
  BY <1>1, FS_Subset, LoginConstants
<1> QED BY <1>2, FS_CardinalityType, LoginConstants

LEMMA BucketType == ASSUME LoginsType, NEW k PROVE Logins!Bucket(k) \in Seq(Nat)
BY DEF LoginsType, Logins!Bucket

\* One thread moves on.
LEMMA ThreadMoves ==
  ASSUME LoginsType, Timely, NEW t \in Requests, NEW r \in LogIn \cup {Logins!Idle},
         login' = [login EXCEPT ![t] = r], clock' = clock, r.at # "idle" => r.now <= clock
  PROVE  /\ login' \in [Requests -> LogIn \cup {Logins!Idle}] /\ Timely' /\ login'[t] = r
         /\ \A u \in Requests : u # t => login'[u] = login[u]
         /\ \A k, at_ : On(k, at_)' = IF r.at = at_ /\ r.key = k THEN On(k, at_) \cup {t}
                                      ELSE On(k, at_) \ {t}
<1>1. /\ login' \in [Requests -> LogIn \cup {Logins!Idle}] /\ login'[t] = r
      /\ \A u \in Requests : u # t => login'[u] = login[u]
  BY DEF LoginsType
<1>2. Timely'
  BY <1>1 DEF Timely
<1>3. \A k, at_ : On(k, at_)' = IF r.at = at_ /\ r.key = k THEN On(k, at_) \cup {t}
                                ELSE On(k, at_) \ {t}
  BY <1>1 DEF On
<1> QED BY <1>1, <1>2, <1>3

\* The key of a log-in whose bucket and times stay keeps its matching.
LEMMA SameCounted ==
  ASSUME NEW k, guesses[k] \in Seq(Nat), Counted(k), guesses'[k] = guesses[k],
         Logins!Bucket(k)' = Logins!Bucket(k), On(k, "record") \subseteq On(k, "record")',
         \A u \in On(k, "record") : login'[u].now = login[u].now
  PROVE  Counted(k)'
<1> DEFINE B == Logins!Bucket(k)
           P == On(k, "record")
           Q == On(k, "record")'
           L == login
           M == login'
           G == guesses[k]
<1>1. Fits(G, B, P, L) /\ G \in Seq(Nat) /\ P \subseteq Q /\ \A u \in P : M[u].now = L[u].now
  BY DEF Counted
<1> HIDE DEF B, P, Q, L, M, G
<1>2. Fits(G, B, Q, M)
  BY <1>1, FitsFrame
<1> QED BY <1>2 DEF B, P, Q, L, M, G, Counted

LEMMA ArriveStep ==
  ASSUME LoginsInv, NEW t \in Requests, NEW k \in Keys, Logins!Arrive(t, k) PROVE LoginsInv'
<1> DEFINE r == [at |-> "check", key |-> k, now |-> clock]
<1>1. /\ login[t].at = "idle" /\ login' = [login EXCEPT ![t] = r]
      /\ UNCHANGED <<failures, clock, guesses, uncounted>>
  BY DEF Logins!Arrive, Logins!At
<1>2. r \in LogIn /\ r.at = "check" /\ r.now = clock /\ clock \in Nat
  BY DEF LogIn, LoginsInv, LoginsType
<1> HIDE DEF r
<1>3. /\ login' \in [Requests -> LogIn \cup {Logins!Idle}] /\ Timely' /\ login'[t] = r
      /\ \A u \in Requests : u # t => login'[u] = login[u]
      /\ \A j, at_ : On(j, at_)' = IF r.at = at_ /\ r.key = j THEN On(j, at_) \cup {t}
                                   ELSE On(j, at_) \ {t}
  <2>1. r \in LogIn \cup {Logins!Idle} /\ r.now <= clock /\ LoginsType /\ Timely
    BY <1>2 DEF LoginsInv
  <2> QED BY <1>1, <2>1, ThreadMoves
<1>4. \A j : On(j, "record")' = On(j, "record") /\ On(j, "verify")' = On(j, "verify")
  BY <1>1, <1>2, <1>3 DEF On
<1>5. LoginsType'
  BY <1>1, <1>3 DEF LoginsInv, LoginsType
<1>6. ASSUME NEW j \in Keys \ uncounted PROVE Counted(j)' /\ Bounded(j)'
  <2>1. Counted(j)'
    <3>1. \A u \in On(j, "record") : login'[u] = login[u]
      BY <1>1, <1>3 DEF On
    <3> QED BY <1>1, <1>4, <3>1, SameCounted DEF LoginsInv, LoginsType, Logins!Bucket
  <2>2. Bounded(j)'
    BY <1>1, <1>4 DEF LoginsInv, Bounded
  <2> QED BY <2>1, <2>2
<1>7. \A j \in Keys : Kept(guesses[j])'
  BY <1>1 DEF LoginsInv, Kept
<1> QED BY <1>1, <1>3, <1>5, <1>6, <1>7 DEF LoginsInv

LEMMA BucketWith ==
  ASSUME NEW k, NEW times, failures' = Logins!With(failures, k, times)
  PROVE  Logins!Bucket(k)' = times /\ \A j : j # k => Logins!Bucket(j)' = Logins!Bucket(j)
BY DEF Logins!With, Logins!Bucket

LEMMA BucketWithout ==
  ASSUME NEW S, failures' = Logins!Without(failures, S)
  PROVE  \A j : Logins!Bucket(j)' = IF j \in S THEN <<>> ELSE Logins!Bucket(j)
BY DEF Logins!Without, Logins!Bucket

LEMMA WithType ==
  ASSUME NEW f, f \in [DOMAIN f -> Seq(Nat)], DOMAIN f \subseteq Keys, NEW k \in Keys, NEW times \in Seq(Nat)
  PROVE  /\ DOMAIN Logins!With(f, k, times) \subseteq Keys
         /\ Logins!With(f, k, times) \in [DOMAIN Logins!With(f, k, times) -> Seq(Nat)]
BY DEF Logins!With

LEMMA WithoutType ==
  ASSUME NEW f, f \in [DOMAIN f -> Seq(Nat)], DOMAIN f \subseteq Keys, NEW S
  PROVE  /\ DOMAIN Logins!Without(f, S) \subseteq Keys
         /\ Logins!Without(f, S) \in [DOMAIN Logins!Without(f, S) -> Seq(Nat)]
BY DEF Logins!Without

LEMMA LoginIs ==
  ASSUME LoginsInv, NEW t \in Requests, login[t].at # "idle"
  PROVE  /\ login[t] \in LogIn /\ login[t].key \in Keys /\ login[t].now \in Nat
         /\ login[t].now <= clock /\ clock \in Nat
<1>1. login[t] \in LogIn \cup {Logins!Idle} /\ login[t].now <= clock /\ clock \in Nat
  BY DEF LoginsInv, LoginsType, Timely
<1>2. login[t] \in LogIn
  BY <1>1 DEF Logins!Idle
<1> QED BY <1>1, <1>2 DEF LogIn

\* A thread that goes on with a log-in, or ends it.
LEMMA GoesOn ==
  ASSUME LoginsInv, NEW t \in Requests, login[t].at # "idle", UNCHANGED clock,
         NEW there \in {"idle", "verify", "record", "reset"},
         there # "idle" => Logins!Goto(t, there), there = "idle" => Logins!Answer(t),
         NEW k, k = login[t].key
  PROVE  /\ login' \in [Requests -> LogIn \cup {Logins!Idle}] /\ Timely'
         /\ \A u \in Requests : u # t => login'[u] = login[u]
         /\ there # "idle" => login'[t].now = clock
         /\ \A j : j # k => /\ On(j, "record")' = On(j, "record") /\ t \notin On(j, "record")
                            /\ On(j, "verify")' = On(j, "verify") /\ t \notin On(j, "verify")
         /\ On(k, "record")' = IF there = "record" THEN On(k, "record") \cup {t}
                               ELSE On(k, "record") \ {t}
         /\ On(k, "verify")' = IF there = "verify" THEN On(k, "verify") \cup {t}
                               ELSE On(k, "verify") \ {t}
<1>1. CASE there = "idle"
  <2>1. login' = [login EXCEPT ![t] = Logins!Idle] /\ Logins!Idle.at = "idle"
    BY <1>1 DEF Logins!Answer, Logins!Idle
  <2>2. /\ login' \in [Requests -> LogIn \cup {Logins!Idle}] /\ Timely' /\ login'[t] = Logins!Idle
        /\ \A u \in Requests : u # t => login'[u] = login[u]
    <3>1. Logins!Idle \in LogIn \cup {Logins!Idle} /\ LoginsType /\ Timely
      BY DEF LoginsInv
    <3> QED BY <2>1, <3>1, ThreadMoves
  <2>3. \A j, at_ : at_ # "idle" => On(j, at_)' = On(j, at_) \ {t}
    BY <2>1, <2>2 DEF On
  <2>4. \A j, at_ : j # k => t \notin On(j, at_)
    BY DEF On
  <2> QED BY <1>1, <2>2, <2>3, <2>4
<1>2. CASE there # "idle"
  <2> DEFINE r == [[login[t] EXCEPT !.at = there] EXCEPT !.now = clock]
  <2>1. login[t] \in LogIn /\ clock \in Nat
    BY LoginIs
  <2>2. login' = [login EXCEPT ![t] = r]
    BY <1>2 DEF Logins!Goto
  <2>3. r \in LogIn /\ r.at = there /\ r.key = k /\ r.now = clock
    BY <1>2, <2>1 DEF LogIn
  <2> HIDE DEF r
  <2>4. /\ login' \in [Requests -> LogIn \cup {Logins!Idle}] /\ Timely' /\ login'[t] = r
        /\ \A u \in Requests : u # t => login'[u] = login[u]
    <3>1. r \in LogIn \cup {Logins!Idle} /\ LoginsType /\ Timely /\ r.now <= clock
      BY <2>1, <2>3 DEF LoginsInv
    <3> QED BY <2>2, <3>1, ThreadMoves
  <2>5. \A at_ : On(k, at_)' = IF at_ = there THEN On(k, at_) \cup {t} ELSE On(k, at_) \ {t}
    BY <2>3, <2>4 DEF On
  <2>6. \A j, at_ : j # k => On(j, at_)' = On(j, at_) /\ t \notin On(j, at_)
    BY <2>3, <2>4 DEF On
  <2> QED BY <2>1, <2>3, <2>4, <2>5, <2>6
<1> QED BY <1>1, <1>2

LEMMA BucketsKnown ==
  ASSUME LoginsInv
  PROVE  failures \in [DOMAIN failures -> Seq(Nat)] /\ DOMAIN failures \subseteq Keys
BY DEF LoginsInv, LoginsType

\* The keys the step is not about.
LEMMA OthersCount ==
  ASSUME LoginsInv, UNCHANGED guesses, NEW j \in Keys \ uncounted,
         Logins!Bucket(j)' = Logins!Bucket(j), NEW t \in Requests,
         \A u \in Requests : u # t => login'[u] = login[u],
         On(j, "record")' = On(j, "record"), On(j, "verify")' = On(j, "verify"),
         t \notin On(j, "record")
  PROVE  Counted(j)' /\ Bounded(j)'
<1>1. \A u \in On(j, "record") : login'[u] = login[u]
  BY DEF On
<1>2. Counted(j)'
  BY <1>1, SameCounted DEF LoginsInv, LoginsType
<1>3. Bounded(j)'
  BY DEF LoginsInv, Bounded
<1> QED BY <1>2, <1>3

\* What a key is held for still matches its wrong passwords when it is pruned.
LEMMA PrunedFits ==
  ASSUME LoginsInv, NEW k \in Keys \ uncounted, NEW d \in Nat, d <= clock
  PROVE  /\ Fits(guesses[k], Logins!Prune(Logins!Bucket(k), d), On(k, "record"), login)
         /\ Logins!Bucket(k) \in Seq(Nat) /\ guesses[k] \in Seq(Nat)
         /\ Logins!Prune(Logins!Bucket(k), d) \in Seq(Nat)
<1> DEFINE G == guesses[k]
           B == Logins!Bucket(k)
           P == On(k, "record")
<1>1. /\ G \in Seq(Nat) /\ B \in Seq(Nat) /\ Fits(G, B, P, login) /\ clock \in Nat /\ Kept(G)
  BY BucketType DEF LoginsInv, LoginsType, Counted
<1>2. \A i \in DOMAIN G : G[i] \in Nat /\ G[i] > clock - Window
  BY <1>1 DEF Kept
<1>3. \A i \in DOMAIN G : G[i] > d - Window
  BY <1>1, <1>2, LoginConstants
<1> HIDE DEF G, B, P
<1>4. Fits(G, Logins!Prune(B, d), P, login)
  BY <1>1, <1>3, FitsPruned
<1>5. Logins!Prune(B, d) \in Seq(Nat)
  BY <1>1, PruneType
<1> QED BY <1>1, <1>4, <1>5 DEF G, B, P

LEMMA CheckStep == ASSUME LoginsInv, NEW t \in Requests, Logins!Check(t) PROVE LoginsInv'
<1>1. PICK k \in Keys : k = login[t].key
  BY LoginIs DEF Logins!Check, Logins!At
<1>2. PICK d \in Nat : d = login[t].now /\ d <= clock
  BY LoginIs DEF Logins!Check, Logins!At
<1>3. PICK times \in Seq(Nat) : times = Logins!Prune(Logins!Bucket(k), d)
  <2>1. Logins!Bucket(k) \in Seq(Nat) /\ d \in Int
    BY BucketType DEF LoginsInv
  <2> QED BY <2>1, PruneType
<1>4. /\ login[t].at = "check" /\ UNCHANGED <<clock, guesses, uncounted>>
      /\ failures' = IF times = <<>> THEN Logins!Without(failures, {k})
                     ELSE Logins!With(failures, k, times)
      /\ IF Logins!Blocked(times) THEN Logins!Answer(t) ELSE Logins!Goto(t, "verify")
  BY <1>1, <1>2, <1>3 DEF Logins!Check, Logins!At
<1>5. /\ Logins!Bucket(k)' = times /\ \A j : j # k => Logins!Bucket(j)' = Logins!Bucket(j)
      /\ DOMAIN failures' \subseteq Keys /\ failures' \in [DOMAIN failures' -> Seq(Nat)]
  <2>1. CASE times = <<>>
    <3>1. failures' = Logins!Without(failures, {k})
      BY <1>4, <2>1
    <3>2. DOMAIN failures' \subseteq Keys /\ failures' \in [DOMAIN failures' -> Seq(Nat)]
      BY <3>1, WithoutType, BucketsKnown
    <3>3. \A j : Logins!Bucket(j)' = IF j \in {k} THEN <<>> ELSE Logins!Bucket(j)
      BY <3>1, BucketWithout
    <3> QED BY <2>1, <3>2, <3>3
  <2>2. CASE times # <<>>
    <3>1. failures' = Logins!With(failures, k, times)
      BY <1>4, <2>2
    <3>2. DOMAIN failures' \subseteq Keys /\ failures' \in [DOMAIN failures' -> Seq(Nat)]
      BY <3>1, WithType, BucketsKnown
    <3> QED BY <3>1, <3>2, BucketWith
  <2> QED BY <2>1, <2>2
<1>6. /\ login' \in [Requests -> LogIn \cup {Logins!Idle}] /\ Timely'
      /\ \A u \in Requests : u # t => login'[u] = login[u]
      /\ \A j : j # k => /\ On(j, "record")' = On(j, "record") /\ t \notin On(j, "record")
                         /\ On(j, "verify")' = On(j, "verify") /\ t \notin On(j, "verify")
      /\ On(k, "record")' = On(k, "record") \ {t}
      /\ On(k, "verify")' = IF Logins!Blocked(times) THEN On(k, "verify") \ {t}
                            ELSE On(k, "verify") \cup {t}
  <2>1. login[t].at # "idle" /\ UNCHANGED clock
    BY <1>4
  <2>2. CASE Logins!Blocked(times)
    <3>1. Logins!Answer(t) /\ "idle" \in {"idle", "verify", "record", "reset"}
      BY <1>4, <2>2
    <3> QED BY <1>1, <2>1, <2>2, <3>1, GoesOn
  <2>3. CASE ~Logins!Blocked(times)
    <3>1. Logins!Goto(t, "verify") /\ "verify" \in {"idle", "verify", "record", "reset"}
      BY <1>4, <2>3
    <3> QED BY <1>1, <2>1, <2>3, <3>1, GoesOn
  <2> QED BY <2>2, <2>3
<1>7. t \notin On(k, "record") /\ t \notin On(k, "verify")
  BY <1>4 DEF On
<1>8. LoginsType'
  BY <1>4, <1>5, <1>6 DEF LoginsInv, LoginsType
<1>9. \A j \in Keys : Kept(guesses[j])'
  BY <1>4 DEF LoginsInv, Kept
<1>10. ASSUME NEW j \in Keys \ uncounted, j # k PROVE Counted(j)' /\ Bounded(j)'
  BY <1>4, <1>5, <1>6, <1>10, OthersCount
<1>11. ASSUME k \notin uncounted PROVE Counted(k)' /\ Bounded(k)'
  <2> DEFINE G == guesses[k]
             P == On(k, "record")
             V == On(k, "verify")
             n == Cardinality(Requests)
  <2>1. Fits(G, times, P, login) /\ G \in Seq(Nat)
    BY <1>2, <1>3, <1>11, PrunedFits
  <2>2. On(k, "record")' = P /\ \A u \in P : login'[u].now = login[u].now
    BY <1>6, <1>7 DEF On
  <2>3. Counted(k)'
    <3> DEFINE L == login
               M == login'
    <3>1. \A u \in P : M[u].now = L[u].now
      BY <2>2
    <3>2. Fits(G, times, P, L)
      BY <2>1
    <3> HIDE DEF G, P, L, M
    <3>3. Fits(G, times, P, M)
      BY <2>1, <3>1, <3>2, FitsFrame
    <3> QED BY <1>4, <1>5, <2>2, <3>3 DEF Counted, G, P, M
  <2>4. Bounded(k)'
    <3>1. Len(G) + Cardinality(V) <= MaxFailures - 1 + n
      BY <1>11 DEF LoginsInv, Bounded
    <3>2. CASE Logins!Blocked(times)
      <4>1. On(k, "verify")' = V
        BY <1>6, <1>7, <3>2
      <4> QED BY <1>4, <3>1, <4>1 DEF Bounded
    <3>3. CASE ~Logins!Blocked(times)
      <4>1. On(k, "verify")' = V \cup {t}
        BY <1>6, <3>3
      <4>2. /\ IsFiniteSet(P) /\ IsFiniteSet(V) /\ Cardinality(P) \in Nat /\ Cardinality(V) \in Nat
            /\ n \in Nat
        BY OnFinite
      <4>3. Cardinality(V \cup {t}) = Cardinality(V) + 1 /\ IsFiniteSet(V \cup {t})
        BY <1>7, <4>2, FS_AddElement
      <4>4. Cardinality(P \cup (V \cup {t})) = Cardinality(P) + Cardinality(V) + 1
        <5>1. P \cap (V \cup {t}) = {}
          BY <1>7 DEF On
        <5>2. Cardinality(P \cap (V \cup {t})) = 0
          BY <5>1, FS_EmptySet
        <5> HIDE DEF P, V
        <5>3. Cardinality(P \cup (V \cup {t}))
                = Cardinality(P) + Cardinality(V \cup {t}) - Cardinality(P \cap (V \cup {t}))
          BY <4>2, <4>3, FS_Union
        <5> QED BY <4>2, <4>3, <5>2, <5>3
      <4>5. Cardinality(P \cup (V \cup {t})) <= n
        <5>1. P \cup (V \cup {t}) \in SUBSET Requests
          BY DEF On
        <5> HIDE DEF P, V
        <5> QED BY <5>1, LoginConstants, FS_Subset
      <4>6. Len(times) <= MaxFailures - 1 /\ Len(times) \in Nat
        BY <3>3, LoginConstants DEF Logins!Blocked
      <4>7. Len(G) <= Len(times) + Cardinality(P) /\ Len(G) \in Nat
        <5> HIDE DEF P, G
        <5> QED BY <2>1, <4>2, FitsCount
      <4>8. Len(G) + Cardinality(V \cup {t}) <= MaxFailures - 1 + n
        BY <4>2, <4>3, <4>4, <4>5, <4>6, <4>7, LoginConstants
      <4> QED BY <1>4, <4>1, <4>8 DEF Bounded
    <3> QED BY <3>2, <3>3
  <2> QED BY <2>3, <2>4
<1>12. \A j \in Keys \ uncounted' : Counted(j)' /\ Bounded(j)'
  BY <1>4, <1>10, <1>11
<1> QED BY <1>6, <1>8, <1>9, <1>12 DEF LoginsInv

LEMMA VerifyStep == ASSUME LoginsInv, NEW t \in Requests, Logins!Verify(t) PROVE LoginsInv'
<1>1. PICK k \in Keys : k = login[t].key
  BY LoginIs DEF Logins!Verify, Logins!At
<1>2. login[t].at = "verify" /\ UNCHANGED <<failures, clock, uncounted>> /\ clock \in Nat
  BY DEF Logins!Verify, Logins!At, LoginsInv, LoginsType
<1>3. PICK there \in {"reset", "record"} :
        /\ Logins!Goto(t, there)
        /\ there = "reset" => guesses' = guesses
        /\ there = "record" => guesses' = [guesses EXCEPT ![k] = Append(guesses[k], clock)]
  BY <1>1 DEF Logins!Verify
<1>4. /\ login' \in [Requests -> LogIn \cup {Logins!Idle}] /\ Timely'
      /\ \A u \in Requests : u # t => login'[u] = login[u]
      /\ login'[t].now = clock
      /\ \A j : j # k => /\ On(j, "record")' = On(j, "record") /\ t \notin On(j, "record")
                         /\ On(j, "verify")' = On(j, "verify") /\ t \notin On(j, "verify")
      /\ On(k, "record")' = IF there = "record" THEN On(k, "record") \cup {t}
                            ELSE On(k, "record") \ {t}
      /\ On(k, "verify")' = On(k, "verify") \ {t}
  <2>1. login[t].at # "idle" /\ there \in {"idle", "verify", "record", "reset"}
        /\ there # "idle" /\ there # "verify"
    BY <1>2
  <2> QED BY <1>1, <1>2, <1>3, <2>1, GoesOn
<1>5. t \notin On(k, "record") /\ t \in On(k, "verify") /\ On(k, "verify")' = On(k, "verify") \ {t}
  BY <1>1, <1>2, <1>4 DEF On
<1>6. /\ guesses \in [Keys -> Seq(Nat)] /\ guesses' \in [Keys -> Seq(Nat)]
      /\ \A j \in Keys : j # k => guesses'[j] = guesses[j]
  <2>1. guesses \in [Keys -> Seq(Nat)] /\ Append(guesses[k], clock) \in Seq(Nat)
    BY <1>2 DEF LoginsInv, LoginsType
  <2> QED BY <1>3, <2>1
<1>7. LoginsType'
  BY <1>2, <1>4, <1>6 DEF LoginsInv, LoginsType
<1>8. ASSUME NEW j \in Keys PROVE Kept(guesses[j])'
  <2>1. guesses[j] \in Seq(Nat) /\ Kept(guesses[j])
    BY <1>6 DEF LoginsInv
  <2>2. CASE guesses'[j] = guesses[j]
    BY <1>2, <2>1, <2>2 DEF Kept
  <2>3. CASE guesses'[j] # guesses[j]
    <3>1. guesses'[j] = Append(guesses[j], clock)
      BY <1>3, <1>6, <2>3
    <3> DEFINE s == guesses[j]
               n == Len(s) + 1
               r == Append(s, clock)
    <3>2. /\ DOMAIN r = (DOMAIN s) \cup {n} /\ r[n] = clock /\ n \in Nat
          /\ \A i \in DOMAIN s : r[i] = s[i] /\ i < n /\ s[i] \in Nat
      BY <2>1
    <3>3. /\ \A i \in DOMAIN s : clock - Window < s[i] /\ s[i] <= clock
          /\ \A i, h \in DOMAIN s : i <= h => s[i] <= s[h]
      BY <2>1 DEF Kept
    <3> HIDE DEF s, n, r
    <3>4. \A i \in DOMAIN r : clock - Window < r[i] /\ r[i] <= clock
      BY <1>2, <3>2, <3>3, LoginConstants
    <3>5. \A i, h \in DOMAIN r : i <= h => r[i] <= r[h]
      <4> SUFFICES ASSUME NEW i \in DOMAIN r, NEW h \in DOMAIN r, i <= h PROVE r[i] <= r[h]
        OBVIOUS
      <4>1. CASE h = n
        BY <1>2, <3>2, <3>4, <4>1
      <4>2. CASE h # n
        <5>1. h \in DOMAIN s /\ h < n
          BY <3>2, <4>2
        <5>2. i \in DOMAIN s
          <6>1. h \in Nat /\ n \in Nat /\ h < n
            BY <1>6, <3>2, <5>1 DEF s
          <6>2. CASE i = n
            BY <6>1, <6>2
          <6> QED BY <3>2, <6>2
        <5> QED BY <3>2, <3>3, <5>1, <5>2
      <4> QED BY <4>1, <4>2
    <3> QED BY <1>2, <3>1, <3>4, <3>5 DEF Kept, r, s
  <2> QED BY <2>2, <2>3
<1>9. \A j : Logins!Bucket(j)' = Logins!Bucket(j)
  BY <1>2 DEF Logins!Bucket
<1>10. ASSUME NEW j \in Keys \ uncounted, j # k PROVE Counted(j)' /\ Bounded(j)'
  <2>1. On(j, "record")' = On(j, "record") /\ On(j, "verify")' = On(j, "verify")
    BY <1>4, <1>10
  <2>2. \A u \in On(j, "record") : login'[u] = login[u]
    BY <1>4, <1>10 DEF On
  <2>3. Counted(j)'
    BY <1>6, <1>9, <1>10, <2>1, <2>2, SameCounted DEF LoginsInv
  <2>4. Bounded(j)'
    BY <1>6, <1>10, <2>1 DEF LoginsInv, Bounded
  <2> QED BY <2>3, <2>4
<1>11. ASSUME k \notin uncounted PROVE Counted(k)' /\ Bounded(k)'
  <2> DEFINE P == On(k, "record")
             V == On(k, "verify")
             G == guesses[k]
  <2>1. Counted(k) /\ Len(G) + Cardinality(V) <= MaxFailures - 1 + Cardinality(Requests)
    BY <1>11 DEF LoginsInv, Bounded
  <2>2. /\ Cardinality(V) \in Nat /\ IsFiniteSet(V) /\ Cardinality(Requests) \in Nat
        /\ MaxFailures \in Nat
    BY OnFinite, LoginConstants
  <2>3. Cardinality(V \ {t}) = Cardinality(V) - 1
    <3>1. t \in V
      BY <1>5
    <3> HIDE DEF V
    <3> QED BY <2>2, <3>1, FS_RemoveElement
  <2>4. G \in Seq(Nat) /\ Len(G) \in Nat
    BY <1>6
  <2>5. CASE there = "reset"
    <3>1. On(k, "record")' = P
      BY <1>4, <1>5, <2>5
    <3>2. \A u \in P : login'[u] = login[u]
      BY <1>4, <1>5 DEF On
    <3>3. Counted(k)'
      BY <1>3, <1>6, <1>9, <2>1, <2>5, <3>1, <3>2, SameCounted
    <3>4. Bounded(k)'
      <4>1. guesses'[k] = G /\ On(k, "verify")' = V \ {t}
        BY <1>3, <1>5, <2>5
      <4>2. Len(G) + Cardinality(V \ {t}) <= MaxFailures - 1 + Cardinality(Requests)
        <5> HIDE DEF G, V
        <5> QED BY <2>1, <2>2, <2>3, <2>4
      <4> QED BY <4>1, <4>2 DEF Bounded
    <3> QED BY <3>3, <3>4
  <2>6. CASE there = "record"
    <3>1. guesses'[k] = Append(G, clock) /\ On(k, "record")' = P \cup {t}
      BY <1>3, <1>4, <1>6, <2>6
    <3>2. Counted(k)'
      <4> DEFINE L == login
                 M == login'
                 B == Logins!Bucket(k)
      <4>1. /\ Fits(G, B, P, L) /\ t \notin P /\ \A q \in P : M[q].now = L[q].now
            /\ M[t].now = clock
        BY <1>4, <1>5, <2>1 DEF On, Counted
      <4> HIDE DEF G, B, P, L, M
      <4>2. Fits(Append(G, M[t].now), B, P \cup {t}, M)
        BY <1>2, <2>4, <4>1, FitsGuess
      <4> QED BY <1>9, <3>1, <4>1, <4>2 DEF Counted, M, P, G, B
    <3>3. Bounded(k)'
      <4>1. Len(Append(G, clock)) = Len(G) + 1
        BY <2>4, <1>2
      <4>2. Len(Append(G, clock)) + Cardinality(V \ {t}) <= MaxFailures - 1 + Cardinality(Requests)
        <5> HIDE DEF G, V
        <5> QED BY <2>1, <2>2, <2>3, <2>4, <4>1
      <4> QED BY <1>5, <3>1, <4>2 DEF Bounded
    <3> QED BY <3>2, <3>3
  <2> QED BY <2>5, <2>6
<1>12. \A j \in Keys \ uncounted' : Counted(j)' /\ Bounded(j)'
  BY <1>2, <1>10, <1>11
<1> QED BY <1>4, <1>7, <1>8, <1>12 DEF LoginsInv

LEMMA RecordStep == ASSUME LoginsInv, NEW t \in Requests, Logins!RecordFailure(t) PROVE LoginsInv'
<1>1. PICK k \in Keys : k = login[t].key
  BY LoginIs DEF Logins!RecordFailure, Logins!At
<1>2. PICK d \in Nat : d = login[t].now /\ d <= clock
  BY LoginIs DEF Logins!RecordFailure, Logins!At
<1>3. PICK times \in Seq(Nat) : times = Logins!Prune(Logins!Bucket(k), d)
  <2>1. Logins!Bucket(k) \in Seq(Nat) /\ d \in Int
    BY BucketType DEF LoginsInv
  <2> QED BY <2>1, PruneType
<1>4. /\ login[t].at = "record" /\ UNCHANGED <<clock, guesses>> /\ Logins!Answer(t)
      /\ uncounted \subseteq uncounted'
  BY DEF Logins!RecordFailure, Logins!At
<1>5. PICK gone \in SUBSET DOMAIN failures :
        /\ \A j \in gone : Logins!Prune(failures[j], d) # <<>> => j \in uncounted'
        /\ k \notin gone
        /\ \/ failures' = Logins!With(Logins!Without(failures, gone), k, Append(times, d))
           \/ failures' = Logins!Without(failures, gone) /\ k \in uncounted'
  <2>1. Logins!Stale(d) \subseteq DOMAIN failures
    BY DEF Logins!Stale
  <2>2. CASE Logins!Cardinality(DOMAIN failures) >= MaxKeys /\ k \notin DOMAIN failures
    <3> DEFINE gone == Logins!Stale(d)
    <3>1. \A j \in gone : Logins!Prune(failures[j], d) # <<>> => j \in uncounted'
      BY <1>1, <1>2, <2>2 DEF Logins!RecordFailure
    <3>2. k \notin gone
      BY <2>1, <2>2
    <3>3. \/ failures' = Logins!With(Logins!Without(failures, gone), k, Append(times, d))
          \/ failures' = Logins!Without(failures, gone) /\ k \in uncounted'
      BY <1>1, <1>2, <1>3, <2>2 DEF Logins!RecordFailure
    <3> HIDE DEF gone
    <3>4. gone \in SUBSET DOMAIN failures
      BY <2>1 DEF gone
    <3> QED BY <3>1, <3>2, <3>3, <3>4
  <2>3. CASE ~(Logins!Cardinality(DOMAIN failures) >= MaxKeys /\ k \notin DOMAIN failures)
    <3>1. failures' = Logins!With(Logins!Without(failures, {}), k, Append(times, d))
      BY <1>1, <1>2, <1>3, <2>3 DEF Logins!RecordFailure
    <3> QED BY <3>1
  <2> QED BY <2>2, <2>3
<1>6. /\ login' \in [Requests -> LogIn \cup {Logins!Idle}] /\ Timely'
      /\ \A u \in Requests : u # t => login'[u] = login[u]
      /\ \A j : j # k => /\ On(j, "record")' = On(j, "record") /\ t \notin On(j, "record")
                         /\ On(j, "verify")' = On(j, "verify") /\ t \notin On(j, "verify")
      /\ On(k, "record")' = On(k, "record") \ {t}
      /\ On(k, "verify")' = On(k, "verify") \ {t}
  <2>1. /\ login[t].at # "idle" /\ UNCHANGED clock /\ Logins!Answer(t)
        /\ "idle" \in {"idle", "verify", "record", "reset"}
    BY <1>4
  <2> QED BY <1>1, <2>1, GoesOn
<1>7. t \in On(k, "record") /\ t \notin On(k, "verify") /\ On(k, "verify")' = On(k, "verify")
  BY <1>1, <1>4, <1>6 DEF On
<1>8. /\ \A j \in Keys : j # k => Logins!Bucket(j)' = IF j \in gone THEN <<>> ELSE Logins!Bucket(j)
      /\ k \in uncounted' \/ Logins!Bucket(k)' = Append(times, d)
      /\ DOMAIN failures' \subseteq Keys /\ failures' \in [DOMAIN failures' -> Seq(Nat)]
  <2> DEFINE left == Logins!Without(failures, gone)
  <2>1. /\ DOMAIN left \subseteq Keys /\ left \in [DOMAIN left -> Seq(Nat)]
        /\ Append(times, d) \in Seq(Nat)
    BY WithoutType, BucketsKnown
  <2>2. CASE failures' = Logins!With(left, k, Append(times, d))
    <3>1. DOMAIN failures' \subseteq Keys /\ failures' \in [DOMAIN failures' -> Seq(Nat)]
      BY <2>1, <2>2, WithType
    <3>2. /\ Logins!Bucket(k)' = Append(times, d)
          /\ \A j \in Keys : j # k => Logins!Bucket(j)' = IF j \in gone THEN <<>> ELSE Logins!Bucket(j)
      BY <2>2 DEF Logins!With, Logins!Without, Logins!Bucket
    <3> QED BY <3>1, <3>2
  <2>3. CASE failures' = left /\ k \in uncounted'
    BY <2>1, <2>3, BucketWithout
  <2> QED BY <1>5, <2>2, <2>3
<1>9. LoginsType'
  BY <1>4, <1>6, <1>8 DEF LoginsInv, LoginsType
<1>10. \A j \in Keys : Kept(guesses[j])'
  BY <1>4 DEF LoginsInv, Kept
<1>11. ASSUME NEW j \in Keys \ uncounted', j # k PROVE Counted(j)' /\ Bounded(j)'
  <2>1. /\ j \in Keys \ uncounted
        /\ On(j, "record")' = On(j, "record") /\ t \notin On(j, "record")
        /\ On(j, "verify")' = On(j, "verify") /\ t \notin On(j, "verify")
    BY <1>4, <1>6, <1>11
  <2>2. CASE j \notin gone
    BY <1>4, <1>6, <1>8, <1>11, <2>1, <2>2, OthersCount
  <2>3. CASE j \in gone
    <3>1. Logins!Prune(Logins!Bucket(j), d) = <<>>
      BY <1>5, <1>11, <2>3 DEF Logins!Bucket
    <3> DEFINE G == guesses[j]
               P == On(j, "record")
               L == login
               M == login'
    <3>2. Fits(G, <<>>, P, L) /\ G \in Seq(Nat)
      BY <1>2, <2>1, <3>1, PrunedFits
    <3>3. \A u \in P : M[u].now = L[u].now
      BY <1>6, <2>1 DEF On
    <3> HIDE DEF G, P, L, M
    <3>4. Fits(G, <<>>, P, M)
      BY <3>2, <3>3, FitsFrame
    <3>5. Counted(j)'
      BY <1>4, <1>8, <1>11, <2>1, <2>3, <3>4 DEF Counted, G, P, M
    <3>6. Bounded(j)'
      BY <1>4, <2>1 DEF LoginsInv, Bounded
    <3> QED BY <3>5, <3>6
  <2> QED BY <2>2, <2>3
<1>12. ASSUME k \notin uncounted' PROVE Counted(k)' /\ Bounded(k)'
  <2>1. k \in Keys \ uncounted
    BY <1>4, <1>12
  <2> DEFINE G == guesses[k]
             P == On(k, "record")
             L == login
             M == login'
  <2>2. Fits(G, times, P, L) /\ G \in Seq(Nat)
    BY <1>2, <1>3, <2>1, PrunedFits
  <2>3. /\ t \in P /\ L[t].now = d /\ \A u \in P \ {t} : M[u].now = L[u].now
        /\ On(k, "record")' = P \ {t}
    BY <1>2, <1>6, <1>7 DEF On
  <2> HIDE DEF G, P, L, M
  <2>4. Fits(G, Append(times, d), P \ {t}, L)
    BY <2>2, <2>3, FitsRecord
  <2>5. Fits(G, Append(times, d), P \ {t}, M)
    BY <2>2, <2>3, <2>4, FitsFrame
  <2>6. Counted(k)'
    BY <1>4, <1>8, <1>12, <2>3, <2>5 DEF Counted, G, M
  <2>7. Bounded(k)'
    BY <1>4, <1>7, <2>1 DEF LoginsInv, Bounded
  <2> QED BY <2>6, <2>7
<1> QED BY <1>6, <1>9, <1>10, <1>11, <1>12 DEF LoginsInv

LEMMA ResetStep == ASSUME LoginsInv, NEW t \in Requests, Logins!Reset(t) PROVE LoginsInv'
<1>1. PICK k \in Keys : k = login[t].key
  BY LoginIs DEF Logins!Reset, Logins!At
<1>2. /\ login[t].at = "reset" /\ UNCHANGED clock /\ Logins!Answer(t)
      /\ uncounted' = uncounted \ {k} /\ failures' = Logins!Without(failures, {k})
      /\ guesses' = [guesses EXCEPT ![k] = <<>>]
  BY <1>1 DEF Logins!Reset, Logins!At
<1>3. /\ login' \in [Requests -> LogIn \cup {Logins!Idle}] /\ Timely'
      /\ \A u \in Requests : u # t => login'[u] = login[u]
      /\ \A j : j # k => /\ On(j, "record")' = On(j, "record") /\ t \notin On(j, "record")
                         /\ On(j, "verify")' = On(j, "verify") /\ t \notin On(j, "verify")
  <2>1. /\ login[t].at # "idle" /\ UNCHANGED clock /\ Logins!Answer(t)
        /\ "idle" \in {"idle", "verify", "record", "reset"}
    BY <1>2
  <2> QED BY <1>1, <2>1, GoesOn
<1>4. /\ guesses \in [Keys -> Seq(Nat)] /\ guesses' \in [Keys -> Seq(Nat)] /\ guesses'[k] = <<>>
      /\ \A j \in Keys : j # k => guesses'[j] = guesses[j]
  BY <1>2 DEF LoginsInv, LoginsType
<1>5. /\ \A j : j # k => Logins!Bucket(j)' = Logins!Bucket(j)
      /\ DOMAIN failures' \subseteq Keys /\ failures' \in [DOMAIN failures' -> Seq(Nat)]
  <2>1. DOMAIN failures' \subseteq Keys /\ failures' \in [DOMAIN failures' -> Seq(Nat)]
    BY <1>2, WithoutType, BucketsKnown
  <2>2. \A j : Logins!Bucket(j)' = IF j \in {k} THEN <<>> ELSE Logins!Bucket(j)
    BY <1>2, BucketWithout
  <2> QED BY <2>1, <2>2
<1>6. LoginsType'
  BY <1>2, <1>3, <1>4, <1>5 DEF LoginsInv, LoginsType
<1>7. ASSUME NEW j \in Keys PROVE Kept(guesses[j])'
  <2>1. CASE j = k
    BY <1>4, <2>1 DEF Kept
  <2>2. CASE j # k
    BY <1>2, <1>4, <2>2 DEF Kept, LoginsInv
  <2> QED BY <2>1, <2>2
<1>8. ASSUME NEW j \in Keys \ uncounted', j # k PROVE Counted(j)' /\ Bounded(j)'
  <2>1. j \in Keys \ uncounted /\ \A u \in On(j, "record") : login'[u] = login[u]
    BY <1>2, <1>3, <1>8 DEF On
  <2>2. Counted(j)'
    BY <1>3, <1>4, <1>5, <1>8, <2>1, SameCounted DEF LoginsInv
  <2>3. Bounded(j)'
    BY <1>3, <1>4, <1>8, <2>1 DEF LoginsInv, Bounded
  <2> QED BY <2>2, <2>3
<1>9. Counted(k)' /\ Bounded(k)'
  <2>1. Counted(k)'
    BY <1>4, FitsEmpty DEF Counted
  <2>2. PICK V \in SUBSET Requests : V = On(k, "verify")'
    <3>1. On(k, "verify")' \in SUBSET Requests
      BY DEF On
    <3> QED BY <3>1
  <2>3. Cardinality(V) <= Cardinality(Requests) /\ Cardinality(V) \in Nat /\ Cardinality(Requests) \in Nat
    BY LoginConstants, FS_Subset, FS_CardinalityType
  <2>4. Len(<<>>) + Cardinality(V) <= MaxFailures - 1 + Cardinality(Requests)
    BY <2>3, LoginConstants
  <2>5. Bounded(k)'
    BY <1>4, <2>2, <2>4 DEF Bounded
  <2> QED BY <2>1, <2>5
<1> QED BY <1>3, <1>6, <1>7, <1>8, <1>9 DEF LoginsInv

LEMMA TickStep == ASSUME LoginsInv, Logins!Tick PROVE LoginsInv'
<1>1. PICK c \in Nat : c = clock + 1
  BY DEF LoginsInv, LoginsType
<1>2. /\ clock' = c /\ UNCHANGED <<failures, login, uncounted>> /\ clock \in Nat
      /\ guesses \in [Keys -> Seq(Nat)] /\ \A j \in Keys : guesses'[j] = Logins!Prune(guesses[j], c)
      /\ guesses' \in [Keys -> Seq(Nat)]
  <2>1. clock' = c /\ guesses' = [j \in Keys |-> Logins!Prune(guesses[j], c)]
    BY <1>1 DEF Logins!Tick
  <2>2. guesses \in [Keys -> Seq(Nat)] /\ clock \in Nat
    BY DEF LoginsInv, LoginsType
  <2>3. \A j \in Keys : Logins!Prune(guesses[j], c) \in Seq(Nat)
    BY <2>2, PruneType
  <2> QED BY <2>1, <2>2, <2>3 DEF Logins!Tick
<1>3. LoginsType'
  BY <1>2 DEF LoginsInv, LoginsType
<1>4. Timely'
  BY <1>1, <1>2, LoginIs DEF LoginsInv, Timely
<1>5. \A j : /\ Logins!Bucket(j)' = Logins!Bucket(j) /\ On(j, "record")' = On(j, "record")
             /\ On(j, "verify")' = On(j, "verify")
  BY <1>2 DEF Logins!Bucket, On
<1>6. ASSUME NEW j \in Keys
      PROVE  /\ Kept(guesses[j])'
             /\ j \notin uncounted => Counted(j)' /\ Bounded(j)'
  <2> DEFINE G == guesses[j]
             R == guesses'[j]
             B == Logins!Bucket(j)
             P == On(j, "record")
             L == login
             V == On(j, "verify")
  <2>1. /\ G \in Seq(Nat) /\ R = Logins!Prune(G, c) /\ Kept(G)
        /\ j \notin uncounted => Fits(G, B, P, L) /\ Bounded(j)
    BY <1>2 DEF LoginsInv, Counted
  <2>2. /\ \A i \in DOMAIN G : clock - Window < G[i] /\ G[i] <= clock
        /\ \A i, h \in DOMAIN G : i <= h => G[i] <= G[h]
    BY <2>1 DEF Kept
  <2>3. \/ R = <<>>
        \/ \E m \in 1..Len(G) : R = SubSeq(G, m, Len(G)) /\ G[m] > c - Window
    <3>1. G \in Seq(Nat) /\ c \in Int /\ R = Logins!Prune(G, c)
      BY <2>1
    <3> HIDE DEF G, R
    <3> QED BY <3>1, PruneIs
  <2>4. CASE R = <<>>
    <3>1. Kept(guesses[j])'
      BY <2>4 DEF Kept
    <3>2. Counted(j)'
      BY <2>4, FitsEmpty DEF Counted
    <3>3. j \notin uncounted => Bounded(j)'
      <4>1. Len(G) \in Nat /\ Len(<<>>) = 0 /\ Cardinality(V) \in Nat /\ Cardinality(Requests) \in Nat
        BY <2>1, OnFinite
      <4>2. j \notin uncounted => Len(G) + Cardinality(V) <= MaxFailures - 1 + Cardinality(Requests)
        BY <2>1 DEF Bounded
      <4>3. j \notin uncounted => Len(<<>>) + Cardinality(V) <= MaxFailures - 1 + Cardinality(Requests)
        <5> HIDE DEF G, V
        <5> QED BY <4>1, <4>2, LoginConstants
      <4> QED BY <1>5, <2>4, <4>3 DEF Bounded
    <3> QED BY <3>1, <3>2, <3>3
  <2>5. ASSUME NEW m \in 1..Len(G), R = SubSeq(G, m, Len(G)), G[m] > c - Window
        PROVE  /\ Kept(guesses[j])'
               /\ j \notin uncounted => Counted(j)' /\ Bounded(j)'
    <3>1. /\ R \in Seq(Nat) /\ Len(R) = Len(G) - m + 1
          /\ \A i \in 1..(Len(G) - m + 1) : R[i] = G[i + m - 1]
      BY <2>1, <2>5, SubSeqIs
    <3>2. /\ Len(G) \in Nat /\ m \in Nat /\ 1 <= m /\ m <= Len(G)
          /\ DOMAIN G = 1..Len(G) /\ DOMAIN R = 1..Len(R) /\ Len(R) \in Nat
          /\ \A i \in DOMAIN G : G[i] \in Nat
      <4> G \in Seq(Nat) /\ R \in Seq(Nat)
        BY <2>1, <3>1
      <4> HIDE DEF G, R
      <4> QED OBVIOUS
    <3>3. Kept(guesses[j])'
      <4>1. \A i \in DOMAIN R : i + m - 1 \in DOMAIN G /\ m <= i + m - 1 /\ R[i] = G[i + m - 1]
        <5> SUFFICES ASSUME NEW i \in DOMAIN R
                     PROVE  i + m - 1 \in DOMAIN G /\ m <= i + m - 1 /\ R[i] = G[i + m - 1]
          OBVIOUS
        <5> HIDE DEF G, R
        <5>1. i \in Nat /\ 1 <= i /\ i <= Len(G) - m + 1
          BY <3>1, <3>2
        <5>2. i + m - 1 \in 1..Len(G) /\ m <= i + m - 1
          BY <3>2, <5>1
        <5>3. i \in 1..(Len(G) - m + 1)
          BY <3>2, <5>1
        <5> QED BY <3>1, <3>2, <5>2, <5>3
      <4>2. \A i \in DOMAIN R : c - Window < R[i] /\ R[i] <= c
        <5>1. m \in DOMAIN G
          BY <3>2
        <5> SUFFICES ASSUME NEW i \in DOMAIN R PROVE c - Window < R[i] /\ R[i] <= c
          OBVIOUS
        <5>2. c - Window < G[m] /\ G[m] \in Nat
          BY <2>5, <3>2, <5>1, LoginConstants
        <5> HIDE DEF G, R
        <5>3. PICK q \in DOMAIN G : m <= q /\ R[i] = G[q]
          BY <4>1
        <5>4. G[m] <= G[q] /\ G[q] <= clock /\ G[q] \in Nat
          BY <2>2, <3>2, <5>1, <5>3
        <5> QED BY <1>1, <1>2, <5>2, <5>3, <5>4, LoginConstants
      <4>3. \A i, h \in DOMAIN R : i <= h => R[i] <= R[h]
        <5> HIDE DEF G, R
        <5> QED BY <2>2, <3>2, <4>1
      <4> QED BY <1>2, <4>2, <4>3 DEF Kept
    <3>4. j \notin uncounted => Counted(j)'
      <4>1. j \notin uncounted => Fits(R, B, P, L)
        <5> HIDE DEF G, B, P, L, R
        <5> QED BY <2>1, <2>5, FitsLater
      <4> QED BY <1>2, <1>5, <4>1 DEF Counted
    <3>5. j \notin uncounted => Bounded(j)'
      <4>1. Cardinality(V) \in Nat /\ Cardinality(Requests) \in Nat
        BY OnFinite
      <4>2. j \notin uncounted => Len(G) + Cardinality(V) <= MaxFailures - 1 + Cardinality(Requests)
        BY <2>1 DEF Bounded
      <4>3. j \notin uncounted => Len(R) + Cardinality(V) <= MaxFailures - 1 + Cardinality(Requests)
        <5> HIDE DEF G, V, R
        <5> QED BY <3>1, <3>2, <4>1, <4>2, LoginConstants
      <4> QED BY <1>5, <4>3 DEF Bounded
    <3> QED BY <3>3, <3>4, <3>5
  <2> QED BY <2>3, <2>4, <2>5
<1>7. uncounted' = uncounted
  BY <1>2
<1> QED BY <1>3, <1>4, <1>6, <1>7 DEF LoginsInv

LEMMA LoginsStep == ASSUME LoginsInv, Logins!Next PROVE LoginsInv'
<1>1. ASSUME NEW t \in Requests, NEW k \in Keys, Logins!Arrive(t, k) PROVE LoginsInv'
  BY <1>1, ArriveStep
<1>2. ASSUME NEW t \in Requests,
             \/ Logins!Check(t) \/ Logins!Verify(t) \/ Logins!RecordFailure(t) \/ Logins!Reset(t)
      PROVE  LoginsInv'
  BY <1>2, CheckStep, VerifyStep, RecordStep, ResetStep
<1> QED BY <1>1, <1>2, TickStep DEF Logins!Next

LEMMA LoginsRest == ASSUME LoginsInv, UNCHANGED logins PROVE LoginsInv'
<1>1. UNCHANGED <<failures, clock, login, guesses, uncounted>>
  BY DEF logins, Logins!loginVars
<1>2. LoginsType' /\ Timely' /\ \A k \in Keys : Kept(guesses[k])'
  BY <1>1 DEF LoginsInv, LoginsType, Timely, Kept
<1>3. ASSUME NEW k \in Keys \ uncounted PROVE Counted(k)' /\ Bounded(k)'
  BY <1>1, <1>3 DEF LoginsInv, Counted, Bounded, On, Logins!Bucket
<1> QED BY <1>1, <1>2, <1>3 DEF LoginsInv

LEMMA BoundFollows == ASSUME LoginsInv PROVE GuessesBounded
<1> SUFFICES ASSUME NEW k \in Keys \ uncounted
             PROVE  Len(guesses[k]) <= MaxFailures + Cardinality(Requests) - 1
  BY LoginCardinality DEF GuessesBounded, Logins!GuessesBounded
<1> DEFINE G == guesses[k]
           V == On(k, "verify")
<1>1. Len(G) + Cardinality(V) <= MaxFailures - 1 + Cardinality(Requests)
  BY DEF LoginsInv, Bounded
<1>2. Len(G) \in Nat
  BY DEF LoginsInv, LoginsType
<1>3. Cardinality(V) \in Nat /\ Cardinality(Requests) \in Nat
  BY OnFinite
<1> HIDE DEF G, V
<1>4. Len(G) <= MaxFailures + Cardinality(Requests) - 1
  BY <1>1, <1>2, <1>3, LoginConstants
<1> QED BY <1>4 DEF G

\* Log-ins that meet verify at most MaxFailures wrong passwords of a key within
\* a window, and one for each thread but the last (login of app/main.py,
\* SlidingWindowLimiter of app/rate_limit.py).
THEOREM Guesses == Spec => []GuessesBounded
<1>1. MCInit => LoginsInv
  BY LoginsInit DEF MCInit
<1>2. LoginsInv /\ [MCNext]_vars => LoginsInv'
  BY StepOf, LoginsStep, LoginsRest
<1>3. LoginsInv => GuessesBounded
  BY BoundFollows
<1> QED BY <1>1, <1>2, <1>3, PTL DEF Spec

-----------------------------------------------------------------------------
(* ContactEnrichment: what a run brings, and the link it leaves.  The       *)
(* contacts keep the invariant of ContactsProofs.                           *)

CP == INSTANCE ContactsProofs WITH call <- inside

Links == {"none", "user", "scraped", "gone"}

Enrichment == [pc : Enrich!Working \cup Enrich!Ended \cup {"idle"},
               job : BOOLEAN, auto : BOOLEAN, blank : BOOLEAN, base : Links,
               shunned : SUBSET Emails, known : SUBSET Emails, targets : SUBSET ASNs,
               found : SUBSET Emails, leads : SUBSET Emails]

EnrichType == /\ run \in [Runs -> Enrichment] /\ link \in Links /\ own \in BOOLEAN
              /\ steady \in [Runs -> SUBSET Emails] /\ warned \in [Runs -> SUBSET Emails]

\* What a run has to leave alone it has read, once it has read at all.
Heeds(r, d) ==
    /\ d.pc \in Enrich!Working \ {"anchor", "prefs"} => warned[r] \subseteq d.shunned
    /\ d.pc \in Enrich!Working \ {"anchor", "prefs", "known"} => steady[r] \subseteq d.known

\* The leads are none of it.
Apart(r, d) ==
    /\ d.pc \notin {"import", "importing"} \cup Enrich!Ended => d.leads = {}
    /\ d.leads \cap (steady[r] \cup warned[r]) = {}

\* How far the leads have come.
Arrives(r, d) ==
    /\ d.pc = "importing" => d.auto /\ CP!Arriving(r, d.leads)
    /\ d.pc = "done" /\ d.auto => d.leads \subseteq CP!Sure

RunInv(r) == /\ steady[r] \subseteq Enrich!Held /\ warned[r] \subseteq spurned
             /\ Heeds(r, run[r]) /\ Apart(r, run[r]) /\ Arrives(r, run[r])

\* No patch is under way that has read the row before the user gave his link.
LinkInv == own => link \in {"user", "gone"} /\ \A r \in Runs : run[r].pc # "patch"

EnrichInv == CP!ContactsInv /\ EnrichType /\ (\A r \in Runs : RunInv(r)) /\ LinkInv

-----------------------------------------------------------------------------
LEMMA SameFinite == \A S : CP!IsFiniteSet(S) <=> IsFiniteSet(S)
BY DEF CP!IsFiniteSet, IsFiniteSet

LEMMA SameContacts ==
  /\ Enrich!Workers = CP!Workers
  /\ \A w : Enrich!Work(w) <=> CP!Work(w)
  /\ \A u : Enrich!Ask(u) <=> CP!Ask(u)
  /\ Enrich!ContactsInit <=> CP!ContactsInit
  /\ \A w, c : Enrich!Set(w, c) <=> CP!Set(w, c)
  /\ \A S : Enrich!Orders(S) = CP!Orders(S)
  /\ \A rows_, lead, ids : Enrich!Import(rows_, lead, ids) = CP!Import(rows_, lead, ids)
  /\ \A s : Enrich!Elems(s) = CP!Elems(s)
  /\ \A ok : Enrich!Returned(ok) = CP!Returned(ok)
<1>1. /\ Enrich!Workers = CP!Workers
      /\ \A w, c : Enrich!Set(w, c) <=> CP!Set(w, c)
      /\ \A s : Enrich!Elems(s) = CP!Elems(s)
      /\ \A ok : Enrich!Returned(ok) = CP!Returned(ok)
  BY DEF Enrich!Workers, CP!Workers, Enrich!Set, CP!Set, Enrich!Elems, CP!Elems,
         Enrich!Returned, CP!Returned
<1>2. \A rows_, lead, ids : Enrich!Import(rows_, lead, ids) = CP!Import(rows_, lead, ids)
  BY <1>1 DEF Enrich!Import, CP!Import
<1>3. \A S : Enrich!Orders(S) = CP!Orders(S)
  BY <1>1 DEF Enrich!Orders, CP!Orders, Enrich!Cardinality, CP!Cardinality
<1>4. /\ \A c : Enrich!After(c) = CP!After(c)
      /\ \A c : Enrich!Failed(c) = CP!Failed(c)
      /\ \A e : Enrich!Allowed(e) <=> CP!Allowed(e)
      /\ \A w : Enrich!Blockers(w) = CP!Blockers(w)
      /\ \A reviews_, ids : Enrich!Approve(reviews_, ids) = CP!Approve(reviews_, ids)
      /\ \A e, w : Enrich!Pending(e, w) <=> CP!Pending(e, w)
      /\ \A base, lesson : Enrich!Learned(base, lesson) = CP!Learned(base, lesson)
      /\ Enrich!Request <=> CP!Request
      /\ \A u : Enrich!Idle(u) <=> CP!Idle(u)
  BY <1>1 DEF Enrich!After, CP!After, Enrich!Failed, CP!Failed, Enrich!Allowed, CP!Allowed,
     Enrich!Blockers, CP!Blockers, Enrich!Approve, CP!Approve, Enrich!Pending, CP!Pending,
     Enrich!Learned, CP!Learned, Enrich!AppendUnique, CP!AppendUnique,
     Enrich!Request, CP!Request, Enrich!Idle, CP!Idle
<1>5. \A w : Enrich!Work(w) <=> CP!Work(w)
  <2> SUFFICES ASSUME NEW w PROVE Enrich!Work(w) <=> CP!Work(w)
    OBVIOUS
  <2>1. Enrich!Look(w) <=> CP!Look(w)
    BY <1>1, <1>4 DEF Enrich!Look, CP!Look
  <2>2. Enrich!Write(w) <=> CP!Write(w)
    BY <1>1, <1>4 DEF Enrich!Write, CP!Write
  <2>3. Enrich!Deadlock(w) <=> CP!Deadlock(w)
    BY <1>1, <1>4 DEF Enrich!Deadlock, CP!Deadlock
  <2>4. Enrich!Commit(w) <=> CP!Commit(w)
    BY <1>1, <1>4 DEF Enrich!Commit, CP!Commit
  <2>5. Enrich!Mark(w) <=> CP!Mark(w)
    BY <1>1, <1>4 DEF Enrich!Mark, CP!Mark
  <2>6. Enrich!Find(w) <=> CP!Find(w)
    BY <1>1, <1>4 DEF Enrich!Find, CP!Find
  <2>7. Enrich!Keep(w) <=> CP!Keep(w)
    BY <1>1, <1>4 DEF Enrich!Keep, CP!Keep
  <2>8. Enrich!Learn(w) <=> CP!Learn(w)
    BY <1>1, <1>4 DEF Enrich!Learn, CP!Learn
  <2>9. Enrich!Teach(w) <=> CP!Teach(w)
    BY <1>1, <1>4 DEF Enrich!Teach, CP!Teach
  <2> QED BY <2>1, <2>2, <2>3, <2>4, <2>5, <2>6, <2>7, <2>8, <2>9 DEF Enrich!Work, CP!Work
<1>6. \A u : Enrich!Ask(u) <=> CP!Ask(u)
  <2> SUFFICES ASSUME NEW u PROVE Enrich!Ask(u) <=> CP!Ask(u)
    OBVIOUS
  <2>1. Enrich!ImportRows(u) <=> CP!ImportRows(u)
    BY <1>1, <1>2, <1>3, <1>4 DEF Enrich!ImportRows, CP!ImportRows
  <2>2. Enrich!ImportReviews(u) <=> CP!ImportReviews(u)
    BY <1>1, <1>2, <1>3, <1>4 DEF Enrich!ImportReviews, CP!ImportReviews
  <2>3. Enrich!Patch(u) <=> CP!Patch(u)
    BY <1>1, <1>4 DEF Enrich!Patch, CP!Patch, Enrich!Statuses, CP!Statuses
  <2>4. Enrich!Reject(u) <=> CP!Reject(u)
    BY <1>1, <1>4 DEF Enrich!Reject, CP!Reject
  <2>5. Enrich!Reset(u) <=> CP!Reset(u)
    BY <1>1, <1>4 DEF Enrich!Reset, CP!Reset
  <2> QED BY <2>1, <2>2, <2>3, <2>4, <2>5 DEF Enrich!Ask, CP!Ask
<1>7. Enrich!ContactsInit <=> CP!ContactsInit
  BY <1>1 DEF Enrich!ContactsInit, CP!ContactsInit
<1> QED BY <1>1, <1>2, <1>3, <1>5, <1>6, <1>7

\* A statement of a thread.
LEMMA EnrichWork ==
  ASSUME CP!ContactsInv, NEW w \in Enrich!Workers, Enrich!Work(w)
  PROVE  /\ CP!ContactsInv' /\ CP!Grows
         /\ \A leads : CP!Arriving(w, leads) => CP!Arriving(w, leads)'
         /\ \A v \in Enrich!Workers \ {w} : inside'[v] = inside[v]
<1>1. w \in CP!Workers /\ CP!Work(w)
  BY SameContacts
<1>2. CP!ContactsInv' /\ CP!Grows
  BY <1>1, CP!ContactsWork, SameFinite, EnrichConstants
<1>3. \A v \in CP!Workers \ {w} : inside'[v] = inside[v]
  <2>1. CP!CallsInv
    BY DEF CP!ContactsInv
  <2> QED BY <1>1, <2>1, CP!OthersStay, SameFinite, EnrichConstants
<1>4. ASSUME NEW leads, CP!Arriving(w, leads) PROVE CP!Arriving(w, leads)'
  BY <1>1, <1>2, <1>4, CP!ArrivingWork, SameFinite, EnrichConstants
<1>5. Enrich!Workers = CP!Workers
  BY SameContacts
<1> QED BY <1>2, <1>3, <1>4, <1>5

\* A request of the user.
LEMMA EnrichAsk ==
  ASSUME CP!ContactsInv, NEW u \in Users, Enrich!Ask(u)
  PROVE  /\ CP!ContactsInv' /\ CP!Grows
         /\ \A v \in Enrich!Workers \ {u} : inside'[v] = inside[v]
<1>1. CP!Ask(u) /\ u \in CP!Workers
  BY SameContacts DEF CP!Workers
<1>2. CP!ContactsInv' /\ CP!Grows
  BY <1>1, CP!ContactsAsk, SameFinite, EnrichConstants
<1>3. \A v \in CP!Workers \ {u} : inside'[v] = inside[v]
  <2>1. CP!CallsInv
    BY DEF CP!ContactsInv
  <2> QED BY <1>1, <2>1, CP!OthersStay, SameFinite, EnrichConstants
<1> QED BY <1>2, <1>3, SameContacts

\* A run's import: how far the leads have come, while nothing changes it.
LEMMA EnrichKept ==
  ASSUME CP!ContactsInv, CP!Grows, NEW w, NEW leads, inside'[w] = inside[w], CP!Arriving(w, leads)
  PROVE  CP!Arriving(w, leads)'
<1>1. CP!RowsOK
  BY DEF CP!ContactsInv, CP!RowsInv
<1> QED BY <1>1, CP!ArrivingKept, SameFinite, EnrichConstants

\* What is sure stays sure.
LEMMA EnrichSure == ASSUME CP!ContactsInv, CP!Grows PROVE CP!Sure \subseteq CP!Sure'
<1>1. CP!RowsOK
  BY DEF CP!ContactsInv, CP!RowsInv
<1> QED BY <1>1, CP!DomainGrows, SameFinite, EnrichConstants

LEMMA EnrichStarts ==
  ASSUME CP!ContactsInv, NEW w \in Enrich!Workers, NEW leads \in SUBSET Emails,
         NEW rows_ \in Enrich!Orders(leads), Enrich!Set(w, Enrich!Import(rows_, TRUE, {})),
         UNCHANGED <<blocked, contacts, reviews, avoid, requests, ever, byHand, spurned>>
  PROVE  CP!ContactsInv' /\ CP!Grows /\ CP!Arriving(w, leads)'
<1>1. w \in CP!Workers /\ rows_ \in CP!Orders(leads) /\ CP!Set(w, CP!Import(rows_, TRUE, {}))
  BY SameContacts
<1>2. CP!Still /\ requests' \in 0..MaxRequests
  BY DEF CP!Still, CP!ContactsInv, CP!RowsInv, CP!RowsOK
<1> QED BY <1>1, <1>2, CP!ArrivingStarts, SameFinite, EnrichConstants

LEMMA EnrichStill ==
  ASSUME CP!ContactsInv, requests' \in 0..MaxRequests,
         UNCHANGED <<blocked, contacts, reviews, avoid, inside, ever, byHand, spurned>>
  PROVE  CP!ContactsInv' /\ CP!Grows
<1>1. CP!Still /\ CP!RowsInv /\ CP!RowsOK /\ CP!CallsInv
  BY DEF CP!Still, CP!ContactsInv, CP!RowsInv
<1>2. CP!RowsInv' /\ CP!Grows
  BY <1>1, CP!StillRows, CP!StillGrows, SameFinite, EnrichConstants
<1> QED BY <1>1, <1>2, CP!NoCall, SameFinite, EnrichConstants DEF CP!ContactsInv

LEMMA EnrichLost ==
  ASSUME CP!ContactsInv,
         UNCHANGED <<blocked, contacts, reviews, avoid, requests, ever, byHand, spurned>>,
         inside' = [w \in Enrich!Workers |-> Enrich!Returned(FALSE)]
  PROVE  CP!ContactsInv' /\ CP!Grows
<1>1. inside' = [w \in CP!Workers |-> CP!Returned(FALSE)]
  BY SameContacts
<1>2. CP!Still /\ requests' \in 0..MaxRequests
  BY DEF CP!Still, CP!ContactsInv, CP!RowsInv, CP!RowsOK
<1> QED BY <1>1, <1>2, CP!CallsLost, SameFinite, EnrichConstants

LEMMA EnrichBegins == ASSUME Enrich!ContactsInit PROVE CP!ContactsInv
BY SameContacts, CP!ContactsStart, SameFinite, EnrichConstants

-----------------------------------------------------------------------------
EnrichRest == UNCHANGED <<blocked, contacts, reviews, avoid, inside, requests, ever, byHand, spurned,
                          own, steady, warned>>

RunFaces == Enrich!Working \cup Enrich!Ended \cup {"idle"}

\* A run that does nothing while the rows gain.
LEMMA RunKept ==
  ASSUME EnrichInv, CP!Grows, NEW q \in Runs, run'[q] = run[q],
         \A leads : CP!Arriving(q, leads) => CP!Arriving(q, leads)',
         steady'[q] \subseteq steady[q], warned'[q] \subseteq warned[q],
         steady'[q] \subseteq Enrich!Held', warned'[q] \subseteq spurned'
  PROVE  RunInv(q)'
<1>1. RunInv(q) /\ CP!Sure \subseteq CP!Sure'
  BY EnrichSure DEF EnrichInv
<1>2. PICK leads : leads = run[q].leads
  OBVIOUS
<1>3. Heeds(q, run[q])' /\ Apart(q, run[q])'
  BY <1>1 DEF RunInv, Heeds, Apart
<1>4. Arrives(q, run[q])'
  BY <1>1, <1>2 DEF RunInv, Arrives
<1> QED BY <1>3, <1>4 DEF RunInv

\* A step of one run that leaves all else alone.
LEMMA EnrichOne ==
  ASSUME EnrichInv, EnrichRest, link' \in Links, own => link' = link,
         NEW r \in Runs, NEW next \in Enrichment, run' = [run EXCEPT ![r] = next],
         Heeds(r, next), Apart(r, next), Arrives(r, next), own => next.pc # "patch"
  PROVE  EnrichInv'
<1>1. CP!ContactsInv' /\ CP!Grows
  <2>1. requests' \in 0..MaxRequests
    BY DEF EnrichRest, EnrichInv, CP!ContactsInv, CP!RowsInv, CP!RowsOK
  <2> QED BY <2>1, EnrichStill DEF EnrichInv, EnrichRest
<1>2. /\ run' \in [Runs -> Enrichment] /\ run'[r] = next /\ \A q \in Runs \ {r} : run'[q] = run[q]
  BY DEF EnrichInv, EnrichType
<1>3. EnrichType'
  BY <1>2 DEF EnrichInv, EnrichType, EnrichRest
<1>4. LinkInv'
  BY <1>2 DEF EnrichInv, LinkInv, EnrichRest
<1>5. ASSUME NEW q, NEW leads, CP!Arriving(q, leads) PROVE CP!Arriving(q, leads)'
  BY <1>1, <1>5, EnrichKept DEF EnrichInv, EnrichRest
<1>6. Enrich!Held' = Enrich!Held
  BY DEF Enrich!Held, EnrichRest
<1>7. ASSUME NEW q \in Runs \ {r} PROVE RunInv(q)'
  BY <1>1, <1>2, <1>5, <1>6, RunKept DEF EnrichRest, EnrichInv, RunInv
<1>8. RunInv(r)'
  <2>1. CP!Sure \subseteq CP!Sure'
    BY <1>1, EnrichSure DEF EnrichInv
  <2>2. Heeds(r, run[r])' /\ Apart(r, run[r])'
    BY <1>2 DEF Heeds, Apart, EnrichRest
  <2>3. Arrives(r, run[r])'
    BY <1>2, <1>5, <2>1 DEF Arrives
  <2> QED BY <1>6, <2>2, <2>3 DEF RunInv, EnrichInv, EnrichRest
<1> QED BY <1>1, <1>3, <1>4, <1>7, <1>8 DEF EnrichInv

LEMMA EnrichFields ==
  ASSUME EnrichInv, NEW r \in Runs
  PROVE  /\ run[r] \in Enrichment /\ RunInv(r) /\ run \in [Runs -> Enrichment]
         /\ run[r].leads \in SUBSET Emails /\ run[r].auto \in BOOLEAN
BY DEF EnrichInv, EnrichType, Enrichment

LEMMA BecomeIs ==
  ASSUME EnrichInv, NEW r \in Runs, NEW pc \in RunFaces, Enrich!Become(r, pc)
  PROVE  \E next \in Enrichment :
            /\ run' = [run EXCEPT ![r] = next] /\ next.pc = pc
            /\ next.shunned = run[r].shunned /\ next.known = run[r].known /\ next.leads = run[r].leads
            /\ next.found = run[r].found /\ next.auto = run[r].auto
<1> DEFINE next == [run[r] EXCEPT !.pc = pc]
<1>1. run[r] \in Enrichment
  BY EnrichFields
<1>2. next \in Enrichment
  BY <1>1 DEF Enrichment, RunFaces
<1>3. run' = [run EXCEPT ![r] = next]
  BY DEF Enrich!Become
<1>4. /\ next.pc = pc
      /\ next.shunned = run[r].shunned /\ next.known = run[r].known /\ next.leads = run[r].leads
      /\ next.found = run[r].found /\ next.auto = run[r].auto
  BY <1>1 DEF Enrichment
<1> HIDE DEF next
<1> QED BY <1>2, <1>3, <1>4

\* A run that goes on with what it has, or ends.
LEMMA WalkStep ==
  ASSUME EnrichInv, EnrichRest, link' = link, NEW r \in Runs, NEW pc \in RunFaces \ {"idle", "importing", "patch"},
         Enrich!Become(r, pc),
         \/ pc \in {"failed", "cancelled"}
         \/ /\ run[r].pc \in Enrich!Working \ {"anchor", "prefs", "known"}
            /\ pc \in Enrich!Working \ {"anchor", "prefs", "known", "import", "importing"}
            /\ run[r].leads = {}
         \/ pc = "done" /\ (run[r].auto => run[r].leads \subseteq CP!Sure)
  PROVE  EnrichInv'
<1>1. PICK next \in Enrichment :
         /\ run' = [run EXCEPT ![r] = next] /\ next.pc = pc
         /\ next.shunned = run[r].shunned /\ next.known = run[r].known /\ next.leads = run[r].leads
         /\ next.found = run[r].found /\ next.auto = run[r].auto
  BY BecomeIs
<1>2. Heeds(r, run[r]) /\ Apart(r, run[r])
  BY EnrichFields DEF RunInv
<1>3. Heeds(r, next)
  BY <1>1, <1>2 DEF Heeds, Enrich!Working
<1>4. Apart(r, next)
  BY <1>1, <1>2 DEF Apart, Enrich!Ended
<1>5. Arrives(r, next)
  BY <1>1 DEF Arrives
<1>6. link' \in Links /\ (own => link' = link)
  BY DEF EnrichInv, EnrichType
<1> QED BY <1>1, <1>3, <1>4, <1>5, <1>6, EnrichOne

LEMMA LocalIs ==
  ASSUME EnrichInv, UNCHANGED <<Enrich!contactVars, link, own, steady, warned>>
  PROVE  EnrichRest /\ link' = link /\ link' \in Links /\ (own => link' = link)
BY DEF EnrichInv, EnrichType, EnrichRest, Enrich!contactVars

\* The preferences the run reads hold all that was rejected before it began.
LEMMA WarnedIsRead == ASSUME EnrichInv, NEW r \in Runs PROVE warned[r] \subseteq Enrich!Elems(avoid)
<1>1. warned[r] \subseteq spurned /\ spurned \subseteq CP!Elems(avoid)
  BY DEF EnrichInv, RunInv, CP!ContactsInv, CP!RowsInv, CP!RejectionKept
<1> QED BY <1>1, SameContacts

LEMMA AvoidType == ASSUME EnrichInv PROVE Enrich!Elems(avoid) \subseteq Emails
<1>1. avoid \in Seq(Emails)
  BY DEF EnrichInv, CP!ContactsInv, CP!RowsInv, CP!RowsOK
<1> QED BY <1>1 DEF Enrich!Elems

LEMMA FreshType ==
  /\ Enrich!Fresh \in Enrichment /\ Enrich!Fresh.leads = {}
  /\ \A pc \in RunFaces, job \in BOOLEAN, auto_ \in BOOLEAN :
        LET d == [Enrich!Fresh EXCEPT !.pc = pc, !.job = job, !.auto = auto_]
        IN  d \in Enrichment /\ d.pc = pc /\ d.leads = {}
BY DEF Enrich!Fresh, Enrichment, Links, RunFaces

LEMMA StartRunStep == ASSUME EnrichInv, NEW r \in Runs, Enrich!Start(r) PROVE EnrichInv'
<1>1. /\ run[r].pc = "idle" /\ UNCHANGED <<Enrich!contactVars, link, own>>
      /\ steady' = [steady EXCEPT ![r] = Enrich!Held] /\ warned' = [warned EXCEPT ![r] = spurned]
  BY DEF Enrich!Start, Enrich!At
<1>2. PICK next \in Enrichment :
         run' = [run EXCEPT ![r] = next] /\ next.pc = "anchor" /\ next.leads = {}
  <2>1. PICK job \in BOOLEAN, auto_ \in BOOLEAN :
          run' = [run EXCEPT ![r] =
                     [Enrich!Fresh EXCEPT !.pc = "anchor", !.job = job, !.auto = auto_]]
    BY DEF Enrich!Start
  <2>2. "anchor" \in RunFaces
    BY DEF RunFaces, Enrich!Working
  <2> QED BY <2>1, <2>2, FreshType
<1>3. /\ run' \in [Runs -> Enrichment] /\ run'[r] = next
      /\ \A q \in Runs \ {r} : run'[q] = run[q]
  BY <1>2, EnrichFields
<1>4. CP!ContactsInv' /\ CP!Grows
  <2>1. UNCHANGED <<blocked, contacts, reviews, avoid, inside, ever, byHand, spurned>> /\ requests' = requests
    BY <1>1 DEF Enrich!contactVars
  <2>2. requests' \in 0..MaxRequests
    BY <2>1 DEF EnrichInv, CP!ContactsInv, CP!RowsInv, CP!RowsOK
  <2> QED BY <2>1, <2>2, EnrichStill DEF EnrichInv
<1>5. /\ Enrich!Held' = Enrich!Held /\ Enrich!Held \subseteq Emails /\ spurned \subseteq Emails
      /\ UNCHANGED <<spurned, inside>>
  BY <1>1 DEF Enrich!Held, Enrich!contactVars, EnrichInv, CP!ContactsInv, CP!RowsInv, CP!RowsOK
<1>6. /\ steady' \in [Runs -> SUBSET Emails] /\ warned' \in [Runs -> SUBSET Emails]
      /\ steady'[r] = Enrich!Held /\ warned'[r] = spurned
      /\ \A q \in Runs \ {r} : steady'[q] = steady[q] /\ warned'[q] = warned[q]
  BY <1>1, <1>5 DEF EnrichInv, EnrichType
<1>7. EnrichType' /\ LinkInv'
  BY <1>1, <1>2, <1>3, <1>6 DEF EnrichInv, EnrichType, LinkInv
<1>8. ASSUME NEW q \in Runs \ {r} PROVE RunInv(q)'
  <2>1. RunInv(q) /\ \A leads : CP!Arriving(q, leads) => CP!Arriving(q, leads)'
    BY <1>4, <1>5, EnrichKept DEF EnrichInv
  <2> QED BY <1>3, <1>4, <1>5, <1>6, <2>1, RunKept DEF RunInv
<1>9. RunInv(r)'
  BY <1>2, <1>3, <1>5, <1>6 DEF RunInv, Heeds, Apart, Arrives
<1> QED BY <1>4, <1>7, <1>8, <1>9 DEF EnrichInv

\* What a run reads before it looks for anyone.
LEMMA ReadSteps ==
  ASSUME EnrichInv, NEW r \in Runs,
         Enrich!ReadAnchor(r) \/ Enrich!ReadPrefs(r) \/ Enrich!ReadKnown(r)
  PROVE  EnrichInv'
<1>1. /\ EnrichRest /\ link' \in Links /\ (own => link' = link)
      /\ run[r] \in Enrichment /\ RunInv(r)
  BY LocalIs, EnrichFields DEF Enrich!ReadAnchor, Enrich!ReadPrefs, Enrich!ReadKnown, Enrich!Local
<1>2. ASSUME NEW next \in Enrichment, run' = [run EXCEPT ![r] = next],
             next.pc \in {"failed", "prefs", "known", "sources"}, next.leads = run[r].leads,
             run[r].pc \in {"anchor", "prefs", "known"}, Heeds(r, next)
      PROVE  EnrichInv'
  <2>1. run[r].leads = {}
    BY <1>1, <1>2 DEF RunInv, Apart, Enrich!Ended
  <2>2. Apart(r, next) /\ Arrives(r, next) /\ next.pc # "patch"
    BY <1>2, <2>1 DEF Apart, Arrives
  <2> QED BY <1>1, <1>2, <2>2, EnrichOne
<1>3. CASE Enrich!ReadAnchor(r)
  <2> DEFINE pc == IF link = "gone" THEN "failed" ELSE "prefs"
             next == [run[r] EXCEPT !.pc = pc, !.blank = (link = "none")]
  <2>1. run[r].pc = "anchor" /\ run' = [run EXCEPT ![r] = next]
    BY <1>3 DEF Enrich!ReadAnchor, Enrich!At
  <2>2. next \in Enrichment /\ next.pc \in {"failed", "prefs"} /\ next.leads = run[r].leads
    BY <1>1 DEF Enrichment, Enrich!Working, Enrich!Ended
  <2> HIDE DEF next
  <2>3. Heeds(r, next)
    BY <2>2 DEF Heeds, Enrich!Working
  <2> QED BY <1>2, <2>1, <2>2, <2>3
<1>4. CASE Enrich!ReadPrefs(r)
  <2> DEFINE next == [run[r] EXCEPT !.pc = "known", !.shunned = Enrich!Elems(avoid)]
  <2>1. run[r].pc = "prefs" /\ run' = [run EXCEPT ![r] = next]
    BY <1>4 DEF Enrich!ReadPrefs, Enrich!At
  <2>2. /\ next \in Enrichment /\ next.pc = "known" /\ next.leads = run[r].leads
        /\ next.shunned = Enrich!Elems(avoid)
    BY <1>1, AvoidType DEF Enrichment, Enrich!Working
  <2> HIDE DEF next
  <2>3. Heeds(r, next)
    BY <2>2, WarnedIsRead DEF Heeds
  <2> QED BY <1>2, <2>1, <2>2, <2>3
<1>5. CASE Enrich!ReadKnown(r)
  <2> DEFINE next == [run[r] EXCEPT !.pc = "sources", !.known = Enrich!Held]
  <2>1. run[r].pc = "known" /\ run' = [run EXCEPT ![r] = next]
    BY <1>5 DEF Enrich!ReadKnown, Enrich!At
  <2>2. Enrich!Held \subseteq Emails
    BY DEF Enrich!Held
  <2>3. /\ next \in Enrichment /\ next.pc = "sources" /\ next.leads = run[r].leads
        /\ next.known = Enrich!Held /\ next.shunned = run[r].shunned
    BY <1>1, <2>2 DEF Enrichment, Enrich!Working
  <2> HIDE DEF next
  <2>4. Heeds(r, next)
    BY <1>1, <2>1, <2>3 DEF RunInv, Heeds, Enrich!Working
  <2> QED BY <1>2, <2>1, <2>3, <2>4
<1> QED BY <1>3, <1>4, <1>5

\* Places of a run that looks for people: it has read all, and has no leads.
Looking == {"sources", "profiles", "social", "patch", "signals", "extract", "rdap", "score"}

LEMMA LookingStep ==
  ASSUME EnrichInv, EnrichRest, link' \in Links, own => link' = link, NEW r \in Runs,
         NEW next \in Enrichment, run' = [run EXCEPT ![r] = next],
         run[r].pc \in Looking, next.pc \in Looking, next.leads = run[r].leads,
         next.shunned = run[r].shunned, next.known = run[r].known, own => next.pc # "patch"
  PROVE  EnrichInv'
<1>1. Heeds(r, run[r]) /\ Apart(r, run[r])
  BY EnrichFields DEF RunInv
<1>2. run[r].leads = {}
  BY <1>1 DEF Apart, Looking, Enrich!Ended
<1>3. Heeds(r, next)
  BY <1>1 DEF Heeds, Looking, Enrich!Working
<1>4. Apart(r, next) /\ Arrives(r, next)
  BY <1>2 DEF Apart, Arrives, Looking
<1> QED BY <1>3, <1>4, EnrichOne

LEMMA LookSteps ==
  ASSUME EnrichInv, NEW r \in Runs,
         \/ Enrich!Sources(r) \/ Enrich!Profiles(r) \/ Enrich!ReadLink(r) \/ Enrich!WriteLink(r)
         \/ Enrich!Signals(r)
  PROVE  EnrichInv'
<1>1. run[r] \in Enrichment /\ link \in Links /\ (own => link \in {"user", "gone"})
  BY EnrichFields DEF EnrichInv, EnrichType, LinkInv
<1>2. ASSUME NEW pc \in Looking \ {"patch"}, Enrich!Become(r, pc), run[r].pc \in Looking,
             EnrichRest, link' \in Links, own => link' = link
      PROVE  EnrichInv'
  <2>1. pc \in RunFaces
    BY DEF Looking, RunFaces, Enrich!Working
  <2> QED BY <1>2, <2>1, BecomeIs, LookingStep
<1>3. CASE Enrich!Sources(r)
  BY <1>2, <1>3, LocalIs DEF Enrich!Sources, Enrich!Local, Enrich!At, Looking
<1>4. CASE Enrich!Profiles(r)
  BY <1>2, <1>4, LocalIs DEF Enrich!Profiles, Enrich!Local, Enrich!At, Looking
<1>5. CASE Enrich!ReadLink(r)
  <2> DEFINE pc == IF link = "gone" \/ Enrich!Merged(link) = link THEN "signals" ELSE "patch"
             next == [run[r] EXCEPT !.pc = pc, !.base = link]
  <2>1. /\ run[r].pc = "social" /\ run' = [run EXCEPT ![r] = next]
        /\ EnrichRest /\ link' \in Links /\ (own => link' = link)
    BY <1>5, LocalIs DEF Enrich!ReadLink, Enrich!At, Enrich!Local
  <2>2. /\ next \in Enrichment /\ next.pc = pc /\ next.leads = run[r].leads
        /\ next.shunned = run[r].shunned /\ next.known = run[r].known
    BY <1>1 DEF Enrichment, Enrich!Working
  <2>3. pc \in Looking /\ (own => pc # "patch")
    BY <1>1 DEF Looking, Enrich!Merged
  <2> HIDE DEF next, pc
  <2> QED BY <2>1, <2>2, <2>3, LookingStep DEF Looking
<1>6. CASE Enrich!WriteLink(r)
  <2>1. /\ run[r].pc = "patch" /\ Enrich!Become(r, "signals") /\ EnrichRest
        /\ link' = IF link = "gone" THEN link ELSE Enrich!Merged(run[r].base)
    BY <1>6 DEF Enrich!WriteLink, Enrich!At, Enrich!contactVars, EnrichRest
  <2>2. ~own
    BY <2>1 DEF EnrichInv, LinkInv
  <2>3. link' \in Links
    BY <1>1, <2>1 DEF Enrichment, Links, Enrich!Merged
  <2> QED BY <1>2, <2>1, <2>2, <2>3 DEF Looking
<1>7. CASE Enrich!Signals(r)
  <2>1. PICK targets \in SUBSET ASNs :
           run' = [run EXCEPT ![r].pc = "extract", ![r].targets = targets]
    BY <1>7 DEF Enrich!Signals
  <2> DEFINE next == [run[r] EXCEPT !.pc = "extract", !.targets = targets]
  <2>2. /\ run[r].pc = "signals" /\ EnrichRest /\ link' \in Links /\ (own => link' = link)
        /\ run' = [run EXCEPT ![r] = next]
    BY <1>7, <2>1, LocalIs DEF Enrich!Signals, Enrich!At, Enrich!Local
  <2>3. /\ next \in Enrichment /\ next.pc = "extract" /\ next.leads = run[r].leads
        /\ next.shunned = run[r].shunned /\ next.known = run[r].known
    BY <1>1 DEF Enrichment, Enrich!Working
  <2> HIDE DEF next
  <2> QED BY <2>2, <2>3, LookingStep DEF Looking
<1> QED BY <1>3, <1>4, <1>5, <1>6, <1>7

\* A run that has found something.
LEMMA FoundStep ==
  ASSUME EnrichInv, EnrichRest, link' = link, NEW r \in Runs, run[r].pc \in Looking,
         NEW pc \in Looking \ {"patch"}, NEW targets \in SUBSET ASNs, NEW found \in SUBSET Emails,
         run' = [run EXCEPT ![r] = [run[r] EXCEPT !.pc = pc, !.targets = targets, !.found = found]]
  PROVE  EnrichInv'
<1> DEFINE next == [run[r] EXCEPT !.pc = pc, !.targets = targets, !.found = found]
<1>1. pc \in RunFaces
  BY DEF Looking, RunFaces, Enrich!Working
<1>2. /\ next \in Enrichment /\ next.pc = pc /\ next.leads = run[r].leads
      /\ next.shunned = run[r].shunned /\ next.known = run[r].known
  BY <1>1, EnrichFields DEF Enrichment, RunFaces
<1>3. run' = [run EXCEPT ![r] = next] /\ link' \in Links /\ (own => link' = link)
  BY DEF EnrichInv, EnrichType
<1> HIDE DEF next
<1> QED BY <1>2, <1>3, LookingStep

LEMMA FindSteps ==
  ASSUME EnrichInv, NEW r \in Runs, Enrich!Extract(r) \/ Enrich!Rdap(r)
  PROVE  EnrichInv'
<1>1. /\ run[r] \in Enrichment /\ run[r].targets \in SUBSET ASNs /\ run[r].found \in SUBSET Emails
      /\ EnrichRest /\ link' = link
  BY EnrichFields, LocalIs DEF Enrich!Extract, Enrich!Rdap, Enrich!Local, Enrichment
<1>2. \A S \in SUBSET Emails : Enrich!New(r, S) \in SUBSET Emails
  BY DEF Enrich!New
<1>3. CASE Enrich!Extract(r)
  <2>1. /\ run[r].pc = "extract"
        /\ \E web \in SUBSET Emails :
              run' = [run EXCEPT ![r].pc = "rdap", ![r].found = Enrich!Wanted(r, web)]
    BY <1>3 DEF Enrich!Extract, Enrich!At
  <2>w. PICK web \in SUBSET Emails :
              run' = [run EXCEPT ![r].pc = "rdap", ![r].found = Enrich!Wanted(r, web)]
    BY <2>1
  <2>2. PICK found \in SUBSET Emails : found = Enrich!Wanted(r, web)
    BY <1>2 DEF Enrich!Wanted
  <2>3. run' = [run EXCEPT ![r] = [run[r] EXCEPT !.pc = "rdap", !.found = found]]
    BY <2>w, <2>2
  <2>t. PICK targets \in SUBSET ASNs : targets = run[r].targets
    BY <1>1
  <2>4. [run[r] EXCEPT !.pc = "rdap", !.found = found]
           = [run[r] EXCEPT !.pc = "rdap", !.targets = targets, !.found = found]
    BY <1>1, <2>t DEF Enrichment
  <2>5. run' = [run EXCEPT ![r] = [run[r] EXCEPT !.pc = "rdap", !.targets = targets, !.found = found]]
    BY <2>3, <2>4
  <2>6. "rdap" \in Looking \ {"patch"} /\ run[r].pc \in Looking
    BY <2>1 DEF Looking
  <2> QED BY <1>1, <2>5, <2>6, FoundStep
<1>4. CASE Enrich!Rdap(r) /\ run[r].targets = {}
  <2>1. run[r].pc = "rdap" /\ run' = [run EXCEPT ![r] = [run[r] EXCEPT !.pc = "score"]]
    BY <1>4 DEF Enrich!Rdap, Enrich!At, Enrich!Become
  <2>t. PICK targets \in SUBSET ASNs, found \in SUBSET Emails :
          targets = run[r].targets /\ found = run[r].found
    BY <1>1
  <2>2. [run[r] EXCEPT !.pc = "score"]
           = [run[r] EXCEPT !.pc = "score", !.targets = targets, !.found = found]
    BY <1>1, <2>t DEF Enrichment
  <2>5. run' = [run EXCEPT ![r] = [run[r] EXCEPT !.pc = "score", !.targets = targets, !.found = found]]
    BY <2>1, <2>2
  <2>6. "score" \in Looking \ {"patch"} /\ run[r].pc \in Looking
    BY <2>1 DEF Looking
  <2> QED BY <1>1, <2>5, <2>6, FoundStep
<1>5. CASE Enrich!Rdap(r) /\ run[r].targets # {}
  <2>1. PICK asn : asn = CHOOSE a \in run[r].targets : TRUE
    OBVIOUS
  <2>2. asn \in ASNs /\ Registered[asn] \in SUBSET Emails
    BY <1>1, <1>5, <2>1, EnrichConstants
  <2>w. PICK rows_ \in {Registered[asn], {}} :
          run' = [run EXCEPT ![r].targets = @ \ {asn}, ![r].found = @ \cup Enrich!New(r, rows_)]
    BY <1>5, <2>1 DEF Enrich!Rdap
  <2>3. PICK found \in SUBSET Emails : found = run[r].found \cup Enrich!New(r, rows_)
    BY <1>1, <1>2, <2>2
  <2>4. PICK targets \in SUBSET ASNs : targets = run[r].targets \ {asn}
    BY <1>1
  <2>5. run' = [run EXCEPT ![r] = [run[r] EXCEPT !.targets = targets, !.found = found]]
    BY <2>w, <2>3, <2>4
  <2>6. run[r].pc = "rdap"
    BY <1>5 DEF Enrich!Rdap, Enrich!At
  <2>7. [run[r] EXCEPT !.targets = targets, !.found = found]
           = [run[r] EXCEPT !.pc = "rdap", !.targets = targets, !.found = found]
    BY <1>1, <2>6 DEF Enrichment
  <2> QED BY <1>1, <2>5, <2>6, <2>7, FoundStep DEF Looking
<1> QED BY <1>3, <1>4, <1>5

\* The candidates are neither known nor shunned.
LEMMA ScoreStep == ASSUME EnrichInv, NEW r \in Runs, Enrich!Score(r) PROVE EnrichInv'
<1>1. /\ run[r] \in Enrichment /\ run[r].pc = "score"
      /\ EnrichRest /\ link' = link /\ link' \in Links
  BY EnrichFields, LocalIs DEF Enrich!Score, Enrich!Local, Enrich!At
<1>2. Heeds(r, run[r]) /\ Apart(r, run[r])
  BY EnrichFields DEF RunInv
<1>3. run[r].leads = {}
  BY <1>1, <1>2 DEF Apart, Enrich!Ended
<1>4. CASE Enrich!Become(r, "done")
  <2>1. "done" \in RunFaces \ {"idle", "importing", "patch"}
    BY DEF RunFaces, Enrich!Ended
  <2> QED BY <1>1, <1>3, <1>4, <2>1, WalkStep
<1>5. ASSUME NEW leads \in SUBSET Enrich!Candidates(r),
             run' = [run EXCEPT ![r].pc = "import", ![r].leads = leads]
      PROVE  EnrichInv'
  <2> DEFINE next == [run[r] EXCEPT !.pc = "import", !.leads = leads]
  <2>1. /\ leads \subseteq Emails /\ leads \cap run[r].known = {} /\ leads \cap run[r].shunned = {}
    BY <1>1 DEF Enrich!Candidates, Enrich!New, Enrichment
  <2>2. run' = [run EXCEPT ![r] = next]
    BY <1>5
  <2>3. /\ next \in Enrichment /\ next.pc = "import" /\ next.leads = leads
        /\ next.shunned = run[r].shunned /\ next.known = run[r].known
    BY <1>1, <2>1 DEF Enrichment, Enrich!Working
  <2>4. warned[r] \subseteq run[r].shunned /\ steady[r] \subseteq run[r].known
    BY <1>1, <1>2 DEF Heeds, Enrich!Working
  <2> HIDE DEF next
  <2>5. Heeds(r, next) /\ Apart(r, next) /\ Arrives(r, next)
    BY <2>1, <2>3, <2>4 DEF Heeds, Apart, Arrives
  <2> QED BY <1>1, <2>2, <2>3, <2>5, EnrichOne
<1> QED BY <1>4, <1>5 DEF Enrich!Score

\* The import begins in the thread of the run; without one the run is done.
LEMMA ImportLeadsStep ==
  ASSUME EnrichInv, NEW r \in Runs, Enrich!ImportLeads(r) PROVE EnrichInv'
<1>1. /\ run[r].pc = "import" /\ UNCHANGED <<link, own, steady, warned>>
      /\ r \in Enrich!Workers /\ "importing" \in RunFaces /\ "done" \in RunFaces \ {"idle", "importing", "patch"}
      /\ Heeds(r, run[r]) /\ Apart(r, run[r])
  BY EnrichFields DEF Enrich!ImportLeads, Enrich!At, Enrich!Workers, RunFaces, Enrich!Working,
                      Enrich!Ended, RunInv
<1>2. CASE ~(run[r].auto /\ run[r].leads # {})
  <2>1. Enrich!Become(r, "done") /\ UNCHANGED Enrich!contactVars
    BY <1>2 DEF Enrich!ImportLeads
  <2>2. EnrichRest /\ link' = link
    BY <1>1, <2>1, LocalIs
  <2>3. run[r].auto => run[r].leads \subseteq CP!Sure
    BY <1>2
  <2> QED BY <1>1, <2>1, <2>2, <2>3, WalkStep
<1>3. CASE run[r].auto /\ run[r].leads # {}
  <2>1. PICK leads \in SUBSET Emails : leads = run[r].leads
    BY EnrichFields
  <2>2. PICK next \in Enrichment :
         /\ run' = [run EXCEPT ![r] = next] /\ next.pc = "importing"
         /\ next.shunned = run[r].shunned /\ next.known = run[r].known /\ next.leads = run[r].leads
         /\ next.found = run[r].found /\ next.auto = run[r].auto
    <3>1. Enrich!Become(r, "importing")
      BY <1>3 DEF Enrich!ImportLeads
    <3> QED BY <1>1, <3>1, BecomeIs
  <2>3. PICK rows_ \in Enrich!Orders(leads) : Enrich!Set(r, Enrich!Import(rows_, TRUE, {}))
    BY <1>3, <2>1 DEF Enrich!ImportLeads
  <2>4. UNCHANGED <<blocked, contacts, reviews, avoid, requests, ever, byHand, spurned>>
    BY <1>3 DEF Enrich!ImportLeads
  <2>5. CP!ContactsInv' /\ CP!Grows /\ CP!Arriving(r, leads)'
    BY <1>1, <2>3, <2>4, EnrichStarts DEF EnrichInv
  <2>6. /\ run' \in [Runs -> Enrichment] /\ run'[r] = next
        /\ \A q \in Runs \ {r} : run'[q] = run[q]
    BY <2>2, EnrichFields
  <2>7. \A q \in Runs \ {r} : inside'[q] = inside[q]
    <3>1. Runs \subseteq DOMAIN inside
      BY DEF EnrichInv, CP!ContactsInv, CP!CallsInv, CP!Workers
    <3>2. inside' = [inside EXCEPT ![r] = Enrich!Import(rows_, TRUE, {})]
      BY <2>3 DEF Enrich!Set
    <3> QED BY <3>1, <3>2
  <2>8. EnrichType' /\ LinkInv'
    BY <1>1, <2>2, <2>6 DEF EnrichInv, EnrichType, LinkInv
  <2>9. Enrich!Held' = Enrich!Held
    BY <2>4 DEF Enrich!Held
  <2>10. ASSUME NEW q \in Runs \ {r} PROVE RunInv(q)'
    <3>1. RunInv(q) /\ \A to : CP!Arriving(q, to) => CP!Arriving(q, to)'
      BY <2>5, <2>7, EnrichKept DEF EnrichInv
    <3> QED BY <1>1, <2>4, <2>5, <2>6, <2>9, <3>1, RunKept DEF RunInv
  <2>11. RunInv(r)'
    <3>1. Heeds(r, run[r])'
      BY <1>1, <2>2, <2>6 DEF Heeds, Enrich!Working
    <3>2. Apart(r, run[r])'
      BY <1>1, <2>2, <2>6 DEF Apart
    <3>3. Arrives(r, run[r])'
      BY <1>3, <2>1, <2>2, <2>5, <2>6 DEF Arrives
    <3> QED BY <1>1, <2>4, <2>9, <3>1, <3>2, <3>3, EnrichFields DEF RunInv
  <2> QED BY <2>5, <2>8, <2>10, <2>11 DEF EnrichInv
<1> QED BY <1>2, <1>3

\* The thread has ended: when it ended well, the leads are sure.
LEMMA AnsweredStep == ASSUME EnrichInv, NEW r \in Runs, Enrich!Answered(r) PROVE EnrichInv'
<1>1. /\ run[r].pc = "importing" /\ inside[r].at = "idle" /\ EnrichRest /\ link' = link
      /\ Enrich!Become(r, IF inside[r].ok THEN "done" ELSE "failed")
  BY LocalIs DEF Enrich!Answered, Enrich!At, Enrich!Idle, Enrich!Local
<1>2. "done" \in RunFaces \ {"idle", "importing", "patch"} /\ "failed" \in RunFaces \ {"idle", "importing", "patch"}
  BY DEF RunFaces, Enrich!Ended
<1>3. CASE inside[r].ok
  <2>1. CP!Arriving(r, run[r].leads)
    BY <1>1, EnrichFields DEF RunInv, Arrives
  <2>2. run[r].leads \subseteq CP!Sure
    BY <1>1, <1>3, <2>1 DEF CP!Arriving
  <2>3. Enrich!Become(r, "done")
    BY <1>1, <1>3
  <2> QED BY <1>1, <1>2, <2>2, <2>3, WalkStep
<1>4. CASE ~inside[r].ok
  <2>1. Enrich!Become(r, "failed")
    BY <1>1, <1>4
  <2> QED BY <1>1, <1>2, <2>1, WalkStep
<1> QED BY <1>3, <1>4

LEMMA EndSteps ==
  ASSUME EnrichInv, NEW r \in Runs, Enrich!Fail(r) \/ Enrich!Cancel(r)
  PROVE  EnrichInv'
<1>1. EnrichRest /\ link' = link
  BY LocalIs DEF Enrich!Fail, Enrich!Cancel
<1>2. "cancelled" \in RunFaces \ {"idle", "importing", "patch"} /\ "failed" \in RunFaces \ {"idle", "importing", "patch"}
  BY DEF RunFaces, Enrich!Ended
<1>3. Enrich!Become(r, "failed") \/ Enrich!Become(r, "cancelled")
  BY DEF Enrich!Fail, Enrich!Cancel
<1> QED BY <1>1, <1>2, <1>3, WalkStep

\* Sources, look-ups, import and end: the steps of one run.
LEMMA AdvanceStep ==
  ASSUME EnrichInv, NEW r \in Runs, Enrich!Advance(r) \/ Enrich!Fail(r) \/ Enrich!Cancel(r)
  PROVE  EnrichInv'
BY StartRunStep, ReadSteps, LookSteps, FindSteps, ScoreStep, ImportLeadsStep, AnsweredStep, EndSteps
   DEF Enrich!Advance

\* The threads are gone; a job starts over with nothing read.
LEMMA RestartStep == ASSUME EnrichInv, Enrich!Restart PROVE EnrichInv'
<1>1. /\ UNCHANGED <<blocked, contacts, reviews, avoid, requests, ever, byHand, spurned,
                     link, own, steady, warned>>
      /\ inside' = [w \in Enrich!Workers |-> Enrich!Returned(FALSE)]
  BY DEF Enrich!Restart
<1>2. CP!ContactsInv' /\ CP!Grows
  BY <1>1, EnrichLost DEF EnrichInv
<1> DEFINE Again(r) == [Enrich!Fresh EXCEPT !.pc = IF run[r].job THEN "anchor" ELSE "lost",
                                            !.job = run[r].job, !.auto = run[r].auto]
<1>3. ASSUME NEW r \in Runs
      PROVE  Again(r) \in Enrichment /\ Again(r).pc \in {"anchor", "lost"} /\ Again(r).leads = {}
  <2>1. PICK job \in BOOLEAN, auto_ \in BOOLEAN : job = run[r].job /\ auto_ = run[r].auto
    BY EnrichFields DEF Enrichment
  <2>2. PICK pc \in {"anchor", "lost"} : pc = IF run[r].job THEN "anchor" ELSE "lost"
    OBVIOUS
  <2>3. Again(r) = [Enrich!Fresh EXCEPT !.pc = pc, !.job = job, !.auto = auto_]
    BY <2>1, <2>2
  <2>4. pc \in RunFaces
    BY DEF RunFaces, Enrich!Working, Enrich!Ended
  <2>5. LET d == [Enrich!Fresh EXCEPT !.pc = pc, !.job = job, !.auto = auto_]
        IN  d \in Enrichment /\ d.pc = pc /\ d.leads = {}
    BY <2>4, FreshType
  <2> HIDE DEF Again
  <2> QED BY <2>2, <2>3, <2>5
<1>4. run' = [r \in Runs |-> IF run[r].pc \notin Enrich!Working THEN run[r] ELSE Again(r)]
  BY DEF Enrich!Restart
<1> HIDE DEF Again
<1>5. \A r \in Runs : \/ run[r].pc \notin Enrich!Working /\ run'[r] = run[r]
                      \/ run[r].pc \in Enrich!Working /\ run'[r] = Again(r)
  BY <1>4
<1>6. run' \in [Runs -> Enrichment]
  BY <1>3, <1>4 DEF EnrichInv, EnrichType
<1>7. EnrichType'
  BY <1>1, <1>6 DEF EnrichInv, EnrichType
<1>8. LinkInv'
  BY <1>1, <1>3, <1>5 DEF EnrichInv, LinkInv
<1>9. ASSUME NEW r \in Runs PROVE RunInv(r)'
  <2>1. /\ RunInv(r) /\ Enrich!Held' = Enrich!Held /\ CP!Sure \subseteq CP!Sure'
        /\ UNCHANGED <<spurned, steady, warned>>
    BY <1>1, <1>2, EnrichSure DEF EnrichInv, Enrich!Held
  <2>2. CASE run[r].pc \notin Enrich!Working /\ run'[r] = run[r]
    <3>1. run[r].pc # "importing"
      BY <2>2 DEF Enrich!Working
    <3>2. Arrives(r, run[r])'
      BY <2>1, <2>2, <3>1 DEF RunInv, Arrives
    <3>3. Heeds(r, run[r])' /\ Apart(r, run[r])'
      BY <2>1, <2>2 DEF RunInv, Heeds, Apart
    <3> QED BY <2>1, <3>2, <3>3 DEF RunInv
  <2>3. CASE run'[r] = Again(r)
    <3>1. run'[r].pc \in {"anchor", "lost"} /\ run'[r].leads = {}
      BY <1>3, <2>3
    <3>2. Heeds(r, run[r])' /\ Apart(r, run[r])' /\ Arrives(r, run[r])'
      BY <3>1 DEF Heeds, Apart, Arrives, Enrich!Working
    <3> QED BY <2>1, <3>2 DEF RunInv
  <2> QED BY <1>5, <2>2, <2>3
<1> QED BY <1>2, <1>7, <1>8, <1>9 DEF EnrichInv

\* A step on the contacts: the row of the anchor may go with it.
LEMMA FollowStep ==
  ASSUME EnrichInv, Enrich!Follow, CP!ContactsInv', CP!Grows,
         \A r \in Runs : \A leads : CP!Arriving(r, leads) => CP!Arriving(r, leads)'
  PROVE  EnrichInv'
<1>1. /\ UNCHANGED <<run, own>> /\ link' \in {"gone", link}
      /\ steady' = [r \in Runs |-> steady[r] \cap {e \in Emails : contacts'[e] # "none"}]
      /\ warned' = [r \in Runs |-> warned[r] \cap spurned']
  BY DEF Enrich!Follow
<1>2. EnrichType' /\ LinkInv'
  BY <1>1 DEF EnrichInv, EnrichType, LinkInv, Links
<1>3. ASSUME NEW r \in Runs PROVE RunInv(r)'
  <2>1. /\ steady'[r] \subseteq steady[r] /\ warned'[r] \subseteq warned[r]
        /\ steady'[r] \subseteq Enrich!Held' /\ warned'[r] \subseteq spurned'
    BY <1>1 DEF Enrich!Held
  <2> QED BY <1>1, <1>3, <2>1, RunKept
<1> QED BY <1>2, <1>3 DEF EnrichInv

LEMMA ThreadStep ==
  ASSUME EnrichInv, NEW w \in Enrich!Workers, Enrich!Work(w), Enrich!Follow PROVE EnrichInv'
<1>1. /\ CP!ContactsInv' /\ CP!Grows
      /\ \A leads : CP!Arriving(w, leads) => CP!Arriving(w, leads)'
      /\ \A v \in Enrich!Workers \ {w} : inside'[v] = inside[v]
  BY EnrichWork DEF EnrichInv
<1>2. ASSUME NEW r \in Runs, r # w, NEW leads, CP!Arriving(r, leads) PROVE CP!Arriving(r, leads)'
  <2>1. inside'[r] = inside[r]
    BY <1>1, <1>2 DEF Enrich!Workers
  <2> QED BY <1>1, <1>2, <2>1, EnrichKept DEF EnrichInv
<1> QED BY <1>1, <1>2, FollowStep

LEMMA UserStep ==
  ASSUME EnrichInv, NEW u \in Users, Enrich!Ask(u), Enrich!Follow PROVE EnrichInv'
<1>1. /\ CP!ContactsInv' /\ CP!Grows
      /\ \A v \in Enrich!Workers \ {u} : inside'[v] = inside[v]
  BY EnrichAsk DEF EnrichInv
<1>2. ASSUME NEW r \in Runs, NEW leads, CP!Arriving(r, leads) PROVE CP!Arriving(r, leads)'
  <2>1. inside'[r] = inside[r]
    BY <1>1, EnrichConstants DEF Enrich!Workers
  <2> QED BY <1>1, <1>2, <2>1, EnrichKept DEF EnrichInv
<1> QED BY <1>1, <1>2, FollowStep

\* The user gives a link, or takes his away.
LEMMA EditStep == ASSUME EnrichInv, NEW u \in Users, Enrich!EditLink(u) PROVE EnrichInv'
<1>1. /\ requests < MaxRequests /\ requests' = requests + 1
      /\ UNCHANGED <<blocked, contacts, reviews, avoid, inside, ever, byHand, spurned>>
      /\ UNCHANGED <<run, steady, warned>>
      /\ link' \in {"none", "user"} /\ own' \in BOOLEAN
      /\ own' => link' = "user" /\ \A r \in Runs : run[r].pc # "patch"
  BY DEF Enrich!EditLink, Enrich!Request, Enrich!At
<1>2. CP!ContactsInv' /\ CP!Grows
  <2>1. requests \in 0..MaxRequests
    BY DEF EnrichInv, CP!ContactsInv, CP!RowsInv, CP!RowsOK
  <2>2. requests' \in 0..MaxRequests
    BY <1>1, <2>1, EnrichConstants
  <2> QED BY <1>1, <2>2, EnrichStill DEF EnrichInv
<1>3. EnrichType' /\ LinkInv'
  BY <1>1 DEF EnrichInv, EnrichType, LinkInv, Links
<1>4. ASSUME NEW r \in Runs PROVE RunInv(r)'
  <2>1. RunInv(r) /\ Enrich!Held' = Enrich!Held
    BY <1>1 DEF EnrichInv, Enrich!Held
  <2>2. \A leads : CP!Arriving(r, leads) => CP!Arriving(r, leads)'
    BY <1>1, <1>2, EnrichKept DEF EnrichInv
  <2> QED BY <1>1, <1>2, <2>1, <2>2, RunKept DEF RunInv
<1> QED BY <1>2, <1>3, <1>4 DEF EnrichInv

LEMMA EnrichBegin == ASSUME Enrich!Init PROVE EnrichInv
<1>1. CP!ContactsInv
  BY EnrichBegins DEF Enrich!Init
<1>2. /\ run = [r \in Runs |-> Enrich!Fresh] /\ link = "none" /\ own = FALSE
      /\ steady = [r \in Runs |-> {}] /\ warned = [r \in Runs |-> {}]
  BY DEF Enrich!Init
<1>3. EnrichType /\ LinkInv
  BY <1>2, FreshType DEF EnrichType, LinkInv, Links
<1>4. ASSUME NEW r \in Runs PROVE RunInv(r)
  <2>1. run[r].pc = "idle" /\ run[r].leads = {} /\ steady[r] = {} /\ warned[r] = {}
    BY <1>2 DEF Enrich!Fresh
  <2> QED BY <2>1 DEF RunInv, Heeds, Apart, Arrives, Enrich!Working
<1> QED BY <1>1, <1>3, <1>4 DEF EnrichInv

LEMMA EnrichStep == ASSUME EnrichInv, Enrich!Next PROVE EnrichInv'
<1>1. CASE \E r \in Runs : Enrich!Advance(r) \/ Enrich!Fail(r) \/ Enrich!Cancel(r)
  BY <1>1, AdvanceStep
<1>2. CASE \E w \in Enrich!Workers : Enrich!Work(w) /\ Enrich!Follow
  BY <1>2, ThreadStep
<1>3. CASE \E u \in Users : (Enrich!Ask(u) /\ Enrich!Follow) \/ Enrich!EditLink(u)
  BY <1>3, UserStep, EditStep
<1>4. CASE Enrich!Restart
  BY <1>4, RestartStep
<1> QED BY <1>1, <1>2, <1>3, <1>4 DEF Enrich!Next

LEMMA EnrichRestStep == ASSUME EnrichInv, UNCHANGED enrich PROVE EnrichInv'
<1>1. /\ UNCHANGED <<blocked, contacts, reviews, avoid, inside, requests, ever, byHand, spurned>>
      /\ UNCHANGED <<run, link, own, steady, warned>>
  BY DEF enrich
<1>2. CP!ContactsInv' /\ CP!Grows
  <2>1. requests' \in 0..MaxRequests
    BY <1>1 DEF EnrichInv, CP!ContactsInv, CP!RowsInv, CP!RowsOK
  <2> QED BY <1>1, <2>1, EnrichStill DEF EnrichInv
<1>3. EnrichType' /\ LinkInv'
  BY <1>1 DEF EnrichInv, EnrichType, LinkInv
<1>4. ASSUME NEW r \in Runs PROVE RunInv(r)'
  <2>1. RunInv(r) /\ Enrich!Held' = Enrich!Held
    BY <1>1 DEF EnrichInv, Enrich!Held
  <2>2. \A leads : CP!Arriving(r, leads) => CP!Arriving(r, leads)'
    BY <1>1, <1>2, EnrichKept DEF EnrichInv
  <2> QED BY <1>1, <1>2, <2>1, <2>2, RunKept DEF RunInv
<1> QED BY <1>2, <1>3, <1>4 DEF EnrichInv

LEMMA EnrichFollows == ASSUME EnrichInv PROVE EnrichmentOnlyAdds
<1>1. \A r \in Runs : run[r].leads \cap (steady[r] \cup warned[r]) = {}
  BY DEF EnrichInv, RunInv, Apart
<1>2. \A r \in Runs : run[r].pc = "done" /\ run[r].auto => run[r].leads \subseteq ever \cup blocked
  BY DEF EnrichInv, RunInv, Arrives, CP!Sure
<1>3. own => link \in {"user", "gone"}
  BY DEF EnrichInv, LinkInv
<1> QED BY <1>1, <1>2, <1>3 DEF EnrichmentOnlyAdds, Enrich!EnrichmentOnlyAdds, Enrich!At

\* An enrichment brings no address that has been a contact or was rejected all
\* the time since it began, over restarts too; when it ends as done with
\* auto_import every lead has been a contact or was refused by the filter; and
\* it leaves a link the user gave, unless he gave it between the read and the
\* write of the patch (enrich_contact_stream, update_contact_social_fields of
\* app/contact_enrichment.py).
THEOREM Additions == Spec => []EnrichmentOnlyAdds
<1>1. MCInit => EnrichInv
  BY EnrichBegin DEF MCInit
<1>2. EnrichInv /\ [MCNext]_vars => EnrichInv'
  BY StepOf, EnrichStep, EnrichRestStep
<1>3. EnrichInv => EnrichmentOnlyAdds
  BY EnrichFollows
<1> QED BY <1>1, <1>2, <1>3, PTL DEF Spec

-----------------------------------------------------------------------------
(* LlmClient: what a reader was shown is not taken back.                    *)

Fragments == [names : {1}, arguments : {0, 1}]

LlmType == /\ at \in {"idle", "connect", "read", "sleep", "over"}
           /\ attempt \in 0..MaxRetries /\ answer \in Llm!Answers /\ text \in 0..MaxPieces
           /\ calls \in Seq(Fragments)
           /\ reasoned \in BOOLEAN /\ status \in BOOLEAN /\ emitted \in BOOLEAN /\ whole \in BOOLEAN

Pieces(a, n) == [i \in 1..n |-> <<a, i>>]

\* While the request runs the reader has what the running attempt put together,
\* but for what a complete message added; before an answer he has nothing.
ShownInv ==
    /\ at # "over" => outcome = Llm!Open
    /\ at \in {"idle", "connect", "sleep"} => shown = <<>>
    /\ at = "sleep" => attempt < MaxRetries
    /\ at = "connect" => text = 0 /\ calls = <<>> /\ ~whole
    /\ at = "read" =>
          /\ \E n \in 0..text : shown = Pieces(attempt, n) /\ (~whole => n = text) /\ (~emitted => n = 0)
          /\ whole => \A i \in DOMAIN calls : calls[i].arguments = 1

LlmInv == LlmType /\ ShownInv

-----------------------------------------------------------------------------
LEMMA PiecesNone == Pieces(0, 0) = <<>> /\ \A a : Pieces(a, 0) = <<>>
BY DEF Pieces

LEMMA PiecesSeq ==
  ASSUME NEW a, NEW n \in Nat
  PROVE  /\ Len(Pieces(a, n)) = n /\ DOMAIN Pieces(a, n) = 1..n
         /\ Pieces(a, n) \in Seq({a} \X (1..n))
         /\ Append(Pieces(a, n), <<a, n + 1>>) = Pieces(a, n + 1)
         /\ \A k \in 0..n : SubSeq(Pieces(a, n), 1, k) = Pieces(a, k)
<1>1. /\ Len(Pieces(a, n)) = n /\ DOMAIN Pieces(a, n) = 1..n
      /\ Pieces(a, n) \in Seq({a} \X (1..n))
  BY DEF Pieces
<1>2. Append(Pieces(a, n), <<a, n + 1>>) = Pieces(a, n + 1)
  BY DEF Pieces
<1>3. ASSUME NEW k \in 0..n PROVE SubSeq(Pieces(a, n), 1, k) = Pieces(a, k)
  BY DEF Pieces
<1> QED BY <1>1, <1>2, <1>3

LEMMA LlmBegin == ASSUME Llm!Init PROVE LlmInv
<1>1. /\ at = "idle" /\ attempt = 0 /\ answer = Llm!NoAnswer /\ text = 0 /\ calls = <<>>
      /\ reasoned = FALSE /\ status = FALSE /\ emitted = FALSE /\ whole = FALSE
      /\ shown = <<>> /\ outcome = Llm!Open
  BY DEF Llm!Init
<1>2. Llm!NoAnswer \in Llm!Answers /\ 0 \in 0..MaxPieces /\ 0 \in 0..MaxRetries
  BY LlmConstants DEF Llm!NoAnswer, Llm!Answers
<1>3. <<>> \in Seq(Fragments)
  OBVIOUS
<1>4. LlmType
  BY <1>1, <1>2, <1>3 DEF LlmType
<1> QED BY <1>1, <1>4 DEF LlmInv, ShownInv

LEMMA LlmStill == ASSUME LlmInv, UNCHANGED llm PROVE LlmInv'
BY DEF LlmInv, LlmType, ShownInv, llm

\* The parts of a new attempt.
LEMMA FreshIs ==
  ASSUME Llm!FreshParts
  PROVE  /\ text' = 0 /\ calls' = <<>> /\ whole' = FALSE /\ calls' \in Seq(Fragments)
         /\ text' \in 0..MaxPieces /\ reasoned' \in BOOLEAN /\ status' \in BOOLEAN
         /\ emitted' \in BOOLEAN
<1>1. <<>> \in Seq(Fragments) /\ 0 \in 0..MaxPieces
  BY LlmConstants
<1> QED BY <1>1 DEF Llm!FreshParts

\* An attempt that ends: nothing was shown if another follows.
LEMMA EndsOr ==
  ASSUME LlmInv, UNCHANGED <<attempt, answer, text, reasoned, calls, status, emitted, whole, shown>>,
         \/ \E kind : Llm!End(kind)
         \/ /\ shown = <<>> /\ at' = "sleep" /\ outcome' = outcome /\ at # "over"
            /\ attempt < MaxRetries
  PROVE  LlmInv'
<1>1. LlmType'
  BY DEF LlmInv, LlmType, Llm!End
<1>2. ShownInv'
  BY DEF LlmInv, ShownInv, Llm!End
<1> QED BY <1>1, <1>2 DEF LlmInv

LEMMA ReadIs ==
  ASSUME LlmInv, at = "read"
  PROVE  /\ \E n \in 0..text : shown = Pieces(attempt, n) /\ (~whole => n = text) /\ (~emitted => n = 0)
         /\ whole => \A i \in DOMAIN calls : calls[i].arguments = 1
         /\ text \in Nat /\ text <= MaxPieces /\ outcome = Llm!Open
BY LlmConstants DEF LlmInv, LlmType, ShownInv

\* One more piece: the reader has it too.
LEMMA PieceStep ==
  ASSUME LlmInv, Llm!Piece
  PROVE  LlmInv' /\ shown = Pieces(attempt, text) /\ shown' = Pieces(attempt, text + 1)
<1>1. /\ at = "read" /\ ~whole /\ text < answer.text /\ text' = text + 1 /\ emitted' = TRUE
      /\ shown' = Append(shown, <<attempt, text + 1>>)
      /\ UNCHANGED <<at, attempt, answer, reasoned, calls, status, whole, outcome>>
  BY DEF Llm!Piece, Llm!Reading
<1>2. shown = Pieces(attempt, text) /\ text \in Nat /\ text <= MaxPieces /\ outcome = Llm!Open
  BY <1>1, ReadIs
<1>3. shown' = Pieces(attempt, text + 1)
  BY <1>1, <1>2, PiecesSeq
<1>4. text' \in 0..MaxPieces
  <2>1. answer.text \in 0..MaxPieces
    BY DEF LlmInv, LlmType, Llm!Answers
  <2> QED BY <1>1, <1>2, <2>1, LlmConstants
<1>5. LlmType'
  BY <1>1, <1>4 DEF LlmInv, LlmType
<1>6. ShownInv'
  <2>1. text' \in 0..text' /\ shown' = Pieces(attempt', text')
    BY <1>1, <1>2, <1>3
  <2> QED BY <1>1, <1>2, <2>1 DEF ShownInv
<1> QED BY <1>2, <1>3, <1>5, <1>6 DEF LlmInv

\* The complete message: the text may be longer than what was shown.
LEMMA CompleteStep == ASSUME LlmInv, Llm!Complete PROVE LlmInv'
<1>1. /\ at = "read" /\ whole' = TRUE /\ text' = Llm!Longer(answer.text, text)
      /\ calls' = [i \in 1..answer.calls |-> [names |-> 1, arguments |-> 1]]
      /\ reasoned' = (reasoned \/ answer.reasons)
      /\ UNCHANGED <<at, attempt, answer, status, emitted, shown, outcome>>
  BY DEF Llm!Complete, Llm!Reading
<1>2. PICK n \in 0..text : shown = Pieces(attempt, n) /\ (~emitted => n = 0)
  BY <1>1, ReadIs
<1>3. /\ answer.text \in 0..MaxPieces /\ answer.calls \in Nat /\ answer.reasons \in BOOLEAN
      /\ text \in 0..MaxPieces
  BY LlmConstants DEF LlmInv, LlmType, Llm!Answers
<1>4. text' \in 0..MaxPieces /\ n \in 0..text'
  BY <1>1, <1>3, LlmConstants DEF Llm!Longer
<1>5. calls' \in Seq(Fragments) /\ \A i \in DOMAIN calls' : calls'[i].arguments = 1
  <2> DEFINE One == [names |-> 1, arguments |-> 1]
  <2>1. One \in Fragments /\ One.arguments = 1
    BY DEF Fragments
  <2> HIDE DEF One
  <2>2. calls' = [i \in 1..answer.calls |-> One]
    BY <1>1 DEF One
  <2> QED BY <1>3, <2>1, <2>2
<1>6. LlmType'
  BY <1>1, <1>3, <1>4, <1>5 DEF LlmInv, LlmType
<1>7. ShownInv'
  BY <1>1, <1>2, <1>4, <1>5, ReadIs DEF ShownInv
<1> QED BY <1>6, <1>7 DEF LlmInv

LEMMA FragmentStep == ASSUME LlmInv, Llm!Fragment PROVE LlmInv'
<1>1. /\ at = "read" /\ ~whole /\ status' = TRUE /\ emitted' = (emitted \/ ~status)
      /\ UNCHANGED <<at, attempt, answer, text, reasoned, whole, shown, outcome>>
  BY DEF Llm!Fragment, Llm!Reading
<1>2. calls \in Seq(Fragments)
  BY DEF LlmInv, LlmType
<1>3. calls' \in Seq(Fragments)
  <2>1. PICK i \in 1..answer.calls :
          /\ i <= Len(calls) + 1
          /\ \/ i > Len(calls) /\ calls' = Append(calls, [Llm!Nothing EXCEPT !.names = 1])
             \/ /\ i <= Len(calls) /\ calls[i].arguments = 0
                /\ calls' = [calls EXCEPT ![i].arguments = @ + 1]
    BY DEF Llm!Fragment
  <2>2. CASE calls' = Append(calls, [Llm!Nothing EXCEPT !.names = 1])
    <3>1. [Llm!Nothing EXCEPT !.names = 1] \in Fragments
      BY DEF Llm!Nothing, Fragments
    <3> QED BY <1>2, <2>2, <3>1
  <2>3. CASE i <= Len(calls) /\ calls[i].arguments = 0 /\ calls' = [calls EXCEPT ![i].arguments = @ + 1]
    <3>1. i \in 1..Len(calls) /\ calls[i] \in Fragments
      BY <1>2, <2>1, <2>3 DEF LlmInv, LlmType, Llm!Answers
    <3> DEFINE d == [calls[i] EXCEPT !.arguments = 1]
    <3>2. d \in Fragments
      BY <3>1 DEF Fragments
    <3>3. calls' = [calls EXCEPT ![i] = d]
      BY <2>3
    <3> HIDE DEF d
    <3> QED BY <1>2, <3>1, <3>2, <3>3
  <2> QED BY <2>1, <2>2, <2>3
<1>4. LlmType'
  BY <1>1, <1>3 DEF LlmInv, LlmType
<1>5. ShownInv'
  BY <1>1, ReadIs DEF ShownInv
<1> QED BY <1>4, <1>5 DEF LlmInv

LEMMA LlmSteps == ASSUME LlmInv, Llm!Next PROVE LlmInv'
<1>1. CASE Llm!Request
  BY <1>1, FreshIs DEF LlmInv, LlmType, ShownInv, Llm!Request
<1>2. CASE Llm!Wake
  <2>1. /\ at = "sleep" /\ at' = "connect" /\ attempt' = attempt + 1 /\ Llm!FreshParts
        /\ UNCHANGED <<answer, shown, outcome>>
    BY <1>2 DEF Llm!Wake
  <2>2. attempt' \in 0..MaxRetries
    BY <2>1, LlmConstants DEF LlmInv, LlmType, ShownInv
  <2>3. LlmType'
    BY <2>1, <2>2, FreshIs DEF LlmInv, LlmType
  <2> QED BY <2>1, <2>3, FreshIs DEF LlmInv, ShownInv
<1>3. CASE Llm!NoKey \/ Llm!Refused \/ Llm!Leave
  BY <1>3, EndsOr DEF Llm!NoKey, Llm!Refused, Llm!Leave, Llm!parts
<1>4. CASE Llm!Busy \/ Llm!Broken
  <2>1. shown = <<>> \/ (at = "read" /\ emitted)
    BY <1>4, ReadIs, PiecesNone DEF LlmInv, ShownInv, Llm!Busy, Llm!Broken
  <2> QED BY <1>4, <2>1, EndsOr DEF Llm!Busy, Llm!Broken, Llm!RetryElseFail, Llm!parts
<1>5. CASE Llm!Answered
  <2>1. /\ at = "connect" /\ at' = "read" /\ answer' \in Llm!Answers
        /\ UNCHANGED <<attempt, text, reasoned, calls, status, emitted, whole, shown, outcome>>
    BY <1>5 DEF Llm!Answered, Llm!parts
  <2>2. shown = Pieces(attempt, 0) /\ 0 \in 0..0
    BY <2>1, PiecesNone DEF LlmInv, ShownInv
  <2>3. LlmType'
    BY <2>1 DEF LlmInv, LlmType
  <2> QED BY <2>1, <2>2, <2>3 DEF LlmInv, ShownInv
<1>6. CASE Llm!Reasoning
  <2>1. /\ at = "read" /\ reasoned' = TRUE /\ emitted' = TRUE /\ status' = (status \/ text = 0)
        /\ UNCHANGED <<at, attempt, answer, text, calls, whole, shown, outcome>>
    BY <1>6 DEF Llm!Reasoning, Llm!Reading
  <2>2. LlmType'
    BY <2>1 DEF LlmInv, LlmType
  <2>3. ShownInv'
    BY <2>1, ReadIs DEF ShownInv
  <2> QED BY <2>2, <2>3 DEF LlmInv
<1>7. CASE Llm!Assemble
  <2>1. /\ at = "read" /\ at' = "over"
        /\ UNCHANGED <<attempt, answer, text, reasoned, calls, status, emitted, whole, shown>>
    BY <1>7 DEF Llm!Assemble, Llm!parts
  <2> QED BY <2>1 DEF LlmInv, LlmType, ShownInv
<1> QED BY <1>1, <1>2, <1>3, <1>4, <1>5, <1>6, <1>7, PieceStep, CompleteStep, FragmentStep
        DEF Llm!Next, Llm!Attempt, Llm!Deliver

-----------------------------------------------------------------------------
(* Each step is a step of LlmReply, or none. *)

ReplyStep == Llm!Reply!Next \/ UNCHANGED Llm!Reply!vars

LEMMA ReplyBegin == ASSUME Llm!Init PROVE Llm!Reply!Init
BY DEF Llm!Init, Llm!Reply!Init, Llm!Open, Llm!Reply!Open

LEMMA OneAnswer ==
  ASSUME NEW a \in 0..MaxRetries, NEW n \in Nat PROVE Llm!Reply!OfOne(Pieces(a, n))
BY PiecesSeq DEF Llm!Reply!OfOne, Llm!Reply!Pieces, Pieces

LEMMA Continues ==
  ASSUME NEW a, NEW n \in Nat, NEW k \in 0..n, shown = Pieces(a, k)
  PROVE  Llm!Reply!Extends(Pieces(a, n))
<1>0. k \in Nat /\ k <= n
  OBVIOUS
<1>1. Len(shown) = k /\ Len(Pieces(a, n)) = n
  BY <1>0, PiecesSeq
<1>2. SubSeq(Pieces(a, n), 1, k) = shown
  BY PiecesSeq
<1> QED BY <1>0, <1>1, <1>2 DEF Llm!Reply!Extends

LEMMA SameOpen == Llm!Open = Llm!Reply!Open
BY DEF Llm!Open, Llm!Reply!Open

LEMMA PieceShows == ASSUME LlmInv, Llm!Piece PROVE Llm!Reply!Next
<1>1. at = "read" /\ at' = at /\ UNCHANGED outcome /\ outcome = Llm!Reply!Open
  BY ReadIs, SameOpen DEF Llm!Piece, Llm!Reading
<1>2. /\ shown = Pieces(attempt, text) /\ shown' = Pieces(attempt, text + 1)
      /\ text \in Nat /\ attempt \in 0..MaxRetries
  BY <1>1, PieceStep, ReadIs DEF LlmInv, LlmType
<1>3. PICK n \in Nat : n = text + 1 /\ text \in 0..n
  BY <1>2
<1>4. /\ Llm!Reply!Extends(shown') /\ Llm!Reply!OfOne(shown')
      /\ Len(shown') = Len(shown) + 1
  BY <1>2, <1>3, Continues, OneAnswer, PiecesSeq
<1>5. Llm!Reply!Show
  BY <1>1, <1>4 DEF Llm!Reply!Show
<1> QED BY <1>5 DEF Llm!Reply!Next

LEMMA AssembleEnds == ASSUME LlmInv, Llm!Assemble PROVE Llm!Reply!Next
<1>1. /\ at = "read" /\ at' = "over" /\ Llm!Sent /\ shown' = shown
      /\ outcome' = [kind |-> "message", text |-> Pieces(attempt, text),
                     calls |-> {calls[i] : i \in DOMAIN calls} \ {Llm!Nothing}]
  BY DEF Llm!Assemble, Pieces
<1>2. PICK n \in 0..text : shown = Pieces(attempt, n)
  BY <1>1, ReadIs
<1>3. text \in Nat /\ attempt \in 0..MaxRetries /\ outcome = Llm!Reply!Open
  BY <1>1, ReadIs, SameOpen DEF LlmInv, LlmType
<1>4. \A i \in DOMAIN calls : calls[i] = Llm!Reply!Whole
  <2>1. \A i \in DOMAIN calls : calls[i].arguments = 1
    BY <1>1, ReadIs DEF Llm!Sent
  <2>2. \A i \in DOMAIN calls : calls[i] \in Fragments
    BY DEF LlmInv, LlmType
  <2> QED BY <2>1, <2>2 DEF Fragments, Llm!Reply!Whole
<1>5. outcome'.calls \subseteq {Llm!Reply!Whole} /\ outcome'.kind = "message"
      /\ outcome'.text = Pieces(attempt, text)
  BY <1>1, <1>4
<1>6. Llm!Reply!Extends(outcome'.text) /\ Llm!Reply!OfOne(outcome'.text)
  BY <1>2, <1>3, <1>5, Continues, OneAnswer
<1>7. Llm!Reply!Message
  BY <1>1, <1>3, <1>5, <1>6 DEF Llm!Reply!Message
<1> QED BY <1>7 DEF Llm!Reply!Next

LEMMA EndGivesUp ==
  ASSUME LlmInv, at \notin {"idle", "over"}, Llm!End("error") \/ Llm!End("left"), shown' = shown
  PROVE  Llm!Reply!Next
<1>1. outcome = Llm!Reply!Open /\ at' = "over"
  BY SameOpen DEF LlmInv, ShownInv, Llm!End
<1>2. \E k \in {"error", "left"} : outcome' = [Llm!Reply!Open EXCEPT !.kind = k]
  BY SameOpen DEF Llm!End
<1>3. Llm!Reply!GiveUp
  BY <1>1, <1>2 DEF Llm!Reply!GiveUp
<1> QED BY <1>3 DEF Llm!Reply!Next

LEMMA LlmMaps == ASSUME LlmInv, Llm!Next PROVE ReplyStep
<1>1. CASE Llm!Request
  <2>1. Llm!Reply!Request
    BY <1>1 DEF Llm!Request, Llm!Reply!Request
  <2> QED BY <2>1 DEF ReplyStep, Llm!Reply!Next
<1>2. CASE Llm!NoKey \/ Llm!Refused \/ Llm!Leave
  <2>1. at \notin {"idle", "over"} /\ (Llm!End("error") \/ Llm!End("left")) /\ shown' = shown
    BY <1>2 DEF Llm!NoKey, Llm!Refused, Llm!Leave
  <2> QED BY <2>1, EndGivesUp DEF ReplyStep
<1>3. CASE Llm!Busy \/ Llm!Broken
  <2>1. at \in {"connect", "read"} /\ shown' = shown
        /\ (Llm!End("error") \/ (at' = "sleep" /\ UNCHANGED outcome))
    BY <1>3 DEF Llm!Busy, Llm!Broken, Llm!RetryElseFail
  <2>2. CASE Llm!End("error")
    BY <2>1, <2>2, EndGivesUp DEF ReplyStep
  <2>3. CASE at' = "sleep" /\ UNCHANGED outcome
    BY <2>1, <2>3 DEF ReplyStep, Llm!Reply!vars
  <2> QED BY <2>1, <2>2, <2>3
<1>4. CASE Llm!Answered \/ Llm!Wake \/ Llm!Reasoning \/ Llm!Fragment \/ Llm!Complete
  BY <1>4 DEF Llm!Answered, Llm!Wake, Llm!Reasoning, Llm!Fragment, Llm!Complete, Llm!Reading,
     ReplyStep, Llm!Reply!vars
<1> QED BY <1>1, <1>2, <1>3, <1>4, PieceShows, AssembleEnds
        DEF Llm!Next, Llm!Attempt, Llm!Deliver, ReplyStep

LEMMA LlmRests == ASSUME UNCHANGED llm PROVE ReplyStep
BY DEF llm, ReplyStep, Llm!Reply!vars

\* For its reader a request is one of LlmReply: what he was given is never
\* taken back by another attempt, the message continues it, comes from one
\* answer and has whole calls, and there is one end (stream_chat of
\* app/pi_llm_client.py).  That the end comes is left to TLC.
THEOREM ReplyImplemented == Spec => Llm!Reply!Init /\ [][Llm!Reply!Next]_(Llm!Reply!vars)
<1>1. MCInit => LlmInv /\ Llm!Reply!Init
  BY LlmBegin, ReplyBegin DEF MCInit
<1>2. LlmInv /\ [MCNext]_vars => LlmInv' /\ ReplyStep
  BY StepOf, LlmSteps, LlmStill, LlmMaps, LlmRests
<1>3. ReplyStep => [Llm!Reply!Next]_(Llm!Reply!vars)
  BY DEF ReplyStep
<1> QED BY <1>1, <1>2, <1>3, PTL DEF Spec

-----------------------------------------------------------------------------
(* AsnLookup: what was asked for is told, in order.                          *)

\* What a look-up finds.
Found == Results \ {Raised}

WorkerType == [step : {"look", "fetch", "raised", "store", "done"},
               result : Results \cup {NoEmail, Raised}]
TellType == [asn : Nat, result : Found]
CallType == [at : {"idle", "gather", "tell", "ended", "raised"}, asked : Seq(Nat), first : Nat \ {0},
             work : Seq(WorkerType), told : Seq(TellType),
             read : Nat, end : {"none", "done", "error", "left", "cancelled"}]

\* What the cache holds was found.
CacheInv == /\ DOMAIN cache = Asns
            /\ \A a \in Asns : cache[a] = Missing \/ cache[a].result \in Found

Least(n, m) == IF n < m THEN n ELSE m

\* The batch lies within the list; its workers have found what they say.
BatchInv(c, r) ==
    /\ c.at = "idle" => c.told = <<>> /\ c.work = <<>> /\ c.end = "none"
    /\ c.at # "idle" => c.asked = Lists[r]
    /\ c.first + Len(c.work) <= Len(c.asked) + 1
    /\ c.at \in {"gather", "tell"} => Len(c.work) = Least(BatchSize, Len(c.asked) - c.first + 1)
    /\ \A i \in DOMAIN c.work : c.work[i].step \in {"store", "done"} => c.work[i].result \in Found
    /\ c.at = "tell" => \A i \in DOMAIN c.work : c.work[i].step = "done"

\* Told is the list as far as the batch before, or into this one.
ToldInv(c) ==
    /\ \A k \in DOMAIN c.told : k \in DOMAIN c.asked /\ c.told[k].asn = c.asked[k]
    /\ c.at = "gather" => Len(c.told) = c.first - 1
    /\ c.at = "tell" => c.first - 1 <= Len(c.told) /\ Len(c.told) <= c.first - 1 + Len(c.work)
    /\ c.at = "ended" /\ c.end # "cancelled" => Len(c.told) = Len(c.asked)

EndInv(c, r) ==
    /\ r \in Jobs /\ c.end = "done" => c.at = "ended"
    /\ r \in Streams /\ c.end = "done" => c.at = "ended" /\ c.read = Len(c.told)
    /\ r \in Streams => c.end # "cancelled"

LookupOK(c, r) == c \in CallType /\ BatchInv(c, r) /\ ToldInv(c) /\ EndInv(c, r)

LookupInv == /\ DOMAIN call = Readers /\ CacheInv
             /\ \A r \in Readers : LookupOK(call[r], r)

\* What a reader is served.
Served(r) ==
    /\ \A k \in DOMAIN call[r].told :
          call[r].told[k].asn = call[r].asked[k] /\ call[r].told[k].result \in Results \ {Raised}
    /\ Whole(r)

-----------------------------------------------------------------------------
LEMMA WorkIs ==
  ASSUME NEW list \in Seq(Nat), NEW first \in Nat \ {0}, first <= Len(list) + 1
  PROVE  /\ Work(list, first) \in Seq(WorkerType)
         /\ Len(Work(list, first)) = Least(BatchSize, Len(list) - first + 1)
         /\ first + Len(Work(list, first)) <= Len(list) + 1
         /\ \A i \in DOMAIN Work(list, first) : Work(list, first)[i].step = "look"
<1> DEFINE n == IF Len(list) - first + 1 < BatchSize THEN Len(list) - first + 1 ELSE BatchSize
<1>1. n \in Nat /\ n = Least(BatchSize, Len(list) - first + 1) /\ first + n <= Len(list) + 1
  BY LookupConstants DEF Least
<1>2. Worker \in WorkerType /\ Worker.step = "look"
  BY DEF Worker, WorkerType
<1>3. Work(list, first) = [i \in 1..n |-> Worker]
  BY DEF Work
<1> HIDE DEF n
<1>4. PICK w \in WorkerType : w = Worker /\ w.step = "look"
  BY <1>2
<1>5. PICK s : s = [i \in 1..n |-> w]
  OBVIOUS
<1>6. s \in Seq(WorkerType) /\ Len(s) = n /\ \A i \in DOMAIN s : s[i] = w
  BY <1>1, <1>5
<1>7. Work(list, first) = s
  BY <1>3, <1>4, <1>5
<1> QED BY <1>1, <1>4, <1>6, <1>7

LEMMA OneReader ==
  ASSUME LookupInv, CacheInv', NEW r \in Readers, NEW next, Set(r, next), LookupOK(next, r)
  PROVE  LookupInv'
BY DEF LookupInv, Set

\* A worker goes on, or fails; those of a batch that is told are done.
LEMMA OneWorker ==
  ASSUME LookupInv, CacheInv', NEW r \in Readers, NEW i \in DOMAIN call[r].work,
         NEW w \in WorkerType, Turn(r, i, w), w.step \in {"store", "done"} => w.result \in Found,
         call[r].work[i].step # "done"
  PROVE  LookupInv'
<1> DEFINE c == call[r]
           works == [c.work EXCEPT ![i] = w]
           next == [c EXCEPT !.work = works]
<1>1. c \in CallType /\ BatchInv(c, r) /\ ToldInv(c) /\ EndInv(c, r) /\ c.work \in Seq(WorkerType)
  BY DEF LookupInv, LookupOK, CallType
<1>2. /\ works \in Seq(WorkerType) /\ Len(works) = Len(c.work) /\ DOMAIN works = DOMAIN c.work
      /\ works[i] = w /\ \A j \in DOMAIN c.work \ {i} : works[j] = c.work[j]
  BY <1>1
<1>3. c.at # "tell"
  BY <1>1 DEF BatchInv
<1>4. Set(r, next)
  BY DEF Turn, Set
<1> HIDE DEF works
<1>5. /\ next \in CallType /\ next.work = works
      /\ next.at = c.at /\ next.asked = c.asked /\ next.first = c.first /\ next.told = c.told
      /\ next.read = c.read /\ next.end = c.end
  BY <1>1, <1>2 DEF CallType
<1> HIDE DEF next, c
<1>6. BatchInv(next, r)
  <2>1. ASSUME c.at = "idle" PROVE works = <<>>
    <3>1. c.work = <<>>
      BY <1>1, <2>1 DEF BatchInv
    <3> QED BY <1>2, <3>1
  <2> QED BY <1>1, <1>2, <1>3, <1>5, <2>1 DEF BatchInv
<1>7. ToldInv(next) /\ EndInv(next, r)
  BY <1>1, <1>2, <1>5 DEF ToldInv, EndInv
<1> QED BY <1>4, <1>5, <1>6, <1>7, OneReader DEF LookupOK

\* The ASN of a worker is one of those asked for.
LEMMA AsnIs ==
  ASSUME LookupInv, NEW r \in Readers, NEW i \in DOMAIN call[r].work PROVE Asn(r, i) \in Asns
<1> DEFINE c == call[r]
<1>1. c \in CallType /\ BatchInv(c, r) /\ c.asked \in Seq(Nat) /\ c.work \in Seq(WorkerType) /\ c.first \in Nat \ {0}
  BY DEF LookupInv, LookupOK, CallType
<1>2. c.at # "idle" /\ c.asked = Lists[r]
  BY <1>1 DEF BatchInv
<1>3. c.first + i - 1 \in DOMAIN Lists[r]
  <2>1. i \in 1..Len(c.work) /\ c.first + Len(c.work) <= Len(c.asked) + 1
    BY <1>1 DEF BatchInv
  <2> HIDE DEF c
  <2>2. c.first + i - 1 \in 1..Len(c.asked)
    BY <1>1, <2>1
  <2> QED BY <1>1, <1>2, <2>2
<1>4. Asn(r, i) \in ToSet(Lists[r])
  BY <1>2, <1>3 DEF Asn, ToSet
<1> QED BY <1>4 DEF Asns

LEMMA WorkersStep ==
  ASSUME LookupInv, NEW r \in Readers, WorkerSteps(r) PROVE LookupInv'
<1>1. PICK i \in DOMAIN call[r].work : Look(r, i) \/ Fetch(r, i) \/ Store(r, i) \/ Break(r, i)
  BY DEF WorkerSteps
<1>2. /\ CacheInv /\ call[r].work[i] \in WorkerType /\ Asn(r, i) \in Asns
      /\ call[r].work[i].step \in {"store", "done"} => call[r].work[i].result \in Found
  <2>1. call[r] \in CallType /\ BatchInv(call[r], r) /\ CacheInv
    BY DEF LookupInv, LookupOK
  <2>2. call[r].work \in Seq(WorkerType)
    BY <2>1 DEF CallType
  <2>3. call[r].work[i] \in WorkerType
    BY <2>2
  <2> QED BY <2>1, <2>3, AsnIs DEF BatchInv
<1>3. CASE Look(r, i)
  <2> DEFINE kept == [a \in Asns |-> IF cache[a].until <= now THEN Missing ELSE cache[a]]
  <2>1. cache' = kept /\ call[r].work[i].step = "look"
    BY <1>3 DEF Look
  <2>2. CacheInv'
    BY <1>2, <2>1 DEF CacheInv
  <2>e. PICK entry : entry = kept[Asn(r, i)]
    OBVIOUS
  <2>3. entry = Missing \/ entry.result \in Found
    BY <1>2, <2>e DEF CacheInv
  <2>4. PICK w : w = IF entry = Missing THEN [Worker EXCEPT !.step = "fetch"]
                     ELSE [step |-> "done", result |-> entry.result]
    OBVIOUS
  <2>5. Turn(r, i, w)
    BY <1>3, <2>e, <2>4 DEF Look
  <2>6. CASE entry = Missing
    <3>1. w \in WorkerType /\ w.step = "fetch"
      BY <2>4, <2>6 DEF Worker, WorkerType
    <3> QED BY <2>1, <2>2, <2>5, <3>1, OneWorker
  <2>7. CASE entry # Missing
    <3>1. w \in WorkerType /\ w.result \in Found
      BY <2>3, <2>4, <2>7 DEF WorkerType, Found
    <3> QED BY <2>1, <2>2, <2>5, <3>1, OneWorker
  <2> QED BY <2>6, <2>7
<1>4. CASE Fetch(r, i)
  <2>1. PICK result \in Results :
          Turn(r, i, [step |-> IF result = Raised THEN "raised" ELSE "store", result |-> result])
    BY <1>4 DEF Fetch
  <2>2. PICK w : w = [step |-> IF result = Raised THEN "raised" ELSE "store", result |-> result]
    OBVIOUS
  <2>3. w \in WorkerType /\ (w.step \in {"store", "done"} => w.result \in Found)
    BY <2>2 DEF WorkerType, Found
  <2>4. CacheInv' /\ call[r].work[i].step # "done"
    BY <1>2, <1>4 DEF Fetch, CacheInv
  <2> QED BY <2>1, <2>2, <2>3, <2>4, OneWorker
<1>5. CASE Store(r, i)
  <2>1. /\ call[r].work[i].step = "store"
        /\ cache' = [cache EXCEPT ![Asn(r, i)] =
                       [result |-> call[r].work[i].result, until |-> now + Ttl]]
        /\ Turn(r, i, [call[r].work[i] EXCEPT !.step = "done"])
    BY <1>5 DEF Store
  <2>2. CacheInv'
    BY <1>2, <2>1 DEF CacheInv
  <2>3. PICK w : w = [call[r].work[i] EXCEPT !.step = "done"]
    OBVIOUS
  <2>4. w \in WorkerType /\ w.result \in Found
    BY <1>2, <2>1, <2>3 DEF WorkerType
  <2> QED BY <2>1, <2>2, <2>3, <2>4, OneWorker
<1>6. CASE Break(r, i)
  <2>1. PICK w : w = [step |-> "raised", result |-> Raised]
    OBVIOUS
  <2>2. w \in WorkerType /\ w.step = "raised"
    BY <2>1 DEF WorkerType
  <2>3. Turn(r, i, w) /\ CacheInv' /\ call[r].work[i].step # "done"
    BY <1>2, <1>6, <2>1 DEF Break, CacheInv
  <2> QED BY <2>2, <2>3, OneWorker
<1> QED BY <1>1, <1>3, <1>4, <1>5, <1>6

LEMMA CallIs ==
  ASSUME LookupInv, NEW r \in Readers
  PROVE  /\ call[r] \in CallType /\ BatchInv(call[r], r) /\ ToldInv(call[r]) /\ EndInv(call[r], r)
         /\ call[r].asked \in Seq(Nat) /\ call[r].work \in Seq(WorkerType)
         /\ call[r].told \in Seq(TellType)
         /\ call[r].first \in Nat \ {0} /\ call[r].read \in Nat
BY DEF LookupInv, LookupOK, CallType

LEMMA IdleType ==
  /\ Idle \in CallType /\ Idle.at = "idle" /\ Idle.asked = <<>> /\ Idle.first = 1 /\ Idle.work = <<>>
  /\ Idle.told = <<>> /\ Idle.read = 0 /\ Idle.end = "none"
<1>1. /\ <<>> \in Seq(TellType) /\ 1 \in Nat \ {0} /\ 0 \in Nat
      /\ <<>> \in Seq(Nat) /\ <<>> \in Seq(WorkerType)
  OBVIOUS
<1>2. Idle \in CallType
  BY <1>1 DEF Idle, CallType
<1>3. /\ Idle.at = "idle" /\ Idle.asked = <<>> /\ Idle.first = 1 /\ Idle.work = <<>>
      /\ Idle.told = <<>> /\ Idle.read = 0 /\ Idle.end = "none"
  BY DEF Idle
<1> QED BY <1>2, <1>3

\* A step that leaves the cache alone.
LEMMA CacheStays == ASSUME LookupInv, cache' = cache PROVE CacheInv'
BY DEF LookupInv, CacheInv

\* Only where the call is, and how it ended.
LEMMA PlaceStep ==
  ASSUME LookupInv, cache' = cache, NEW r \in Readers,
         NEW at_ \in {"gather", "tell", "ended", "raised"},
         NEW end_ \in {"none", "done", "error", "left", "cancelled"},
         Set(r, [call[r] EXCEPT !.at = at_, !.end = end_]), call[r].at # "idle",
         \/ at_ = call[r].at /\ (call[r].end = "cancelled" => end_ = "cancelled")
         \/ /\ at_ = "tell" /\ call[r].at = "gather"
            /\ \A i \in DOMAIN call[r].work : call[r].work[i].step = "done"
         \/ at_ = "raised"
         \/ at_ = "ended" /\ end_ = "cancelled",
         r \in Jobs /\ end_ = "done" => at_ = "ended",
         r \in Streams => end_ \notin {"cancelled"}
                         /\ (end_ = "done" => at_ = "ended" /\ call[r].read = Len(call[r].told))
  PROVE  LookupInv'
<1> DEFINE c == call[r]
           next == [c EXCEPT !.at = at_, !.end = end_]
<1>1. /\ c \in CallType /\ BatchInv(c, r) /\ ToldInv(c)
      /\ c.asked \in Seq(Nat) /\ c.work \in Seq(WorkerType)
      /\ c.told \in Seq(TellType) /\ c.first \in Nat \ {0}
  BY CallIs
<1>2. /\ next \in CallType /\ next.at = at_ /\ next.end = end_
      /\ next.asked = c.asked /\ next.first = c.first /\ next.told = c.told
      /\ next.read = c.read /\ next.work = c.work
  BY <1>1 DEF CallType
<1>3. Set(r, next)
  OBVIOUS
<1> HIDE DEF next
<1>4. BatchInv(next, r)
  BY <1>1, <1>2 DEF BatchInv
<1>5. ToldInv(next)
  <2>1. Len(c.work) \in Nat /\ Len(c.told) \in Nat
    BY <1>1
  <2> QED BY <1>1, <1>2, <2>1 DEF ToldInv
<1>6. EndInv(next, r)
  BY <1>2 DEF EndInv
<1> QED BY <1>2, <1>3, <1>4, <1>5, <1>6, CacheStays, OneReader DEF LookupOK

LEMMA GatherSteps ==
  ASSUME LookupInv, NEW r \in Readers,
         Gathered(r) \/ GatherRaises(r) \/ Leave(r) \/ Cancel(r)
  PROVE  LookupInv'
<1> DEFINE c == call[r]
<1>1. c \in CallType /\ EndInv(c, r) /\ cache' = cache /\ c.at # "idle" /\ ~(r \in Streams /\ r \in Jobs)
  BY CallIs, LookupConstants DEF Gathered, GatherRaises, Leave, Cancel
<1>3. CASE Gathered(r)
  <2>1. /\ c.at = "gather" /\ \A i \in DOMAIN c.work : c.work[i].step = "done"
        /\ Set(r, [c EXCEPT !.at = "tell"])
    BY <1>3 DEF Gathered
  <2>2. PICK end_ \in {"none", "done", "error", "left", "cancelled"} : end_ = c.end
    BY <1>1 DEF CallType
  <2>3. [c EXCEPT !.at = "tell"] = [c EXCEPT !.at = "tell", !.end = end_]
    BY <1>1, <2>2 DEF CallType
  <2>4. Set(r, [c EXCEPT !.at = "tell", !.end = end_])
    BY <2>1, <2>3
  <2>5. end_ # "done" /\ (r \in Streams => end_ # "cancelled")
    BY <1>1, <2>1, <2>2 DEF EndInv, Readers
  <2> QED BY <1>1, <2>1, <2>4, <2>5, PlaceStep
<1>4. CASE GatherRaises(r)
  <2>1. PICK end_ \in {"none", "done", "error", "left", "cancelled"} :
          end_ = IF r \in Jobs THEN "error" ELSE c.end
    BY <1>1 DEF CallType
  <2>2. c.at = "gather" /\ Set(r, [c EXCEPT !.at = "raised", !.end = end_])
    BY <1>4, <2>1 DEF GatherRaises
  <2>3. end_ # "done" /\ (r \in Streams => end_ # "cancelled")
    BY <1>1, <2>1, <2>2 DEF EndInv, Readers
  <2> QED BY <1>1, <2>2, <2>3, PlaceStep
<1>5. CASE Leave(r)
  <2>1. PICK at_ \in {"gather", "tell", "ended", "raised"} : at_ = c.at
    BY <1>1 DEF CallType
  <2>2. r \in Streams /\ c.end = "none" /\ Set(r, [c EXCEPT !.end = "left"])
    BY <1>5 DEF Leave
  <2>3. [c EXCEPT !.end = "left"] = [c EXCEPT !.at = at_, !.end = "left"]
    BY <1>1, <2>1 DEF CallType
  <2>4. Set(r, [c EXCEPT !.at = at_, !.end = "left"])
    BY <2>2, <2>3
  <2> QED BY <1>1, <2>1, <2>2, <2>4, PlaceStep
<1>6. CASE Cancel(r)
  <2>1. r \in Jobs /\ r \notin Streams /\ Set(r, [c EXCEPT !.at = "ended", !.end = "cancelled"])
    BY <1>1, <1>6 DEF Cancel
  <2> QED BY <1>1, <2>1, PlaceStep
<1> QED BY <1>3, <1>4, <1>5, <1>6

LEMMA AskStep == ASSUME LookupInv, NEW r \in Readers, Ask(r) PROVE LookupInv'
<1>1. /\ cache' = cache
      /\ Set(r, [Idle EXCEPT !.at = "gather", !.asked = Lists[r], !.work = Work(Lists[r], 1)])
  BY DEF Ask
<1>2. Lists[r] \in Seq(Nat)
  BY LookupConstants DEF Readers
<1>l. PICK asked_ \in Seq(Nat) : asked_ = Lists[r]
  BY <1>2
<1>w. PICK work_ : work_ = Work(asked_, 1)
  OBVIOUS
<1>3. asked_ = Lists[r] /\ work_ = Work(Lists[r], 1)
  BY <1>l, <1>w
<1>4. /\ work_ \in Seq(WorkerType) /\ Len(work_) = Least(BatchSize, Len(asked_) - 1 + 1)
      /\ 1 + Len(work_) <= Len(asked_) + 1
      /\ \A i \in DOMAIN work_ : work_[i].step = "look"
  <2>1. 1 \in Nat \ {0} /\ 1 <= Len(asked_) + 1
    OBVIOUS
  <2> QED BY <1>3, <2>1, WorkIs
<1> DEFINE next == [Idle EXCEPT !.at = "gather", !.asked = asked_, !.work = work_]
<1>5. Set(r, next)
  BY <1>1, <1>3
<1>6. /\ next \in CallType /\ next.at = "gather" /\ next.asked = asked_ /\ next.work = work_
      /\ next.first = 1 /\ next.told = <<>> /\ next.read = 0 /\ next.end = "none"
  BY <1>4, IdleType DEF CallType
<1> HIDE DEF next
<1>7. BatchInv(next, r)
  BY <1>3, <1>4, <1>6 DEF BatchInv
<1>8. ToldInv(next) /\ EndInv(next, r)
  BY <1>6 DEF ToldInv, EndInv
<1> QED BY <1>1, <1>5, <1>6, <1>7, <1>8, CacheStays, OneReader DEF LookupOK

\* on_progress is given the next ASN of the batch.
LEMMA TellOne ==
  ASSUME LookupInv, NEW r \in Readers, Tell(r),
         Len(call[r].told) - call[r].first + 2 \in DOMAIN call[r].work
  PROVE  LookupInv'
<1> DEFINE c == call[r]
<1>1. /\ c \in CallType /\ BatchInv(c, r) /\ ToldInv(c) /\ EndInv(c, r)
      /\ c.asked \in Seq(Nat) /\ c.work \in Seq(WorkerType)
      /\ c.told \in Seq(TellType) /\ c.first \in Nat \ {0} /\ c.read \in Nat
      /\ cache' = cache /\ c.at = "tell"
  BY CallIs DEF Tell
<1>2. PICK i : i = Len(c.told) - c.first + 2 /\ i \in DOMAIN c.work
  OBVIOUS
<1>3. /\ Set(r, [c EXCEPT !.told = Append(@, [asn |-> Asn(r, i), result |-> c.work[i].result])])
      /\ Asn(r, i) = c.asked[c.first + i - 1]
  BY <1>1, <1>2 DEF Tell, Asn
<1>4. c.work[i].result \in Found /\ c.first + Len(c.work) <= Len(c.asked) + 1
      /\ c.first - 1 <= Len(c.told)
  BY <1>1, <1>2 DEF BatchInv, ToldInv
<1> HIDE DEF c
<1>5. /\ c.first + i - 1 = Len(c.told) + 1 /\ Len(c.told) + 1 \in DOMAIN c.asked
      /\ Len(c.told) + 1 <= c.first - 1 + Len(c.work)
  <2>1. /\ Len(c.told) \in Nat /\ Len(c.work) \in Nat /\ Len(c.asked) \in Nat
        /\ DOMAIN c.asked = 1..Len(c.asked) /\ i \in 1..Len(c.work)
    BY <1>1, <1>2
  <2>2. PICK l \in Nat, w \in Nat, n \in Nat, f \in Nat :
           l = Len(c.told) /\ w = Len(c.work) /\ n = Len(c.asked) /\ f = c.first
    BY <1>1, <2>1
  <2>3. /\ i = l - f + 2 /\ f + w <= n + 1 /\ f - 1 <= l /\ i \in 1..w
    BY <1>2, <1>4, <2>1, <2>2
  <2>4. f + i - 1 = l + 1 /\ l + 1 \in 1..n /\ l + 1 <= f - 1 + w
    BY <2>3
  <2> QED BY <2>1, <2>2, <2>4
<1>6. PICK one \in TellType :
         /\ one = [asn |-> Asn(r, i), result |-> c.work[i].result]
         /\ one.asn = c.asked[Len(c.told) + 1]
  <2>1. Asn(r, i) = c.asked[Len(c.told) + 1]
    BY <1>3, <1>5
  <2>2. Asn(r, i) \in Nat
    BY <1>1, <1>5, <2>1
  <2>3. [asn |-> Asn(r, i), result |-> c.work[i].result] \in TellType
    BY <1>4, <2>2 DEF TellType
  <2> QED BY <2>1, <2>3
<1>7. PICK told_ \in Seq(TellType) :
         /\ told_ = Append(c.told, one) /\ Len(told_) = Len(c.told) + 1
         /\ told_[Len(c.told) + 1] = one /\ \A k \in DOMAIN c.told : told_[k] = c.told[k]
         /\ DOMAIN told_ = DOMAIN c.told \cup {Len(c.told) + 1}
  <2>0. Append(c.told, one) \in Seq(TellType)
    BY <1>1
  <2>1. PICK told_ \in Seq(TellType) : told_ = Append(c.told, one)
    BY <2>0
  <2>2. /\ Len(told_) = Len(c.told) + 1 /\ told_[Len(c.told) + 1] = one
        /\ \A k \in DOMAIN c.told : told_[k] = c.told[k]
    BY <1>1, <2>1
  <2>3. DOMAIN told_ = DOMAIN c.told \cup {Len(c.told) + 1}
    BY <1>1, <2>1, <2>2
  <2> QED BY <2>1, <2>2, <2>3
<1> DEFINE next == [c EXCEPT !.told = told_]
<1>8. Set(r, next)
  BY <1>3, <1>6, <1>7
<1>9. /\ next \in CallType /\ next.told = told_ /\ next.at = c.at /\ next.asked = c.asked
      /\ next.first = c.first /\ next.work = c.work /\ next.read = c.read /\ next.end = c.end
  BY <1>1 DEF CallType
<1> HIDE DEF next
<1>10. BatchInv(next, r)
  BY <1>1, <1>9 DEF BatchInv
<1>11. ToldInv(next)
  <2>1. \A k \in DOMAIN told_ : k \in DOMAIN c.asked /\ told_[k].asn = c.asked[k]
    BY <1>1, <1>5, <1>6, <1>7 DEF ToldInv
  <2>2. c.first - 1 <= Len(told_) /\ Len(told_) <= c.first - 1 + Len(c.work)
    BY <1>1, <1>4, <1>5, <1>7
  <2> QED BY <1>1, <1>9, <2>1, <2>2 DEF ToldInv
<1>12. EndInv(next, r)
  BY <1>1, <1>9 DEF EndInv
<1> QED BY <1>1, <1>8, <1>9, <1>10, <1>11, <1>12, CacheStays, OneReader DEF LookupOK

\* The batch is told: the next one, or the end.
LEMMA TellOn ==
  ASSUME LookupInv, NEW r \in Readers, Tell(r),
         Len(call[r].told) - call[r].first + 2 \notin DOMAIN call[r].work
  PROVE  LookupInv'
<1> DEFINE c == call[r]
<1>1. /\ c \in CallType /\ BatchInv(c, r) /\ ToldInv(c) /\ EndInv(c, r)
      /\ c.asked \in Seq(Nat) /\ c.work \in Seq(WorkerType)
      /\ c.told \in Seq(TellType) /\ c.first \in Nat \ {0} /\ c.read \in Nat
      /\ cache' = cache /\ c.at = "tell" /\ NextBatch(r)
  BY CallIs DEF Tell
<1>2. Len(c.told) = c.first - 1 + Len(c.work)
  <2>1. c.first - 1 <= Len(c.told) /\ Len(c.told) <= c.first - 1 + Len(c.work)
    BY <1>1 DEF ToldInv
  <2>2. Len(c.told) - c.first + 2 \notin 1..Len(c.work)
    BY <1>1
  <2>3. Len(c.told) \in Nat /\ Len(c.work) \in Nat /\ c.first \in Nat
    BY <1>1
  <2>4. PICK l \in Nat, w \in Nat, f \in Nat : l = Len(c.told) /\ w = Len(c.work) /\ f = c.first
    BY <2>3
  <2>5. f - 1 <= l /\ l <= f - 1 + w /\ l - f + 2 \notin 1..w
    BY <2>1, <2>2, <2>4
  <2>6. l = f - 1 + w
    BY <2>5
  <2> QED BY <2>4, <2>6
<1>3. /\ Len(c.work) = Least(BatchSize, Len(c.asked) - c.first + 1)
      /\ c.first + Len(c.work) <= Len(c.asked) + 1
  BY <1>1 DEF BatchInv
<1>4. PICK further \in Nat \ {0} : further = c.first + BatchSize
  BY <1>1, LookupConstants
<1>5. CASE further <= Len(c.asked)
  <2>1. PICK work_ : work_ = Work(c.asked, further)
    OBVIOUS
  <2>2. Set(r, [c EXCEPT !.at = "gather", !.first = further, !.work = work_])
    BY <1>1, <1>4, <1>5, <2>1 DEF NextBatch
  <2> DEFINE next == [c EXCEPT !.at = "gather", !.first = further, !.work = work_]
  <2>3. Set(r, next)
    BY <2>2
  <2> HIDE DEF c
  <2>4. /\ work_ \in Seq(WorkerType) /\ Len(work_) = Least(BatchSize, Len(c.asked) - further + 1)
        /\ further + Len(work_) <= Len(c.asked) + 1
        /\ \A i \in DOMAIN work_ : work_[i].step = "look"
    <3>1. further <= Len(c.asked) + 1
      BY <1>1, <1>5
    <3> QED BY <1>1, <2>1, <3>1, WorkIs
  <2>5. Len(c.told) = further - 1
    <3>1. PICK l \in Nat, w \in Nat, n \in Nat, f \in Nat :
             l = Len(c.told) /\ w = Len(c.work) /\ n = Len(c.asked) /\ f = c.first
      BY <1>1
    <3>2. /\ l = f - 1 + w /\ w = Least(BatchSize, n - f + 1) /\ further = f + BatchSize
          /\ further <= n
      BY <1>2, <1>3, <1>4, <1>5, <3>1
    <3>3. w = BatchSize
      BY <3>2, LookupConstants DEF Least
    <3> QED BY <3>1, <3>2, <3>3, LookupConstants
  <2>6. /\ next \in CallType /\ next.at = "gather" /\ next.first = further /\ next.work = work_
        /\ next.told = c.told /\ next.asked = c.asked /\ next.read = c.read /\ next.end = c.end
    BY <1>1, <2>4 DEF CallType
  <2> HIDE DEF next
  <2>7. BatchInv(next, r)
    BY <1>1, <2>4, <2>6 DEF BatchInv
  <2>8. ToldInv(next)
    BY <1>1, <2>5, <2>6 DEF ToldInv
  <2>9. EndInv(next, r)
    BY <1>1, <2>6 DEF EndInv
  <2> QED BY <1>1, <2>3, <2>6, <2>7, <2>8, <2>9, CacheStays, OneReader DEF LookupOK
<1>6. CASE ~(further <= Len(c.asked))
  <2>1. PICK end_ \in {"none", "done", "error", "left", "cancelled"} :
          end_ = IF r \in Jobs THEN "done" ELSE c.end
    BY <1>1 DEF CallType
  <2> DEFINE next == [c EXCEPT !.at = "ended", !.end = end_]
  <2>2. Set(r, next)
    BY <1>1, <1>4, <1>6, <2>1 DEF NextBatch
  <2>3. /\ next \in CallType /\ next.at = "ended" /\ next.first = c.first /\ next.work = c.work
        /\ next.told = c.told /\ next.asked = c.asked /\ next.read = c.read /\ next.end = end_
    BY <1>1, <2>1 DEF CallType
  <2> HIDE DEF next, c
  <2>4. Len(c.told) = Len(c.asked)
    <3>1. PICK l \in Nat, w \in Nat, n \in Nat, f \in Nat :
             l = Len(c.told) /\ w = Len(c.work) /\ n = Len(c.asked) /\ f = c.first
      BY <1>1
    <3>2. /\ l = f - 1 + w /\ w = Least(BatchSize, n - f + 1) /\ further = f + BatchSize
          /\ ~(further <= n)
      BY <1>2, <1>3, <1>4, <1>6, <3>1
    <3>3. w = n - f + 1
      BY <3>2, LookupConstants DEF Least
    <3> QED BY <3>1, <3>2, <3>3
  <2>5. BatchInv(next, r)
    BY <1>1, <2>3 DEF BatchInv
  <2>6. ToldInv(next)
    BY <1>1, <2>3, <2>4 DEF ToldInv
  <2>7. EndInv(next, r)
    BY <1>1, <2>1, <2>3, LookupConstants DEF EndInv, Readers
  <2> QED BY <1>1, <2>2, <2>3, <2>5, <2>6, <2>7, CacheStays, OneReader DEF LookupOK
<1> QED BY <1>5, <1>6

\* The stream sends what it was told, and ends with the None.
LEMMA ReadStep == ASSUME LookupInv, NEW r \in Readers, Read(r) PROVE LookupInv'
<1> DEFINE c == call[r]
<1>1. /\ c \in CallType /\ BatchInv(c, r) /\ ToldInv(c) /\ EndInv(c, r)
      /\ c.told \in Seq(TellType) /\ c.read \in Nat
      /\ cache' = cache /\ r \in Streams /\ r \notin Jobs /\ c.end = "none"
  BY CallIs, LookupConstants DEF Read
<1>2. CASE c.read < Len(c.told) /\ Set(r, [c EXCEPT !.read = @ + 1])
  <2>1. PICK n \in Nat : n = c.read + 1
    BY <1>1
  <2> DEFINE next == [c EXCEPT !.read = n]
  <2>2. Set(r, next)
    BY <1>2, <2>1
  <2>3. /\ next \in CallType /\ next.at = c.at /\ next.first = c.first /\ next.work = c.work
        /\ next.told = c.told /\ next.asked = c.asked /\ next.end = c.end
    BY <1>1, <2>1 DEF CallType
  <2> HIDE DEF next, c
  <2>4. BatchInv(next, r) /\ ToldInv(next) /\ EndInv(next, r)
    BY <1>1, <2>3 DEF BatchInv, ToldInv, EndInv
  <2> QED BY <1>1, <2>2, <2>3, <2>4, CacheStays, OneReader DEF LookupOK
<1>3. CASE c.read = Len(c.told) /\ c.at = "ended" /\ Set(r, [c EXCEPT !.end = "done"])
  <2>1. [c EXCEPT !.end = "done"] = [c EXCEPT !.at = "ended", !.end = "done"]
    BY <1>1, <1>3 DEF CallType
  <2>2. Set(r, [c EXCEPT !.at = "ended", !.end = "done"])
    BY <1>3, <2>1
  <2> QED BY <1>1, <1>3, <2>2, PlaceStep
<1> QED BY <1>2, <1>3 DEF Read

LEMMA LookupStep == ASSUME LookupInv, Next PROVE LookupInv'
<1>1. CASE \E r \in Readers : Ask(r) \/ WorkerSteps(r) \/ Run(r) \/ Leave(r) \/ Cancel(r)
  BY <1>1, AskStep, WorkersStep, GatherSteps, TellOne, TellOn, ReadStep DEF Run
<1>2. CASE Tick
  BY <1>2 DEF Tick, LookupInv, CacheInv
<1> QED BY <1>1, <1>2 DEF Next

LEMMA LookupRest == ASSUME LookupInv, UNCHANGED asnVars PROVE LookupInv'
BY DEF LookupInv, CacheInv, asnVars

LEMMA LookupBegins == ASSUME Init PROVE LookupInv
<1>1. CacheInv
  BY DEF Init, CacheInv
<1>2. \A r \in Readers : call[r] = Idle
  BY DEF Init
<1>5. \A r : BatchInv(Idle, r) /\ ToldInv(Idle) /\ EndInv(Idle, r)
  BY IdleType DEF BatchInv, ToldInv, EndInv
<1> QED BY <1>1, <1>2, <1>5, IdleType DEF Init, LookupInv, LookupOK

LEMMA LookupFollows == ASSUME LookupInv, NEW r \in Readers PROVE Served(r)
<1>1. /\ ToldInv(call[r]) /\ EndInv(call[r], r) /\ call[r].told \in Seq(TellType)
  BY CallIs
<1>2. \A k \in DOMAIN call[r].told :
         call[r].told[k].asn = call[r].asked[k] /\ call[r].told[k].result \in Results \ {Raised}
  <2>1. \A k \in DOMAIN call[r].told : call[r].told[k] \in TellType
    BY <1>1
  <2> QED BY <1>1, <2>1 DEF ToldInv, Found, TellType
<1>3. Whole(r)
  BY <1>1 DEF ToldInv, EndInv, Whole, Readers
<1> QED BY <1>2, <1>3 DEF Served

\* A look-up tells the ASNs in the order they were asked for, each with what
\* the registries' answers come to, fetched now or from the cache; one that
\* says it is done has told them all, and a stream has sent them all
\* (lookup_asns_batch of arin_lookup.py, POST /api/lookup/stream).  That what
\* they come to is sorted and without repetition, and that look-ups end, is
\* left to TLC.
THEOREM ServedInOrder == Spec => [](\A r \in Readers : Served(r))
<1>1. MCInit => LookupInv
  BY LookupBegins DEF MCInit
<1>2. LookupInv /\ [MCNext]_vars => LookupInv'
  BY StepOf, LookupStep, LookupRest
<1>3. LookupInv => \A r \in Readers : Served(r)
  BY LookupFollows
<1> QED BY <1>1, <1>2, <1>3, PTL DEF Spec
=============================================================================
