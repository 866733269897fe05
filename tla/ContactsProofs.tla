--------------------------- MODULE ContactsProofs ---------------------------
(***************************************************************************)
(* Invariants of Contacts, and the proofs that every statement of a thread *)
(* and every request of the user preserves them.  Contacts has no next     *)
(* step of its own: LeadDiscoveryProofs adds the runs and concludes.       *)
(*                                                                         *)
(* The rows only gain (Grows), so what a thread has made sure of stays so  *)
(* while others work (CallKept); and every call but an import or a save    *)
(* under way is an opening, of which little has to be known (CallOpened).  *)
(***************************************************************************)
EXTENDS Contacts, TLAPS, FiniteSetTheorems

Calling == [at : Steps, todo : Seq(Emails), lead : BOOLEAN, found : BOOLEAN,
            done : SUBSET Emails, own : SUBSET Emails, held : SUBSET Emails,
            ids : SUBSET Nat, new : Seq(Review), base : Seq(Emails),
            lesson : Seq(Emails), ok : BOOLEAN]

\* What the type invariant says of the rows; what it says of a call, and more.
RowsOK ==
    /\ blocked \in Filters
    /\ contacts \in [Emails -> {"none", "plain", "lead"}]
    /\ reviews \in Seq(Review)
    /\ avoid \in Seq(Emails) /\ Len(avoid) <= AvoidLimit
    /\ requests \in 0..MaxRequests
    /\ ever \subseteq Emails /\ spurned \subseteq Emails
    /\ byHand \subseteq DOMAIN reviews

Sound(w) ==
    /\ call[w] \in Calling
    /\ call[w].own \cup call[w].held \subseteq call[w].done
    /\ call[w].ids \subseteq DOMAIN reviews
    /\ call[w].at = "write" => call[w].todo # <<>>
    /\ Len(call[w].base) <= AvoidLimit /\ Len(call[w].lesson) <= 1

\* Addresses whose reviews may be marked as imported.
Sure == ever \cup blocked

EmailsOf(ids) == {reviews[i].email : i \in ids}

\* What a thread has made sure of: the rows it found or inserted are contacts;
\* the reviews it is to mark are among its rows, and sure once it has
\* committed; the reviews it saves as imported are sure.
MadeSure(w) ==
    LET c == call[w] IN
    /\ c.done \subseteq ever \cup c.own
    /\ c.at = "write" /\ c.found => Head(c.todo) \in ever \cup c.own
    /\ c.at \in {"look", "write"} =>
          EmailsOf(c.ids) \subseteq Elems(c.todo) \cup c.done \cup blocked
    /\ c.at \in {"mark", "learn", "teach"} => EmailsOf(c.ids) \subseteq Sure
    /\ c.at = "find" /\ ~c.found => Elems(c.todo) \subseteq Sure
    /\ \A k \in DOMAIN c.new : c.new[k].status = "imported" => c.new[k].email \in Sure

\* What a thread that saves reviews has looked up: no two of its own are for
\* one address, and none has a pending one below the reviews it has seen.
Alone(w, k) ==
    LET new == call[w].new IN
    /\ new[k].looked <= Len(reviews)
    /\ \A i \in DOMAIN reviews :
          /\ i <= new[k].looked /\ reviews[i].email = new[k].email
          /\ reviews[i].status = "pending"
          => i \in byHand
    /\ \A l \in DOMAIN new :
          new[l].status = "pending" /\ new[l].email = new[k].email => k = l

Sought(w) ==
    \A k \in DOMAIN call[w].new : call[w].new[k].status = "pending" => Alone(w, k)

CallInv(w) == Sound(w) /\ MadeSure(w) /\ Sought(w)

CallsInv == call \in [Workers -> Calling] /\ \A w \in Workers : CallInv(w)

ContactIsEver == \A e \in Emails : contacts[e] # "none" => e \in ever

RowsInv == RowsOK /\ ContactIsEver /\ ImportedIsContact /\ OnePending /\ RejectionKept

ContactsInv == RowsInv /\ CallsInv

-----------------------------------------------------------------------------
(* Lemmas about the operators of Contacts.                                 *)

LEMMA Bounds ==
  /\ IsFiniteSet(Emails) /\ Leads \subseteq Known /\ Known \subseteq Emails
  /\ Filters \subseteq SUBSET Emails /\ Runs \cap Users = {}
  /\ AvoidLimit \in Nat \ {0} /\ MaxRequests \in Nat
BY ContactConstants

LEMMA TypesFollow == ASSUME RowsOK, CallsInv PROVE ContactsTypeOK
BY DEF RowsOK, CallsInv, CallInv, Sound, ContactsTypeOK, Calling

LEMMA ReturnedType ==
  ASSUME NEW ok \in BOOLEAN
  PROVE  /\ Returned(ok) \in Calling
         /\ Returned(ok).done = {} /\ Returned(ok).own = {} /\ Returned(ok).held = {}
         /\ Returned(ok).ids = {} /\ Returned(ok).new = <<>> /\ Returned(ok).base = <<>>
         /\ Returned(ok).lesson = <<>> /\ Returned(ok).todo = <<>>
         /\ Returned(ok).at = "idle" /\ Returned(ok).ok = ok
BY DEF Returned, Calling, Steps

LEMMA EmptyElems == Elems(<<>>) = {}
BY DEF Elems

LEMMA ElemsType == ASSUME NEW S, NEW s \in Seq(S) PROVE Elems(s) \subseteq S
BY DEF Elems

\* A sequence that is not empty has its head and its tail's elements.
LEMMA ElemsTail ==
  ASSUME NEW S, NEW s \in Seq(S), s # <<>>
  PROVE  /\ Head(s) \in S /\ Tail(s) \in Seq(S)
         /\ Elems(s) = {Head(s)} \cup Elems(Tail(s))
<1>1. /\ Tail(s) \in Seq(S) /\ Len(Tail(s)) = Len(s) - 1 /\ Len(s) \in Nat \ {0}
      /\ \A i \in 1..(Len(s) - 1) : Tail(s)[i] = s[i + 1]
  OBVIOUS
<1>2. Elems(s) \subseteq {Head(s)} \cup Elems(Tail(s))
  <2> SUFFICES ASSUME NEW i \in DOMAIN s PROVE s[i] \in {Head(s)} \cup Elems(Tail(s))
    BY DEF Elems
  <2>1. CASE i = 1
    BY <2>1
  <2>2. CASE i # 1
    <3>1. i - 1 \in DOMAIN Tail(s) /\ Tail(s)[i - 1] = s[i]
      BY <1>1, <2>2
    <3> QED BY <3>1 DEF Elems
  <2> QED BY <2>1, <2>2
<1>3. {Head(s)} \cup Elems(Tail(s)) \subseteq Elems(s)
  <2>1. Head(s) \in Elems(s)
    BY <1>1 DEF Elems
  <2>2. ASSUME NEW i \in DOMAIN Tail(s) PROVE Tail(s)[i] \in Elems(s)
    <3>1. i + 1 \in DOMAIN s /\ Tail(s)[i] = s[i + 1]
      BY <1>1
    <3> QED BY <3>1 DEF Elems
  <2> QED BY <2>1, <2>2 DEF Elems
<1>4. Head(s) \in S
  BY <1>1
<1> QED BY <1>1, <1>2, <1>3, <1>4

LEMMA OneElement ==
  ASSUME NEW S, NEW s \in Seq(S), Len(s) <= 1, s # <<>>
  PROVE  Len(s) = 1 /\ Head(s) \in S /\ Elems(s) = {Head(s)}
<1>1. Len(s) \in Nat /\ Len(s) # 0
  OBVIOUS
<1>2. Len(s) = 1
  BY <1>1
<1>3. Head(s) = s[1] /\ s[1] \in S /\ DOMAIN s = 1..1
  BY <1>2
<1> QED BY <1>2, <1>3 DEF Elems

\* The rows of an import or a save, in some order.
LEMMA OrdersType ==
  ASSUME NEW S, IsFiniteSet(S), NEW s \in Orders(S)
  PROVE  s \in Seq(S) /\ Elems(s) = S
BY FS_CardinalityType DEF Orders

\* Marking changes neither the addresses nor the order of the reviews.
LEMMA ApproveType ==
  ASSUME NEW rows \in Seq(Review), NEW ids
  PROVE  /\ Approve(rows, ids) \in Seq(Review) /\ Len(Approve(rows, ids)) = Len(rows)
         /\ \A i \in DOMAIN rows :
               /\ Approve(rows, ids)[i].email = rows[i].email
               /\ Approve(rows, ids)[i].looked = rows[i].looked
               /\ Approve(rows, ids)[i].status = (IF i \in ids THEN "imported" ELSE rows[i].status)
<1> DEFINE new == Approve(rows, ids)
<1>1. ASSUME NEW i \in DOMAIN rows
      PROVE  new[i] \in Review /\ new[i].email = rows[i].email /\ new[i].looked = rows[i].looked
             /\ new[i].status = (IF i \in ids THEN "imported" ELSE rows[i].status)
  <2>1. rows[i] \in Review
    OBVIOUS
  <2>2. new[i] = IF i \in ids THEN [rows[i] EXCEPT !.status = "imported"] ELSE rows[i]
    BY DEF Approve
  <2> HIDE DEF new
  <2> QED BY <2>1, <2>2 DEF Review, Statuses
<1>2. DOMAIN new = 1..Len(rows)
  BY DEF Approve
<1>3. new \in [1..Len(rows) -> Review]
  BY <1>1, <1>2 DEF Approve
<1> HIDE DEF new
<1>4. new \in Seq(Review) /\ Len(new) = Len(rows)
  BY <1>3
<1> QED BY <1>1, <1>4 DEF new

\* What the preferences learn: the lesson is in, and of what they held only the
\* last of a full list may go.
LEMMA LearnedType ==
  ASSUME NEW base \in Seq(Emails), Len(base) <= AvoidLimit,
         NEW lesson \in Seq(Emails), Len(lesson) <= 1
  PROVE  /\ Learned(base, lesson) \in Seq(Emails) /\ Len(Learned(base, lesson)) <= AvoidLimit
         /\ Elems(lesson) \subseteq Elems(Learned(base, lesson))
         /\ \A x \in Elems(base) :
               \/ x \in Elems(Learned(base, lesson))
               \/ lesson # <<>> /\ Len(base) = AvoidLimit /\ x = base[AvoidLimit]
<1> DEFINE new == Learned(base, lesson)
           e == Head(lesson)
           longer == <<e>> \o base
<1>1. AvoidLimit \in Nat \ {0} /\ Len(base) \in Nat
  BY Bounds
<1>2. CASE lesson = <<>>
  BY <1>2, EmptyElems DEF Learned
<1>3. CASE lesson # <<>>
  <2>1. Len(lesson) = 1 /\ e \in Emails /\ Elems(lesson) = {e}
    BY <1>3, OneElement
  <2>2. CASE e \in Elems(base)
    <3>1. new = base
      BY <1>3, <2>2 DEF Learned, AppendUnique
    <3> QED BY <2>1, <2>2, <3>1
  <2>3. CASE e \notin Elems(base)
    <3>1. /\ longer \in Seq(Emails) /\ Len(longer) = Len(base) + 1 /\ longer[1] = e
          /\ \A i \in 1..Len(base) : longer[i + 1] = base[i]
      BY <2>1
    <3> HIDE DEF longer, e
    <3>2. CASE Len(longer) <= AvoidLimit
      <4>1. new = longer
        BY <1>3, <2>3, <3>2 DEF Learned, AppendUnique, longer, e
      <4>2. Elems(base) \subseteq Elems(longer) /\ e \in Elems(longer)
        <5>1. e \in Elems(longer)
          BY <1>1, <3>1 DEF Elems
        <5>2. ASSUME NEW i \in DOMAIN base PROVE base[i] \in Elems(longer)
          <6>1. i + 1 \in DOMAIN longer /\ longer[i + 1] = base[i]
            BY <1>1, <3>1
          <6> QED BY <6>1 DEF Elems
        <5> QED BY <5>1, <5>2 DEF Elems
      <4> QED BY <2>1, <3>1, <3>2, <4>1, <4>2
    <3>3. CASE ~(Len(longer) <= AvoidLimit)
      <4>1. Len(base) = AvoidLimit
        BY <1>1, <3>1, <3>3
      <4>2. new = SubSeq(longer, 1, AvoidLimit)
        BY <1>3, <2>3, <3>3 DEF Learned, AppendUnique, longer, e
      <4> HIDE DEF new
      <4>3. new \in Seq(Emails) /\ Len(new) = AvoidLimit
            /\ \A i \in 1..AvoidLimit : new[i] = longer[i]
        BY <1>1, <3>1, <4>1, <4>2
      <4>4. e \in Elems(new)
        BY <1>1, <3>1, <4>3 DEF Elems
      <4>5. ASSUME NEW i \in DOMAIN base, i # AvoidLimit PROVE base[i] \in Elems(new)
        <5>1. i + 1 \in DOMAIN new /\ new[i + 1] = base[i]
          BY <1>1, <3>1, <4>1, <4>3, <4>5
        <5> QED BY <5>1 DEF Elems
      <4>6. \A x \in Elems(base) : x \in Elems(new) \/ x = base[AvoidLimit]
        BY <4>5 DEF Elems
      <4> QED BY <1>3, <2>1, <4>1, <4>3, <4>4, <4>6 DEF new
    <3> QED BY <3>2, <3>3
  <2> QED BY <2>2, <2>3
<1> QED BY <1>2, <1>3

-----------------------------------------------------------------------------
(* Calls while the rows gain.                                              *)

Grows ==
    /\ blocked' = blocked /\ ever \subseteq ever' /\ byHand \subseteq byHand'
    /\ reviews' \in Seq(Review) /\ Len(reviews) <= Len(reviews')
    /\ \A i \in DOMAIN reviews :
          /\ reviews'[i].email = reviews[i].email
          /\ reviews'[i].status = "pending" => reviews[i].status = "pending" \/ i \in byHand'

\* The rows stay.
Still == UNCHANGED <<blocked, contacts, reviews, avoid, ever, byHand, spurned>>

LEMMA StillGrows == ASSUME RowsOK, Still PROVE Grows
BY DEF RowsOK, Still, Grows

LEMMA StillRows ==
  ASSUME RowsInv, Still, requests' \in 0..MaxRequests PROVE RowsInv'
BY DEF RowsInv, RowsOK, Still, ContactIsEver, ImportedIsContact, OnePending, RejectionKept

\* The reviews there were are there, with their addresses.
LEMMA DomainGrows ==
  ASSUME RowsOK, Grows
  PROVE  /\ DOMAIN reviews \subseteq DOMAIN reviews'
         /\ Len(reviews) \in Nat /\ Len(reviews') \in Nat
         /\ \A ids : ids \subseteq DOMAIN reviews => EmailsOf(ids)' = EmailsOf(ids)
         /\ Sure \subseteq Sure'
<1>1. /\ Len(reviews) \in Nat /\ DOMAIN reviews = 1..Len(reviews)
      /\ Len(reviews') \in Nat /\ DOMAIN reviews' = 1..Len(reviews')
  BY DEF RowsOK, Grows
<1>2. DOMAIN reviews \subseteq DOMAIN reviews'
  BY <1>1 DEF Grows
<1>3. ASSUME NEW ids, ids \subseteq DOMAIN reviews PROVE EmailsOf(ids)' = EmailsOf(ids)
  BY <1>3 DEF EmailsOf, Grows
<1> QED BY <1>1, <1>2, <1>3 DEF Sure, Grows

\* A call that is not touched keeps what it has made sure of.
LEMMA CallKept ==
  ASSUME RowsOK, Grows, NEW w \in Workers, call'[w] = call[w], CallInv(w)
  PROVE  CallInv(w)'
<1>1. /\ DOMAIN reviews \subseteq DOMAIN reviews'
      /\ Len(reviews) \in Nat /\ Len(reviews') \in Nat
      /\ EmailsOf(call[w].ids)' = EmailsOf(call[w].ids) /\ Sure \subseteq Sure'
  BY DomainGrows DEF CallInv, Sound
<1>2. Sound(w)'
  BY <1>1 DEF CallInv, Sound
<1>3. MadeSure(w)'
  BY <1>1 DEF CallInv, MadeSure, Sure, Grows
<1>4. Sought(w)'
  <2> SUFFICES ASSUME NEW k \in DOMAIN call[w].new, call[w].new[k].status = "pending"
               PROVE  Alone(w, k)'
    BY DEF Sought
  <2>1. Alone(w, k)
    BY DEF CallInv, Sought
  <2>2. call[w].new[k].looked \in Nat
    <3>1. call[w].new \in Seq(Review)
      BY DEF CallInv, Sound, Calling
    <3>2. call[w].new[k] \in Review
      BY <3>1
    <3> QED BY <3>2 DEF Review
  <2>3. ASSUME NEW i \in DOMAIN reviews', i <= call[w].new[k].looked,
               reviews'[i].email = call[w].new[k].email, reviews'[i].status = "pending"
        PROVE  i \in byHand'
    <3>1. i \in DOMAIN reviews
      BY <1>1, <2>1, <2>2, <2>3 DEF RowsOK, Grows, Alone
    <3> QED BY <2>1, <2>3, <3>1 DEF Grows, Alone
  <2>4. /\ call[w].new[k].looked <= Len(reviews')
        /\ \A l \in DOMAIN call[w].new :
              call[w].new[l].status = "pending" /\ call[w].new[l].email = call[w].new[k].email
                 => k = l
    BY <1>1, <2>1, <2>2 DEF Alone, Grows
  <2> QED BY <2>3, <2>4 DEF Alone
<1> QED BY <1>2, <1>3, <1>4 DEF CallInv

\* What a call starts with, or ends as: nothing handled, nothing looked up, and
\* the reviews to mark among its rows (an import), or sure (all others).
Opening(d, sure) ==
    /\ d \in Calling /\ d.at # "write"
    /\ d.done = {} /\ d.own = {} /\ d.held = {} /\ d.new = <<>> /\ d.base = <<>>
    /\ Len(d.lesson) <= 1 /\ d.ids \subseteq DOMAIN reviews
    /\ d.at = "look" => EmailsOf(d.ids) \subseteq Elems(d.todo)
    /\ d.at \in {"mark", "learn", "teach"} => EmailsOf(d.ids) \subseteq sure
    /\ d.at = "find" /\ ~d.found => Elems(d.todo) \subseteq sure

LEMMA CallOpened ==
  ASSUME RowsOK, Grows, NEW w \in Workers, NEW d, NEW S, Opening(d, S), S \subseteq Sure',
         call'[w] = d
  PROVE  CallInv(w)'
<1>1. /\ DOMAIN reviews \subseteq DOMAIN reviews'
      /\ EmailsOf(d.ids)' = EmailsOf(d.ids)
  BY DomainGrows DEF Opening
<1>2. Sound(w)'
  BY <1>1, Bounds DEF Sound, Opening
<1>3. MadeSure(w)'
  BY <1>1 DEF MadeSure, Opening
<1>4. Sought(w)'
  BY DEF Sought, Opening
<1> QED BY <1>2, <1>3, <1>4 DEF CallInv

\* A step of one thread: its own call and the rows it leaves to the others.
LEMMA OneCall ==
  ASSUME RowsOK, CallsInv, Grows, NEW w \in Workers, NEW d \in Calling, Set(w, d),
         call'[w] = d => CallInv(w)'
  PROVE  CallsInv'
<1>1. call' \in [Workers -> Calling] /\ call'[w] = d
      /\ \A v \in Workers \ {w} : call'[v] = call[v]
  BY DEF CallsInv, Set
<1>2. ASSUME NEW v \in Workers PROVE CallInv(v)'
  BY <1>1, CallKept DEF CallsInv
<1> QED BY <1>1, <1>2 DEF CallsInv

LEMMA Opened ==
  ASSUME RowsOK, CallsInv, Grows, NEW w \in Workers, NEW d, NEW S, Opening(d, S),
         S \subseteq Sure', Set(w, d)
  PROVE  CallsInv'
BY OneCall, CallOpened DEF Opening

LEMMA NoCall == ASSUME RowsOK, CallsInv, Grows, call' = call PROVE CallsInv'
BY CallKept DEF CallsInv

-----------------------------------------------------------------------------
(* The statements of a thread.                                             *)

LEMMA CallFields ==
  ASSUME CallsInv, NEW w \in Workers
  PROVE  /\ CallInv(w) /\ call[w] \in Calling
         /\ call[w].todo \in Seq(Emails) /\ call[w].new \in Seq(Review)
         /\ call[w].base \in Seq(Emails) /\ call[w].lesson \in Seq(Emails)
         /\ call[w].lead \in BOOLEAN /\ call[w].found \in BOOLEAN
         /\ call[w].done \subseteq Emails /\ call[w].own \subseteq Emails
         /\ call[w].held \subseteq Emails /\ call[w].ids \subseteq DOMAIN reviews
BY DEF CallsInv, CallInv, Sound, Calling

LEMMA SameNew ==
  ASSUME Still, NEW w, call'[w].new = call[w].new, Sought(w) PROVE Sought(w)'
BY DEF Still, Sought, Alone

LEMMA ReturnedOpening ==
  ASSUME NEW ok \in BOOLEAN, NEW S PROVE Opening(Returned(ok), S)
BY ReturnedType DEF Opening

\* What follows an import and its feedback is an opening, once the reviews to
\* mark are sure.
LEMMA AfterOpening ==
  ASSUME NEW c \in Calling, c.ids \subseteq DOMAIN reviews, NEW S, EmailsOf(c.ids) \subseteq S
  PROVE  Opening(After(c), S)
<1>1. CASE c.ids = {}
  <2>1. After(c) = Returned(TRUE)
    BY <1>1 DEF After
  <2> QED BY <2>1, ReturnedOpening
<1>2. CASE c.ids # {}
  <2> DEFINE d == [Returned(FALSE) EXCEPT !.at = "mark", !.ids = c.ids]
  <2>1. After(c) = d
    BY <1>2 DEF After
  <2>2. d \in Calling /\ d.at = "mark" /\ d.ids = c.ids /\ d.done = {} /\ d.own = {}
        /\ d.held = {} /\ d.new = <<>> /\ d.base = <<>> /\ d.lesson = <<>>
    <3> DEFINE r == Returned(FALSE)
    <3>1. /\ r \in Calling /\ r.done = {} /\ r.own = {} /\ r.held = {} /\ r.new = <<>>
          /\ r.base = <<>> /\ r.lesson = <<>>
      BY ReturnedType
    <3>2. d = [r EXCEPT !.at = "mark", !.ids = c.ids] /\ c.ids \in SUBSET Nat
      BY DEF Calling
    <3> HIDE DEF r, d
    <3> QED BY <3>1, <3>2 DEF Calling, Steps
  <2> HIDE DEF d
  <2> QED BY <2>1, <2>2 DEF Opening
<1> QED BY <1>1, <1>2

LEMMA LookStep == ASSUME ContactsInv, NEW w \in Workers, Look(w) PROVE ContactsInv' /\ Grows
<1> DEFINE c == call[w]
           e == Head(c.todo)
           d == IF Allowed(e)
                THEN [c EXCEPT !.at = "write", !.found = contacts[e] # "none" \/ e \in c.own]
                ELSE [c EXCEPT !.todo = Tail(@)]
<1>1. /\ c.at = "look" /\ c.todo # <<>> /\ Set(w, d) /\ Still /\ requests' = requests
  BY DEF Look, Still
<1>2. RowsInv' /\ Grows
  BY <1>1, StillRows, StillGrows DEF ContactsInv, RowsInv, RowsOK
<1>3. /\ c \in Calling /\ Sound(w) /\ MadeSure(w) /\ Sought(w)
      /\ e \in Emails /\ Tail(c.todo) \in Seq(Emails) /\ Elems(c.todo) = {e} \cup Elems(Tail(c.todo))
  BY <1>1, CallFields, ElemsTail DEF ContactsInv, CallInv
<1>4. d \in Calling
  BY <1>1, <1>3 DEF Calling, Steps
<1>5. /\ d.ids = c.ids /\ d.done = c.done /\ d.own = c.own /\ d.held = c.held /\ d.new = c.new
      /\ d.base = c.base /\ d.lesson = c.lesson
  BY <1>3 DEF Calling
<1>6. ASSUME call'[w] = d PROVE CallInv(w)'
  <2>1. Sound(w)'
    <3>1. d.at = "write" => d.todo # <<>>
      BY <1>1, <1>3 DEF Calling
    <3> HIDE DEF d
    <3> QED BY <1>1, <1>3, <1>4, <1>5, <1>6, <3>1 DEF Sound, Still
  <2>2. MadeSure(w)'
    <3>1. CASE Allowed(e)
      <4>1. d.at = "write" /\ d.todo = c.todo /\ (d.found => e \in ever \cup c.own)
        BY <1>3, <3>1 DEF Calling, ContactsInv, RowsInv, ContactIsEver
      <4> HIDE DEF d
      <4> QED BY <1>1, <1>3, <1>5, <1>6, <4>1 DEF MadeSure, Still, Sure, EmailsOf
    <3>2. CASE ~Allowed(e)
      <4>1. d.at = "look" /\ d.todo = Tail(c.todo) /\ e \in blocked
        BY <1>1, <1>3, <3>2 DEF Calling, Allowed
      <4> HIDE DEF d
      <4> QED BY <1>1, <1>3, <1>5, <1>6, <4>1 DEF MadeSure, Still, Sure, EmailsOf
    <3> QED BY <3>1, <3>2
  <2>3. Sought(w)'
    BY <1>1, <1>3, <1>5, <1>6, SameNew
  <2> QED BY <2>1, <2>2, <2>3 DEF CallInv
<1> HIDE DEF d
<1>7. CallsInv'
  BY <1>1, <1>2, <1>4, <1>6, OneCall DEF ContactsInv, RowsInv
<1> QED BY <1>2, <1>7 DEF ContactsInv

\* A thread that ends its call, or opens one, and leaves the rows alone.
LEMMA OpenedStill ==
  ASSUME ContactsInv, NEW w \in Workers, NEW d, Opening(d, Sure), Set(w, d), Still,
         requests' \in 0..MaxRequests
  PROVE  ContactsInv' /\ Grows
<1>1. RowsInv' /\ Grows /\ Sure' = Sure
  BY StillRows, StillGrows DEF ContactsInv, RowsInv, Still, Sure
<1> QED BY <1>1, Opened DEF ContactsInv, RowsInv

\* A step of one thread that leaves the rows alone.
LEMMA OneCallStill ==
  ASSUME ContactsInv, NEW w \in Workers, NEW d \in Calling, Set(w, d), Still,
         requests' \in 0..MaxRequests, call'[w] = d => CallInv(w)'
  PROVE  ContactsInv' /\ Grows
BY StillRows, StillGrows, OneCall DEF ContactsInv, RowsInv

LEMMA WriteStep == ASSUME ContactsInv, NEW w \in Workers, Write(w) PROVE ContactsInv' /\ Grows
<1> DEFINE c == call[w]
           e == Head(c.todo)
           next == [c EXCEPT !.at = "look", !.todo = Tail(@), !.done = @ \cup {e}]
<1>1. /\ c.at = "write" /\ Still /\ requests' = requests /\ requests' \in 0..MaxRequests
  BY DEF Write, Still, ContactsInv, RowsInv, RowsOK
<1>2. /\ c \in Calling /\ Sound(w) /\ MadeSure(w) /\ Sought(w)
  BY CallFields DEF ContactsInv, CallInv
<1>3. c.todo # <<>> /\ c.todo \in Seq(Emails)
  BY <1>1, <1>2, CallFields DEF Sound, ContactsInv
<1>4. e \in Emails /\ Tail(c.todo) \in Seq(Emails) /\ Elems(c.todo) = {e} \cup Elems(Tail(c.todo))
  BY <1>3, ElemsTail
<1>5. ASSUME NEW own \in SUBSET Emails, NEW held \in SUBSET Emails,
             Set(w, [next EXCEPT !.own = own, !.held = held]),
             c.own \subseteq own, own \cup held \subseteq c.done \cup {e}, e \in ever \cup own
      PROVE  ContactsInv' /\ Grows
  <2> DEFINE d == [next EXCEPT !.own = own, !.held = held]
  <2>1. /\ d \in Calling /\ d.at = "look" /\ d.todo = Tail(c.todo) /\ d.done = c.done \cup {e}
        /\ d.own = own /\ d.held = held /\ d.ids = c.ids /\ d.new = c.new /\ d.base = c.base
        /\ d.lesson = c.lesson
    BY <1>2, <1>4 DEF Calling, Steps
  <2> HIDE DEF d, next
  <2>2. ASSUME call'[w] = d PROVE CallInv(w)'
    <3>1. Sound(w)'
      BY <1>1, <1>2, <1>5, <2>1, <2>2 DEF Sound, Still
    <3>2. MadeSure(w)'
      BY <1>1, <1>2, <1>4, <1>5, <2>1, <2>2 DEF MadeSure, Still, Sure, EmailsOf
    <3>3. Sought(w)'
      BY <1>1, <1>2, <2>1, <2>2, SameNew
    <3> QED BY <3>1, <3>2, <3>3 DEF CallInv
  <2> QED BY <1>1, <1>5, <2>1, <2>2, OneCallStill DEF d
<1>6. c.own \cup c.held \subseteq c.done /\ c.done \subseteq Emails /\ c.done \subseteq ever \cup c.own
      /\ (c.found => e \in ever \cup c.own)
      /\ next = [next EXCEPT !.own = c.own, !.held = c.held]
  BY <1>1, <1>2 DEF Sound, MadeSure, Calling
<1>7. CASE c.found /\ Set(w, [next EXCEPT !.held = @ \cup {e}])
  <2>1. [next EXCEPT !.held = @ \cup {e}] = [next EXCEPT !.own = c.own, !.held = c.held \cup {e}]
    BY <1>2 DEF Calling
  <2> HIDE DEF next
  <2>2. /\ c.own \in SUBSET Emails /\ (c.held \cup {e}) \in SUBSET Emails
        /\ c.own \subseteq c.own /\ c.own \cup (c.held \cup {e}) \subseteq c.done \cup {e}
        /\ e \in ever \cup c.own
    BY <1>4, <1>6, <1>7
  <2>3. Set(w, [next EXCEPT !.own = c.own, !.held = (c.held \cup {e})])
    BY <1>7, <2>1
  <2> QED BY <1>5, <2>2, <2>3
<1>8. CASE c.found /\ Set(w, next)
  <2> HIDE DEF next
  <2>2. /\ c.own \in SUBSET Emails /\ c.held \in SUBSET Emails
        /\ c.own \subseteq c.own /\ c.own \cup c.held \subseteq c.done \cup {e}
        /\ e \in ever \cup c.own
    BY <1>4, <1>6, <1>8
  <2>3. Set(w, [next EXCEPT !.own = c.own, !.held = c.held])
    BY <1>6, <1>8
  <2> QED BY <1>5, <2>2, <2>3
<1>9. CASE ~c.found /\ Set(w, [next EXCEPT !.own = @ \cup {e}])
  <2>1. [next EXCEPT !.own = @ \cup {e}] = [next EXCEPT !.own = c.own \cup {e}, !.held = c.held]
    BY <1>2 DEF Calling
  <2> HIDE DEF next
  <2>2. /\ (c.own \cup {e}) \in SUBSET Emails /\ c.held \in SUBSET Emails
        /\ c.own \subseteq (c.own \cup {e}) /\ (c.own \cup {e}) \cup c.held \subseteq c.done \cup {e}
        /\ e \in ever \cup (c.own \cup {e})
    BY <1>4, <1>6, <1>9
  <2>3. Set(w, [next EXCEPT !.own = (c.own \cup {e}), !.held = c.held])
    BY <1>9, <2>1
  <2> QED BY <1>5, <2>2, <2>3
<1>10. CASE Set(w, Failed(c))
  BY <1>1, <1>10, ReturnedOpening, OpenedStill DEF Failed
<1> QED BY <1>7, <1>8, <1>9, <1>10 DEF Write

LEMMA DeadlockStep == ASSUME ContactsInv, NEW w \in Workers, Deadlock(w) PROVE ContactsInv' /\ Grows
<1>1. Still /\ Set(w, Returned(FALSE)) /\ requests' \in 0..MaxRequests
  BY DEF Deadlock, Failed, Still, ContactsInv, RowsInv, RowsOK
<1> QED BY <1>1, ReturnedOpening, OpenedStill

LEMMA LearnStep == ASSUME ContactsInv, NEW w \in Workers, Learn(w) PROVE ContactsInv' /\ Grows
<1> DEFINE c == call[w]
           d == [c EXCEPT !.at = "teach", !.base = avoid]
<1>1. c.at = "learn" /\ Set(w, d) /\ Still /\ requests' \in 0..MaxRequests
  BY DEF Learn, Still, ContactsInv, RowsInv, RowsOK
<1>2. /\ c \in Calling /\ Sound(w) /\ MadeSure(w) /\ Sought(w)
      /\ avoid \in Seq(Emails) /\ Len(avoid) <= AvoidLimit
  BY CallFields DEF ContactsInv, CallInv, RowsInv, RowsOK
<1>3. /\ d \in Calling /\ d.at = "teach" /\ d.todo = c.todo /\ d.done = c.done
      /\ d.own = c.own /\ d.held = c.held /\ d.ids = c.ids /\ d.new = c.new /\ d.base = avoid
      /\ d.lesson = c.lesson
  BY <1>2 DEF Calling, Steps
<1> HIDE DEF d
<1>4. ASSUME call'[w] = d PROVE CallInv(w)'
  <2>1. Sound(w)'
    BY <1>1, <1>2, <1>3, <1>4 DEF Sound, Still
  <2>2. MadeSure(w)'
    BY <1>1, <1>2, <1>3, <1>4 DEF MadeSure, Still, Sure, EmailsOf
  <2>3. Sought(w)'
    BY <1>1, <1>2, <1>3, <1>4, SameNew
  <2> QED BY <2>1, <2>2, <2>3 DEF CallInv
<1> QED BY <1>1, <1>3, <1>4, OneCallStill

\* Marking sure reviews as imported.
LEMMA ReviewsMarked ==
  ASSUME RowsInv, NEW ids, reviews' = Approve(reviews, ids), blocked' = blocked,
         byHand' = byHand, ever \subseteq ever',
         \A i \in DOMAIN reviews : i \in ids => reviews[i].email \in Sure'
  PROVE  /\ Grows /\ ImportedIsContact' /\ OnePending'
         /\ reviews' \in Seq(Review) /\ byHand' \subseteq DOMAIN reviews'
<1>1. /\ reviews \in Seq(Review) /\ reviews' \in Seq(Review) /\ Len(reviews') = Len(reviews)
      /\ \A i \in DOMAIN reviews :
            /\ reviews'[i].email = reviews[i].email /\ reviews'[i].looked = reviews[i].looked
            /\ reviews'[i].status = (IF i \in ids THEN "imported" ELSE reviews[i].status)
  BY ApproveType DEF RowsInv, RowsOK
<1>2. DOMAIN reviews' = DOMAIN reviews
  BY <1>1
<1>3. Grows
  BY <1>1 DEF Grows
<1>4. ImportedIsContact'
  <2> SUFFICES ASSUME NEW i \in DOMAIN reviews, reviews'[i].status = "imported"
               PROVE  reviews'[i].email \in ever' \cup blocked' \/ i \in byHand'
    BY <1>2 DEF ImportedIsContact
  <2>1. CASE i \in ids
    BY <1>1, <2>1 DEF Sure
  <2>2. CASE i \notin ids
    BY <1>1, <2>2 DEF RowsInv, ImportedIsContact
  <2> QED BY <2>1, <2>2
<1>5. OnePending'
  BY <1>1, <1>2 DEF RowsInv, OnePending
<1> QED BY <1>1, <1>2, <1>3, <1>4, <1>5 DEF RowsInv, RowsOK

LEMMA CommitStep == ASSUME ContactsInv, NEW w \in Workers, Commit(w) PROVE ContactsInv' /\ Grows
<1> DEFINE c == call[w]
           handled == {i \in DOMAIN reviews :
                          reviews[i].status = "pending" /\ reviews[i].email \in c.done}
           learn == [Returned(FALSE) EXCEPT !.at = "learn", !.ids = c.ids]
           d == IF c.own # {} /\ c.lead THEN learn ELSE After(c)
<1>1. /\ c.at = "look" /\ c.todo = <<>> /\ Set(w, d)
      /\ contacts' = [e \in Emails |->
            IF e \in c.own THEN IF c.lead THEN "lead" ELSE "plain"
            ELSE IF e \in c.held /\ c.lead THEN "lead" ELSE contacts[e]]
      /\ reviews' = Approve(reviews, handled) /\ ever' = ever \cup c.own
      /\ UNCHANGED <<blocked, avoid, requests, byHand, spurned>>
  BY DEF Commit
<1>2. /\ c \in Calling /\ c.done \subseteq ever' /\ c.own \subseteq Emails
      /\ c.ids \subseteq DOMAIN reviews /\ c.held \subseteq c.done /\ c.own \subseteq c.done
      /\ EmailsOf(c.ids) \subseteq Sure'
  <2>1. /\ c \in Calling /\ Sound(w) /\ MadeSure(w) /\ c.own \subseteq Emails
        /\ c.ids \subseteq DOMAIN reviews
    BY CallFields DEF ContactsInv, CallInv
  <2>2. Elems(c.todo) = {}
    BY <1>1, EmptyElems
  <2> QED BY <1>1, <2>1, <2>2 DEF Sound, MadeSure, Sure
<1>3. /\ Grows /\ ImportedIsContact' /\ OnePending'
      /\ reviews' \in Seq(Review) /\ byHand' \subseteq DOMAIN reviews'
  <2>1. \A i \in DOMAIN reviews : i \in handled => reviews[i].email \in Sure'
    BY <1>2 DEF Sure
  <2> HIDE DEF handled
  <2>2. /\ reviews' = Approve(reviews, handled) /\ blocked' = blocked /\ byHand' = byHand
        /\ ever \subseteq ever'
    BY <1>1
  <2> QED BY <2>1, <2>2, ReviewsMarked DEF ContactsInv
<1> HIDE DEF handled, d
<1>4. contacts' \in [Emails -> {"none", "plain", "lead"}] /\ ever' \subseteq Emails
  <2>1. contacts \in [Emails -> {"none", "plain", "lead"}] /\ ever \subseteq Emails
    BY DEF ContactsInv, RowsInv, RowsOK
  <2> QED BY <1>1, <1>2, <2>1
<1>5. RowsOK'
  BY <1>1, <1>3, <1>4 DEF ContactsInv, RowsInv, RowsOK
<1>6. ContactIsEver'
  BY <1>1, <1>2 DEF ContactsInv, RowsInv, ContactIsEver
<1>7. RejectionKept'
  BY <1>1 DEF ContactsInv, RowsInv, RejectionKept
<1>8. Opening(d, Sure')
  <2>1. CASE c.own # {} /\ c.lead
    <3>1. d = learn
      BY <2>1 DEF d
    <3>2. /\ learn \in Calling /\ learn.at = "learn" /\ learn.ids = c.ids /\ learn.done = {}
          /\ learn.own = {} /\ learn.held = {} /\ learn.new = <<>> /\ learn.base = <<>>
          /\ learn.lesson = <<>>
      <4> DEFINE r == Returned(FALSE)
      <4>1. /\ r \in Calling /\ r.done = {} /\ r.own = {} /\ r.held = {} /\ r.new = <<>>
            /\ r.base = <<>> /\ r.lesson = <<>>
        BY ReturnedType
      <4>2. learn = [r EXCEPT !.at = "learn", !.ids = c.ids] /\ c.ids \in SUBSET Nat
        BY <1>2 DEF Calling
      <4> HIDE DEF r, learn
      <4> QED BY <4>1, <4>2 DEF Calling, Steps
    <3> HIDE DEF learn
    <3> QED BY <1>2, <3>1, <3>2 DEF Opening
  <2>2. CASE ~(c.own # {} /\ c.lead)
    <3>1. d = After(c)
      BY <2>2 DEF d
    <3> QED BY <1>2, <3>1, AfterOpening
  <2> QED BY <2>1, <2>2
<1>9. CallsInv'
  BY <1>1, <1>3, <1>8, Opened DEF ContactsInv, RowsInv
<1> QED BY <1>3, <1>5, <1>6, <1>7, <1>9 DEF ContactsInv, RowsInv

LEMMA MarkStep == ASSUME ContactsInv, NEW w \in Workers, Mark(w) PROVE ContactsInv' /\ Grows
<1> DEFINE ids == call[w].ids
<1>1. /\ call[w].at = "mark" /\ reviews' = Approve(reviews, ids) /\ Set(w, Returned(TRUE))
      /\ UNCHANGED <<blocked, contacts, avoid, requests, ever, byHand, spurned>>
  BY DEF Mark
<1>2. EmailsOf(ids) \subseteq Sure /\ Sure' = Sure
  BY <1>1, CallFields DEF ContactsInv, CallInv, MadeSure, Sure
<1>3. /\ Grows /\ ImportedIsContact' /\ OnePending'
      /\ reviews' \in Seq(Review) /\ byHand' \subseteq DOMAIN reviews'
  <2>1. \A i \in DOMAIN reviews : i \in ids => reviews[i].email \in Sure'
    BY <1>2 DEF EmailsOf
  <2> HIDE DEF ids
  <2> QED BY <1>1, <2>1, ReviewsMarked DEF ContactsInv
<1>4. RowsOK' /\ ContactIsEver' /\ RejectionKept'
  BY <1>1, <1>3 DEF ContactsInv, RowsInv, RowsOK, ContactIsEver, RejectionKept
<1>5. CallsInv'
  BY <1>1, <1>3, ReturnedOpening, Opened DEF ContactsInv, RowsInv
<1> QED BY <1>3, <1>4, <1>5 DEF ContactsInv, RowsInv

LEMMA TeachStep == ASSUME ContactsInv, NEW w \in Workers, Teach(w) PROVE ContactsInv' /\ Grows
<1> DEFINE c == call[w]
           written == Learned(c.base, c.lesson)
           overtaken == Elems(avoid) \ Elems(c.base)
           fallen == IF c.lesson # <<>> /\ Len(c.base) = AvoidLimit
                     THEN {c.base[AvoidLimit]} ELSE {}
<1>1. /\ c.at = "teach" /\ avoid' = written /\ Set(w, After(c))
      /\ spurned' = (spurned \ (overtaken \cup fallen)) \cup Elems(c.lesson)
      /\ UNCHANGED <<blocked, contacts, reviews, requests, ever, byHand>>
  BY DEF Teach
<1>2. /\ c \in Calling /\ c.base \in Seq(Emails) /\ c.lesson \in Seq(Emails)
      /\ Len(c.base) <= AvoidLimit /\ Len(c.lesson) <= 1
      /\ c.ids \subseteq DOMAIN reviews /\ EmailsOf(c.ids) \subseteq Sure
  BY <1>1, CallFields DEF ContactsInv, CallInv, Sound, MadeSure
<1> HIDE DEF c
<1>3. /\ written \in Seq(Emails) /\ Len(written) <= AvoidLimit
      /\ Elems(c.lesson) \subseteq Elems(written)
      /\ \A x \in Elems(c.base) :
            \/ x \in Elems(written)
            \/ c.lesson # <<>> /\ Len(c.base) = AvoidLimit /\ x = c.base[AvoidLimit]
  BY <1>2, LearnedType
<1> HIDE DEF written
<1>4. spurned' \subseteq Elems(avoid')
  <2>1. spurned \subseteq Elems(avoid)
    BY DEF ContactsInv, RowsInv, RejectionKept
  <2>2. spurned \ (overtaken \cup fallen) \subseteq Elems(written)
    BY <1>3, <2>1
  <2> QED BY <1>1, <1>3, <2>2
<1>5. spurned' \subseteq Emails
  BY <1>1, <1>3, <1>4, ElemsType
<1>6. RowsOK' /\ ContactIsEver' /\ ImportedIsContact' /\ OnePending' /\ RejectionKept' /\ Grows
  BY <1>1, <1>3, <1>4, <1>5
     DEF ContactsInv, RowsInv, RowsOK, ContactIsEver, ImportedIsContact, OnePending,
         RejectionKept, Grows
<1>7. Opening(After(c), Sure) /\ Sure' = Sure
  BY <1>1, <1>2, AfterOpening DEF Sure
<1>8. CallsInv'
  BY <1>1, <1>6, <1>7, Opened DEF ContactsInv, RowsInv
<1> QED BY <1>6, <1>8 DEF ContactsInv, RowsInv

LEMMA FindStep == ASSUME ContactsInv, NEW w \in Workers, Find(w) PROVE ContactsInv' /\ Grows
<1> DEFINE c == call[w]
           e == Head(c.todo)
           row == [email |-> e, looked |-> Len(reviews),
                   status |-> IF c.found THEN "pending" ELSE "imported"]
           more == IF Pending(e, w) THEN c.new ELSE Append(c.new, row)
           d == [c EXCEPT !.todo = Tail(@), !.new = more]
<1>1. /\ c.at = "find" /\ c.todo # <<>> /\ Still /\ requests' = requests
      /\ requests' \in 0..MaxRequests
  BY DEF Find, Still, ContactsInv, RowsInv, RowsOK
<1>2. /\ c \in Calling /\ Sound(w) /\ MadeSure(w) /\ Sought(w)
      /\ e \in Emails /\ Tail(c.todo) \in Seq(Emails) /\ Elems(c.todo) = {e} \cup Elems(Tail(c.todo))
      /\ c.new \in Seq(Review) /\ c.found \in BOOLEAN
  BY <1>1, CallFields, ElemsTail DEF ContactsInv, CallInv
<1>3. Set(w, d)
  <2>1. CASE Pending(e, w)
    <3>1. [c EXCEPT !.todo = Tail(@)] = d
      BY <1>2, <2>1 DEF Calling
    <3> QED BY <2>1, <3>1 DEF Find
  <2>2. CASE ~Pending(e, w)
    <3>1. [c EXCEPT !.todo = Tail(@), !.new = Append(@, row)] = d
      BY <2>2
    <3> QED BY <2>2, <3>1 DEF Find
  <2> QED BY <2>1, <2>2
<1>4. row \in Review /\ Len(reviews) \in Nat /\ reviews \in Seq(Review)
  BY <1>2 DEF Review, Statuses, ContactsInv, RowsInv, RowsOK
<1>5. more \in Seq(Review)
  BY <1>2, <1>4
<1>6. /\ d \in Calling /\ d.at = "find" /\ d.todo = Tail(c.todo) /\ d.new = more
      /\ d.found = c.found /\ d.done = c.done /\ d.own = c.own /\ d.held = c.held
      /\ d.ids = c.ids /\ d.base = c.base /\ d.lesson = c.lesson
  BY <1>1, <1>2, <1>5 DEF Calling, Steps
<1>7. \A k \in DOMAIN more :
         \/ k \in DOMAIN c.new /\ more[k] = c.new[k]
         \/ ~Pending(e, w) /\ k = Len(c.new) + 1 /\ more[k] = row
  <2> HIDE DEF row
  <2> QED BY <1>2, <1>4
<1> HIDE DEF d, more
<1>8. ASSUME call'[w] = d PROVE CallInv(w)'
  <2>1. Sound(w)'
    BY <1>1, <1>2, <1>6, <1>8 DEF Sound, Still
  <2>2. MadeSure(w)'
    <3>1. \A k \in DOMAIN more : more[k].status = "imported" => more[k].email \in Sure
      <4>1. row.status = "imported" => row.email \in Sure
        BY <1>1, <1>2 DEF MadeSure
      <4>2. \A k \in DOMAIN c.new : c.new[k].status = "imported" => c.new[k].email \in Sure
        BY <1>2 DEF MadeSure
      <4> HIDE DEF row
      <4> QED BY <1>7, <4>1, <4>2
    <3> QED BY <1>1, <1>2, <1>6, <1>8, <3>1 DEF MadeSure, Still, Sure, EmailsOf
  <2>3. Sought(w)'
    <3> SUFFICES ASSUME NEW k \in DOMAIN more, more[k].status = "pending"
                 PROVE  Alone(w, k)'
      BY <1>6, <1>8 DEF Sought
    <3>1. CASE k \in DOMAIN c.new /\ more[k] = c.new[k]
      <4>1. Alone(w, k)
        BY <1>2, <3>1 DEF Sought
      <4>2. ASSUME NEW l \in DOMAIN more, more[l].status = "pending", more[l].email = more[k].email
            PROVE  k = l
        <5>1. CASE l \in DOMAIN c.new /\ more[l] = c.new[l]
          BY <3>1, <4>1, <4>2, <5>1 DEF Alone
        <5>2. CASE ~Pending(e, w) /\ more[l] = row
          BY <3>1, <4>2, <5>2 DEF Pending
        <5> QED BY <1>7, <5>1, <5>2
      <4>3. more[k].looked <= Len(reviews)
            /\ \A i \in DOMAIN reviews :
                  /\ i <= more[k].looked /\ reviews[i].email = more[k].email
                  /\ reviews[i].status = "pending"
                  => i \in byHand
        BY <3>1, <4>1 DEF Alone
      <4> QED BY <1>1, <1>6, <1>8, <4>2, <4>3 DEF Alone, Still
    <3>2. CASE ~Pending(e, w) /\ k = Len(c.new) + 1 /\ more[k] = row
      <4>1. more[k].email = e /\ more[k].looked = Len(reviews) /\ Len(reviews) <= Len(reviews)
        BY <1>4, <3>2
      <4>2. ASSUME NEW l \in DOMAIN more, more[l].status = "pending", more[l].email = e
            PROVE  k = l
        <5>1. CASE l \in DOMAIN c.new /\ more[l] = c.new[l]
          BY <3>2, <4>2, <5>1 DEF Pending
        <5> QED BY <1>7, <3>2, <5>1
      <4>3. ASSUME NEW i \in DOMAIN reviews, reviews[i].email = e, reviews[i].status = "pending"
            PROVE  FALSE
        BY <3>2, <4>3 DEF Pending
      <4> QED BY <1>1, <1>6, <1>8, <4>1, <4>2, <4>3 DEF Alone, Still
    <3> QED BY <1>7, <3>1, <3>2
  <2> QED BY <2>1, <2>2, <2>3 DEF CallInv
<1> QED BY <1>1, <1>3, <1>6, <1>8, OneCallStill

LEMMA KeepStep == ASSUME ContactsInv, NEW w \in Workers, Keep(w) PROVE ContactsInv' /\ Grows
<1> DEFINE new == call[w].new
           n == Len(reviews)
<1>1. /\ reviews' = reviews \o new /\ Set(w, Returned(TRUE))
      /\ UNCHANGED <<blocked, contacts, avoid, requests, ever, byHand, spurned>>
  BY DEF Keep
<1>2. /\ reviews \in Seq(Review) /\ new \in Seq(Review) /\ n \in Nat
      /\ byHand \subseteq DOMAIN reviews /\ MadeSure(w) /\ Sought(w)
  BY CallFields DEF ContactsInv, CallInv, RowsInv, RowsOK
<1> HIDE DEF new
<1>3. /\ reviews' \in Seq(Review) /\ n <= Len(reviews')
      /\ \A i \in DOMAIN reviews : i \in DOMAIN reviews' /\ reviews'[i] = reviews[i]
      /\ \A i \in DOMAIN reviews' \ DOMAIN reviews :
            i > n /\ i - n \in DOMAIN new /\ reviews'[i] = new[i - n]
      /\ \A i \in DOMAIN reviews : i \in Nat /\ i <= n
      /\ \A i \in DOMAIN reviews' : i \in Nat
  BY <1>1, <1>2
<1>4. Grows
  BY <1>1, <1>3 DEF Grows
<1>5. RowsOK' /\ ContactIsEver' /\ RejectionKept'
  BY <1>1, <1>2, <1>3 DEF ContactsInv, RowsInv, RowsOK, ContactIsEver, RejectionKept
<1>6. ImportedIsContact'
  <2> SUFFICES ASSUME NEW i \in DOMAIN reviews', reviews'[i].status = "imported"
               PROVE  reviews'[i].email \in ever \cup blocked \/ i \in byHand
    BY <1>1 DEF ImportedIsContact
  <2>1. CASE i \in DOMAIN reviews
    BY <1>3, <2>1 DEF ContactsInv, RowsInv, ImportedIsContact
  <2>2. CASE i \notin DOMAIN reviews
    BY <1>2, <1>3, <2>2 DEF MadeSure, Sure, new
  <2> QED BY <2>1, <2>2
<1>7. OnePending'
  <2> SUFFICES ASSUME NEW i \in DOMAIN reviews', NEW j \in DOMAIN reviews', i < j,
                      reviews'[i].email = reviews'[j].email,
                      reviews'[i].status = "pending", reviews'[j].status = "pending"
               PROVE  reviews'[j].looked < i \/ {i, j} \cap byHand # {}
    BY <1>1 DEF OnePending
  <2>1. CASE j \in DOMAIN reviews
    <3>1. i \in DOMAIN reviews
      BY <1>2, <1>3, <2>1
    <3> QED BY <1>3, <2>1, <3>1 DEF ContactsInv, RowsInv, OnePending
  <2>2. CASE i \in DOMAIN reviews /\ j \notin DOMAIN reviews
    <3>1. j - n \in DOMAIN new /\ reviews'[j] = new[j - n] /\ reviews'[i] = reviews[i]
      BY <1>3, <2>2
    <3>2. Alone(w, j - n) /\ new[j - n].looked \in Nat
      <4>1. Alone(w, j - n)
        BY <1>2, <3>1 DEF Sought, new
      <4>2. new[j - n] \in Review
        BY <1>2, <3>1
      <4> QED BY <4>1, <4>2 DEF Review
    <3>3. i <= new[j - n].looked => i \in byHand
      BY <2>2, <3>1, <3>2 DEF Alone, new
    <3> QED BY <1>3, <2>2, <3>1, <3>2, <3>3
  <2>3. CASE i \notin DOMAIN reviews /\ j \notin DOMAIN reviews
    <3>1. /\ i - n \in DOMAIN new /\ reviews'[i] = new[i - n]
          /\ j - n \in DOMAIN new /\ reviews'[j] = new[j - n]
      BY <1>3, <2>3
    <3>2. Alone(w, i - n)
      BY <1>2, <3>1 DEF Sought, new
    <3>3. i - n = j - n
      BY <3>1, <3>2 DEF Alone, new
    <3> QED BY <1>2, <1>3, <3>3
  <2>4. CASE i \notin DOMAIN reviews /\ j \in DOMAIN reviews
    BY <2>1, <2>4
  <2> QED BY <2>1, <2>2, <2>3
<1>8. CallsInv'
  BY <1>1, <1>4, ReturnedOpening, Opened DEF ContactsInv, RowsInv
<1> QED BY <1>4, <1>5, <1>6, <1>7, <1>8 DEF ContactsInv, RowsInv

\* A step of one thread leaves the calls of the others as they are.
LEMMA OthersStay ==
  ASSUME CallsInv, NEW w \in Workers, Work(w) \/ Ask(w)
  PROVE  \A v \in Workers \ {w} : call'[v] = call[v]
<1>1. \A d : Set(w, d) => \A v \in Workers \ {w} : call'[v] = call[v]
  BY DEF CallsInv, Set
<1>2. CASE Work(w)
  BY <1>1, <1>2 DEF Work, Look, Write, Deadlock, Commit, Mark, Find, Keep, Learn, Teach
<1>3. CASE Ask(w)
  BY <1>1, <1>3 DEF Ask, ImportRows, ImportReviews, Patch, Reject, Reset
<1> QED BY <1>2, <1>3

LEMMA ContactsWork ==
  ASSUME ContactsInv, NEW w \in Workers, Work(w) PROVE ContactsInv' /\ Grows
BY LookStep, WriteStep, DeadlockStep, CommitStep, MarkStep, FindStep, KeepStep, LearnStep,
   TeachStep DEF Work

-----------------------------------------------------------------------------
(* The requests of the user, and the calls of the runs.                    *)

\* import_contacts with its rows; the reviews to mark are of those rows.
LEMMA ImportOpening ==
  ASSUME NEW rows \in Seq(Emails), NEW lead \in BOOLEAN, NEW ids,
         ids \subseteq DOMAIN reviews, ids \subseteq Nat, EmailsOf(ids) \subseteq Elems(rows),
         NEW S
  PROVE  Opening(Import(rows, lead, ids), S)
<1> DEFINE r == Returned(FALSE)
           d == [r EXCEPT !.at = "look", !.todo = rows, !.lead = lead, !.ids = ids]
<1>1. /\ r \in Calling /\ r.done = {} /\ r.own = {} /\ r.held = {} /\ r.new = <<>>
      /\ r.base = <<>> /\ r.lesson = <<>>
  BY ReturnedType
<1> HIDE DEF r
<1>2. /\ d \in Calling /\ d.at = "look" /\ d.todo = rows /\ d.ids = ids /\ d.done = {}
      /\ d.own = {} /\ d.held = {} /\ d.new = <<>> /\ d.base = <<>> /\ d.lesson = <<>>
  BY <1>1 DEF Calling, Steps
<1>3. d = Import(rows, lead, ids)
  BY DEF Import, r
<1> HIDE DEF d
<1> QED BY <1>2, <1>3 DEF Opening

\* save_lead_reviews; what it saves as imported is sure.
LEMMA SavingOpening ==
  ASSUME NEW rows \in Seq(Emails), NEW status, NEW S, status = "pending" \/ Elems(rows) \subseteq S
  PROVE  Opening(Saving(rows, status), S)
<1> DEFINE r == Returned(FALSE)
           pending == status = "pending"
           d == [r EXCEPT !.at = "find", !.todo = rows, !.new = <<>>, !.found = pending]
<1>1. /\ r \in Calling /\ r.done = {} /\ r.own = {} /\ r.held = {} /\ r.ids = {}
      /\ r.base = <<>> /\ r.lesson = <<>>
  BY ReturnedType
<1>2. pending \in BOOLEAN /\ (~pending => Elems(rows) \subseteq S)
  OBVIOUS
<1>3. d = Saving(rows, status)
  BY DEF Saving, r, pending
<1> HIDE DEF r, pending
<1>4. d \in Calling
  <2>1. <<>> \in Seq(Review) /\ "find" \in Steps
    BY DEF Steps
  <2> HIDE DEF Steps
  <2> QED BY <1>1, <1>2, <2>1 DEF Calling
<1>5. /\ d.at = "find" /\ d.todo = rows /\ d.ids = {} /\ d.done = {}
      /\ d.own = {} /\ d.held = {} /\ d.new = <<>> /\ d.base = <<>> /\ d.lesson = <<>>
  BY <1>1 DEF Calling
<1>6. d.found = pending
  BY <1>1 DEF Calling
<1>7. Len(<<>>) <= 1 /\ {} \subseteq DOMAIN reviews
  OBVIOUS
<1> HIDE DEF d
<1>8. ~d.found => Elems(rows) \subseteq S
  BY <1>2, <1>6
<1> QED BY <1>3, <1>4, <1>5, <1>7, <1>8 DEF Opening

\* Feedback, with what there is to learn.
LEMMA LearnOpening ==
  ASSUME NEW lesson \in Seq(Emails), Len(lesson) <= 1, NEW S
  PROVE  /\ Opening([Returned(FALSE) EXCEPT !.at = "learn", !.lesson = lesson], S)
         /\ Opening([Returned(FALSE) EXCEPT !.at = "learn"], S)
<1> DEFINE r == Returned(FALSE)
           c == [r EXCEPT !.at = "learn"]
           d == [r EXCEPT !.at = "learn", !.lesson = lesson]
<1>1. /\ r \in Calling /\ r.done = {} /\ r.own = {} /\ r.held = {} /\ r.new = <<>> /\ r.ids = {}
      /\ r.base = <<>> /\ r.lesson = <<>>
  BY ReturnedType
<1> HIDE DEF r
<1>2. /\ d \in Calling /\ d.at = "learn" /\ d.ids = {} /\ d.done = {} /\ d.own = {} /\ d.held = {}
      /\ d.new = <<>> /\ d.base = <<>> /\ d.lesson = lesson
  BY <1>1 DEF Calling, Steps
<1>3. /\ c \in Calling /\ c.at = "learn" /\ c.ids = {} /\ c.done = {} /\ c.own = {} /\ c.held = {}
      /\ c.new = <<>> /\ c.base = <<>> /\ c.lesson = <<>>
  BY <1>1 DEF Calling, Steps
<1>4. EmailsOf({}) = {}
  BY DEF EmailsOf
<1>5. Opening(d, S)
  <2> HIDE DEF d
  <2> QED BY <1>2, <1>4 DEF Opening
<1>6. Opening(c, S)
  <2> HIDE DEF c
  <2> QED BY <1>3, <1>4 DEF Opening
<1> QED BY <1>5, <1>6 DEF r

LEMMA RequestType ==
  ASSUME RowsOK, Request PROVE requests' \in 0..MaxRequests
BY Bounds DEF RowsOK, Request

LEMMA ImportRowsStep == ASSUME ContactsInv, NEW u \in Users, ImportRows(u) PROVE ContactsInv' /\ Grows
<1>1. PICK S \in SUBSET Emails \ {{}} : \E rows \in Orders(S) : Set(u, Import(rows, FALSE, {}))
  BY DEF ImportRows
<1>2. PICK rows \in Orders(S) : Set(u, Import(rows, FALSE, {}))
  BY <1>1
<1>3. IsFiniteSet(S)
  BY Bounds, FS_Subset
<1>4. rows \in Seq(Emails)
  BY <1>3, OrdersType
<1>5. EmailsOf({}) = {}
  BY DEF EmailsOf
<1>6. Opening(Import(rows, FALSE, {}), Sure)
  BY <1>4, <1>5, ImportOpening
<1>7. Still /\ requests' \in 0..MaxRequests
  BY RequestType DEF ImportRows, Still, ContactsInv, RowsInv
<1> QED BY <1>2, <1>6, <1>7, OpenedStill DEF Workers

LEMMA ImportReviewsStep == ASSUME ContactsInv, NEW u \in Users, ImportReviews(u) PROVE ContactsInv' /\ Grows
<1>1. PICK ids \in SUBSET DOMAIN reviews \ {{}} : \E order \in Orders(ids) :
          Set(u, Import([k \in DOMAIN order |-> reviews[order[k]].email], TRUE, ids))
  BY DEF ImportReviews
<1>2. PICK order \in Orders(ids) :
          Set(u, Import([k \in DOMAIN order |-> reviews[order[k]].email], TRUE, ids))
  BY <1>1
<1> DEFINE rows == [k \in DOMAIN order |-> reviews[order[k]].email]
<1>3. reviews \in Seq(Review) /\ Len(reviews) \in Nat /\ DOMAIN reviews = 1..Len(reviews)
  BY DEF ContactsInv, RowsInv, RowsOK
<1>4. IsFiniteSet(ids) /\ ids \subseteq Nat
  <2>1. IsFiniteSet(1..Len(reviews)) /\ ids \in SUBSET (1..Len(reviews))
    BY <1>3, FS_Interval
  <2> QED BY <1>3, <2>1, FS_Subset
<1>5. order \in Seq(ids) /\ Elems(order) = ids
  BY <1>4, OrdersType
<1>6. rows \in Seq(Emails)
  <2>1. DOMAIN order = 1..Len(order) /\ Len(order) \in Nat
    BY <1>5
  <2>2. ASSUME NEW k \in DOMAIN order PROVE reviews[order[k]].email \in Emails
    <3>1. order[k] \in DOMAIN reviews
      BY <1>5
    <3>2. reviews[order[k]] \in Review
      BY <1>3, <3>1
    <3> QED BY <3>2 DEF Review
  <2>3. rows \in [1..Len(order) -> Emails]
    BY <2>1, <2>2
  <2> HIDE DEF rows
  <2> QED BY <2>1, <2>3
<1>7. EmailsOf(ids) \subseteq Elems(rows)
  <2> SUFFICES ASSUME NEW i \in ids PROVE reviews[i].email \in Elems(rows)
    BY DEF EmailsOf
  <2>1. PICK k \in DOMAIN order : order[k] = i
    BY <1>5 DEF Elems
  <2> QED BY <2>1 DEF Elems
<1> HIDE DEF rows
<1>8. Opening(Import(rows, TRUE, ids), Sure)
  BY <1>4, <1>6, <1>7, ImportOpening
<1>9. Still /\ requests' \in 0..MaxRequests /\ Set(u, Import(rows, TRUE, ids))
  BY <1>2, RequestType DEF ImportReviews, Still, ContactsInv, RowsInv, rows
<1> QED BY <1>8, <1>9, OpenedStill DEF Workers

LEMMA PatchStep == ASSUME ContactsInv, NEW u \in Users, Patch(u) PROVE ContactsInv' /\ Grows
<1>1. PICK i \in DOMAIN reviews, s \in Statuses :
          /\ reviews' = [reviews EXCEPT ![i].status = s] /\ byHand' = byHand \cup {i}
  BY DEF Patch
<1>2. /\ UNCHANGED <<blocked, contacts, avoid, call, ever, spurned>>
      /\ requests' \in 0..MaxRequests
  BY RequestType DEF Patch, ContactsInv, RowsInv
<1>3. reviews \in Seq(Review) /\ byHand \subseteq DOMAIN reviews
  BY DEF ContactsInv, RowsInv, RowsOK
<1>4. /\ reviews' \in Seq(Review) /\ Len(reviews') = Len(reviews) /\ DOMAIN reviews' = DOMAIN reviews
      /\ \A k \in DOMAIN reviews :
            /\ reviews'[k].email = reviews[k].email /\ reviews'[k].looked = reviews[k].looked
            /\ k # i => reviews'[k].status = reviews[k].status
  <2>1. reviews[i] \in Review
    BY <1>3
  <2>2. [reviews[i] EXCEPT !.status = s] \in Review
    BY <2>1 DEF Review
  <2>3. /\ [reviews[i] EXCEPT !.status = s].email = reviews[i].email
        /\ [reviews[i] EXCEPT !.status = s].looked = reviews[i].looked
    BY <2>1 DEF Review
  <2>4. reviews' = [reviews EXCEPT ![i] = [reviews[i] EXCEPT !.status = s]]
    BY <1>1
  <2> QED BY <1>3, <2>2, <2>3, <2>4
<1>5. Grows
  BY <1>1, <1>2, <1>4 DEF Grows
<1>6. RowsOK' /\ ContactIsEver' /\ RejectionKept'
  BY <1>1, <1>2, <1>3, <1>4 DEF ContactsInv, RowsInv, RowsOK, ContactIsEver, RejectionKept
<1>7. ImportedIsContact'
  BY <1>1, <1>2, <1>4 DEF ContactsInv, RowsInv, ImportedIsContact
<1>8. OnePending'
  <2> SUFFICES ASSUME NEW k \in DOMAIN reviews, NEW j \in DOMAIN reviews, k < j,
                      reviews[k].email = reviews[j].email,
                      reviews'[k].status = "pending", reviews'[j].status = "pending"
               PROVE  reviews[j].looked < k \/ {k, j} \cap byHand' # {}
    BY <1>4 DEF OnePending
  <2>1. CASE k = i \/ j = i
    BY <1>1, <2>1
  <2>2. CASE k # i /\ j # i
    <3>1. reviews[k].status = "pending" /\ reviews[j].status = "pending"
      BY <1>4, <2>2
    <3>2. reviews[j].looked < k \/ {k, j} \cap byHand # {}
      BY <3>1 DEF ContactsInv, RowsInv, OnePending
    <3> QED BY <1>1, <3>2
  <2> QED BY <2>1, <2>2
<1>9. CallsInv'
  BY <1>2, <1>5, NoCall DEF ContactsInv, RowsInv
<1> QED BY <1>5, <1>6, <1>7, <1>8, <1>9 DEF ContactsInv, RowsInv

LEMMA RejectStep == ASSUME ContactsInv, NEW u \in Users, Reject(u) PROVE ContactsInv' /\ Grows
<1>1. PICK e \in Emails, kept \in BOOLEAN :
          /\ contacts' = IF kept THEN contacts ELSE [contacts EXCEPT ![e] = "none"]
          /\ Set(u, IF contacts[e] = "lead"
                    THEN [Returned(FALSE) EXCEPT !.at = "learn", !.lesson = <<e>>]
                    ELSE Returned(TRUE))
  BY DEF Reject
<1>2. /\ UNCHANGED <<blocked, reviews, avoid, ever, byHand, spurned>>
      /\ requests' \in 0..MaxRequests
  BY RequestType DEF Reject, ContactsInv, RowsInv
<1>3. Grows
  BY <1>2 DEF Grows, ContactsInv, RowsInv, RowsOK
<1>4. contacts' \in [Emails -> {"none", "plain", "lead"}]
      /\ \A x \in Emails : contacts'[x] # "none" => contacts[x] # "none"
  BY <1>1 DEF ContactsInv, RowsInv, RowsOK
<1>5. RowsInv'
  BY <1>2, <1>4 DEF ContactsInv, RowsInv, RowsOK, ContactIsEver, ImportedIsContact, OnePending,
                    RejectionKept
<1>6. CASE contacts[e] = "lead"
  <2>1. <<e>> \in Seq(Emails) /\ Len(<<e>>) <= 1
    OBVIOUS
  <2>2. Opening([Returned(FALSE) EXCEPT !.at = "learn", !.lesson = <<e>>], Sure)
    BY <2>1, LearnOpening
  <2>3. CallsInv'
    BY <1>1, <1>2, <1>3, <1>6, <2>2, Opened DEF ContactsInv, RowsInv, Sure, Workers
  <2> QED BY <1>3, <1>5, <2>3 DEF ContactsInv
<1>7. CASE contacts[e] # "lead"
  <2>1. CallsInv'
    BY <1>1, <1>2, <1>3, <1>7, ReturnedOpening, Opened DEF ContactsInv, RowsInv, Sure, Workers
  <2> QED BY <1>3, <1>5, <2>1 DEF ContactsInv
<1> QED BY <1>6, <1>7

LEMMA ResetStep == ASSUME ContactsInv, NEW u \in Users, Reset(u) PROVE ContactsInv' /\ Grows
<1>1. /\ avoid' = <<>> /\ spurned' = {}
      /\ UNCHANGED <<blocked, contacts, reviews, call, ever, byHand>>
      /\ requests' \in 0..MaxRequests
  BY RequestType DEF Reset, ContactsInv, RowsInv
<1>2. Grows
  BY <1>1 DEF Grows, ContactsInv, RowsInv, RowsOK
<1>3. RowsInv'
  BY <1>1, Bounds DEF ContactsInv, RowsInv, RowsOK, ContactIsEver, ImportedIsContact, OnePending,
                      RejectionKept
<1> QED BY <1>1, <1>2, <1>3, NoCall DEF ContactsInv, RowsInv

LEMMA ContactsAsk == ASSUME ContactsInv, NEW u \in Users, Ask(u) PROVE ContactsInv' /\ Grows
BY ImportRowsStep, ImportReviewsStep, PatchStep, RejectStep, ResetStep DEF Ask

LEMMA ContactsStart == ASSUME ContactsInit PROVE ContactsInv
<1>1. /\ blocked \in Filters /\ reviews = <<>> /\ avoid = <<>> /\ requests = 0 /\ ever = Known
      /\ byHand = {} /\ spurned = {} /\ call = [w \in Workers |-> Returned(TRUE)]
      /\ contacts = [e \in Emails |-> IF e \in Leads THEN "lead" ELSE IF e \in Known THEN "plain" ELSE "none"]
  BY DEF ContactsInit
<1>2. RowsOK /\ ContactIsEver
  BY <1>1, Bounds DEF RowsOK, ContactIsEver
<1>3. ImportedIsContact /\ OnePending /\ RejectionKept
  BY <1>1 DEF ImportedIsContact, OnePending, RejectionKept
<1>4. ASSUME NEW w \in Workers PROVE CallInv(w)
  <2>1. call[w] = Returned(TRUE)
    BY <1>1
  <2>2. EmailsOf({}) = {} /\ DOMAIN <<>> = {} /\ Len(<<>>) = 0
    BY DEF EmailsOf
  <2>3. Sound(w)
    <3> DEFINE r == Returned(TRUE)
    <3>1. /\ r \in Calling /\ r.own = {} /\ r.held = {} /\ r.done = {} /\ r.ids = {}
          /\ r.at = "idle" /\ r.base = <<>> /\ r.lesson = <<>>
      BY ReturnedType
    <3>2. 0 <= AvoidLimit
      BY Bounds
    <3>3. call[w] = r
      BY <2>1
    <3> HIDE DEF r
    <3> QED BY <2>2, <3>1, <3>2, <3>3 DEF Sound
  <2>4. MadeSure(w)
    BY <2>1, <2>2, ReturnedType DEF MadeSure
  <2>5. Sought(w)
    BY <2>1, <2>2, ReturnedType DEF Sought
  <2> QED BY <2>3, <2>4, <2>5 DEF CallInv
<1>5. call \in [Workers -> Calling]
  BY <1>1, ReturnedType
<1> QED BY <1>2, <1>3, <1>4, <1>5 DEF ContactsInv, RowsInv, CallsInv

LEMMA ContactsStill ==
  ASSUME ContactsInv, UNCHANGED contactVars PROVE ContactsInv' /\ Grows
<1>1. Still /\ call' = call /\ requests' \in 0..MaxRequests
  BY DEF contactVars, Still, ContactsInv, RowsInv, RowsOK
<1>2. RowsInv' /\ Grows
  BY <1>1, StillRows, StillGrows DEF ContactsInv, RowsInv
<1> QED BY <1>1, <1>2, NoCall DEF ContactsInv, RowsInv

\* The process restarts: the transactions roll back.
LEMMA CallsLost ==
  ASSUME ContactsInv, Still, requests' \in 0..MaxRequests,
         call' = [w \in Workers |-> Returned(FALSE)]
  PROVE  ContactsInv' /\ Grows
<1>1. RowsInv' /\ Grows /\ RowsOK
  BY StillRows, StillGrows DEF ContactsInv, RowsInv
<1>2. call' \in [Workers -> Calling]
  BY ReturnedType
<1>3. ASSUME NEW w \in Workers PROVE CallInv(w)'
  <2> DEFINE d == Returned(FALSE)
  <2>1. call'[w] = d /\ Opening(d, Sure) /\ Sure \subseteq Sure'
    BY <1>1, ReturnedOpening, DomainGrows
  <2> HIDE DEF d
  <2> QED BY <1>1, <2>1, CallOpened
<1> QED BY <1>1, <1>2, <1>3 DEF ContactsInv, CallsInv

-----------------------------------------------------------------------------
(* An import of leads by a run.                                            *)

\* How far the leads have come: those still to come, those handled, and those
\* the filter refuses; all are sure once the thread has committed.
Arriving(w, leads) ==
    LET c == call[w] IN
    /\ c.ids = {} /\ c.at \in {"look", "write", "learn", "teach", "idle"}
    /\ c.at \in {"look", "write"} => leads \subseteq Elems(c.todo) \cup c.done \cup blocked
    /\ c.at \in {"learn", "teach"} => leads \subseteq Sure
    /\ c.at = "idle" => c.ok = FALSE \/ leads \subseteq Sure

LEMMA ArrivingKept ==
  ASSUME RowsOK, Grows, NEW w, NEW leads, call'[w] = call[w], Arriving(w, leads)
  PROVE  Arriving(w, leads)'
<1>1. Sure \subseteq Sure' /\ blocked' = blocked
  BY DomainGrows DEF Grows
<1> QED BY <1>1 DEF Arriving

LEMMA AfterNothing ==
  ASSUME NEW c, c.ids = {} PROVE After(c) = Returned(TRUE)
BY DEF After

LEMMA ArrivingStarts ==
  ASSUME ContactsInv, NEW w \in Workers, NEW leads \in SUBSET Emails, NEW rows \in Orders(leads),
         Set(w, Import(rows, TRUE, {})), Still, requests' \in 0..MaxRequests
  PROVE  ContactsInv' /\ Grows /\ Arriving(w, leads)'
<1> DEFINE d == Import(rows, TRUE, {})
<1>1. rows \in Seq(Emails) /\ Elems(rows) = leads
  <2>1. IsFiniteSet(leads)
    BY Bounds, FS_Subset
  <2>2. rows \in Seq(leads) /\ Elems(rows) = leads
    BY <2>1, OrdersType
  <2> QED BY <2>2
<1>2. Opening(d, Sure)
  <2>1. EmailsOf({}) = {}
    BY DEF EmailsOf
  <2> QED BY <1>1, <2>1, ImportOpening
<1>3. d.at = "look" /\ d.todo = rows /\ d.ids = {}
  BY DEF Import, Returned
<1>4. call'[w] = d
  BY DEF Set, ContactsInv, CallsInv
<1>5. Set(w, d)
  OBVIOUS
<1> HIDE DEF d
<1>6. ContactsInv' /\ Grows
  BY <1>2, <1>5, OpenedStill
<1> QED BY <1>1, <1>3, <1>4, <1>6 DEF Arriving

LEMMA ArrivingWork ==
  ASSUME ContactsInv, Grows, NEW w \in Workers, NEW leads, Arriving(w, leads), Work(w)
  PROVE  Arriving(w, leads)'
<1> DEFINE c == call[w]
<1>1. /\ RowsOK /\ call \in [Workers -> Calling] /\ c \in Calling
      /\ MadeSure(w) /\ Sound(w)
  BY CallFields DEF Workers, ContactsInv, RowsInv, CallsInv, CallInv
<1>2. /\ c.ids = {} /\ c.at \in {"look", "write", "learn", "teach", "idle"}
      /\ c.at \in {"look", "write"} => leads \subseteq Elems(c.todo) \cup c.done \cup blocked
      /\ c.at \in {"learn", "teach"} => leads \subseteq Sure
  BY DEF Arriving
<1>3. \A d : Set(w, d) => call'[w] = d
  BY <1>1 DEF Set
<1>4. Sure \subseteq Sure'
  BY <1>1, DomainGrows
<1>5. ASSUME call'[w].at \in {"look", "write"}, call'[w].ids = {}, blocked' = blocked,
             leads \subseteq Elems(call'[w].todo) \cup call'[w].done \cup blocked
      PROVE  Arriving(w, leads)'
  BY <1>5 DEF Arriving
<1>6. ASSUME Set(w, Returned(FALSE)) PROVE Arriving(w, leads)'
  <2>1. call'[w] = Returned(FALSE)
    BY <1>3, <1>6
  <2> QED BY <2>1, ReturnedType DEF Arriving
<1>7. ASSUME Set(w, After(c)), leads \subseteq Sure' PROVE Arriving(w, leads)'
  <2>1. call'[w] = Returned(TRUE)
    BY <1>2, <1>3, <1>7, AfterNothing
  <2> QED BY <1>7, <2>1, ReturnedType DEF Arriving
<1>8. CASE Look(w)
  <2> DEFINE e == Head(c.todo)
             d == IF Allowed(e)
                  THEN [c EXCEPT !.at = "write", !.found = contacts[e] # "none" \/ e \in c.own]
                  ELSE [c EXCEPT !.todo = Tail(@)]
  <2>1. c.at = "look" /\ c.todo # <<>> /\ Set(w, d) /\ blocked' = blocked
    BY <1>8 DEF Look
  <2>2. c.todo \in Seq(Emails) /\ Elems(c.todo) = {e} \cup Elems(Tail(c.todo))
    BY <1>1, <2>1, ElemsTail DEF Calling
  <2>3. /\ d.at \in {"look", "write"} /\ d.ids = {} /\ d.done = c.done
        /\ (Allowed(e) => d.todo = c.todo) /\ (~Allowed(e) => d.todo = Tail(c.todo))
    BY <1>1, <1>2, <2>1 DEF Calling
  <2>4. ~Allowed(e) => e \in blocked
    BY DEF Allowed
  <2> HIDE DEF d
  <2>5. leads \subseteq Elems(d.todo) \cup d.done \cup blocked
    BY <1>2, <2>1, <2>2, <2>3, <2>4
  <2>6. call'[w] = d
    BY <1>3, <2>1
  <2> QED BY <1>5, <2>1, <2>3, <2>5, <2>6
<1>9. CASE Write(w)
  <2> DEFINE e == Head(c.todo)
             next == [c EXCEPT !.at = "look", !.todo = Tail(@), !.done = @ \cup {e}]
  <2>1. c.at = "write" /\ blocked' = blocked
    BY <1>9 DEF Write
  <2>2. Elems(c.todo) = {e} \cup Elems(Tail(c.todo))
    BY <1>1, <2>1, ElemsTail DEF Calling, Sound
  <2>3. \/ \E d : /\ Set(w, d) /\ d.at = "look" /\ d.ids = {} /\ d.todo = Tail(c.todo)
                  /\ d.done = c.done \cup {e}
        \/ Set(w, Returned(FALSE))
    <3>1. /\ next.at = "look" /\ next.ids = {} /\ next.todo = Tail(c.todo)
          /\ next.done = c.done \cup {e}
          /\ LET d == [next EXCEPT !.held = @ \cup {e}] IN
                /\ d.at = "look" /\ d.ids = {} /\ d.todo = Tail(c.todo) /\ d.done = c.done \cup {e}
          /\ LET d == [next EXCEPT !.own = @ \cup {e}] IN
                /\ d.at = "look" /\ d.ids = {} /\ d.todo = Tail(c.todo) /\ d.done = c.done \cup {e}
      BY <1>1, <1>2 DEF Calling
    <3>2. \/ Set(w, next) \/ Set(w, [next EXCEPT !.held = @ \cup {e}])
          \/ Set(w, [next EXCEPT !.own = @ \cup {e}]) \/ Set(w, Returned(FALSE))
      BY <1>9 DEF Write, Failed
    <3> HIDE DEF next
    <3> QED BY <3>1, <3>2
  <2>4. ASSUME NEW d, Set(w, d), d.at = "look", d.ids = {}, d.todo = Tail(c.todo),
               d.done = c.done \cup {e}
        PROVE  Arriving(w, leads)'
    <3>1. leads \subseteq Elems(d.todo) \cup d.done \cup blocked
      BY <1>2, <2>1, <2>2, <2>4
    <3>2. call'[w] = d
      BY <1>3, <2>4
    <3> QED BY <1>5, <2>1, <2>4, <3>1, <3>2
  <2> QED BY <1>6, <2>3, <2>4
<1>10. CASE Deadlock(w)
  BY <1>6, <1>10 DEF Deadlock, Failed
<1>11. CASE Commit(w)
  <2>1. c.at = "look" /\ c.todo = <<>> /\ ever' = ever \cup c.own /\ blocked' = blocked
    BY <1>11 DEF Commit
  <2>2. leads \subseteq Sure'
    BY <1>1, <1>2, <2>1, EmptyElems DEF MadeSure, Sure
  <2>3. CASE Set(w, After(c))
    BY <1>7, <2>2, <2>3
  <2>4. CASE Set(w, [Returned(FALSE) EXCEPT !.at = "learn", !.ids = c.ids])
    <3> DEFINE d == [Returned(FALSE) EXCEPT !.at = "learn", !.ids = c.ids]
    <3>1. d.at = "learn" /\ d.ids = {}
      BY <1>2 DEF Returned
    <3>2. call'[w] = d
      BY <1>3, <2>4
    <3> QED BY <2>2, <3>1, <3>2 DEF Arriving
  <2> QED BY <1>11, <2>3, <2>4 DEF Commit
<1>12. CASE Learn(w)
  <2> DEFINE d == [c EXCEPT !.at = "teach", !.base = avoid]
  <2>1. c.at = "learn" /\ Set(w, d)
    BY <1>12 DEF Learn
  <2>2. d.at = "teach" /\ d.ids = {} /\ call'[w] = d
    BY <1>1, <1>2, <1>3, <2>1 DEF Calling
  <2>3. leads \subseteq Sure'
    BY <1>2, <1>4, <2>1
  <2> HIDE DEF d
  <2> QED BY <2>2, <2>3 DEF Arriving
<1>13. CASE Teach(w)
  <2>1. c.at = "teach" /\ Set(w, After(c))
    BY <1>13 DEF Teach
  <2> QED BY <1>2, <1>4, <1>7, <2>1
<1>14. CASE Mark(w) \/ Find(w) \/ Keep(w)
  BY <1>2, <1>14 DEF Mark, Find, Keep
<1> QED BY <1>8, <1>9, <1>10, <1>11, <1>12, <1>13, <1>14 DEF Work
=============================================================================
