------------------------------ MODULE Contacts ------------------------------
(***************************************************************************)
(* The contacts of one user, the lead reviews and the preference feedback  *)
(* (app/database.py, app/lead_preferences.py), as threads work on them at  *)
(* once: discovery runs and the user's requests.  An import is a           *)
(* transaction of several statements; a write of the preferences is a read *)
(* and a write with no lock between them.                                  *)
(*                                                                         *)
(* An address stands for a row, its domain and its organization; a contact *)
(* is "plain", or a "lead" once an import leaves an AI score in its notes. *)
(* Of the preferences only the list of avoided domains is kept.            *)
(***************************************************************************)
EXTENDS Integers, Sequences, FiniteSets

CONSTANTS
    Emails,
    Known, Leads,      \* the contacts at the start; those with an AI score
    Filters,           \* sets of addresses the import filter may refuse
    Runs, Users,       \* threads: of discovery runs, of requests
    AvoidLimit,        \* _MAX_AVOID_DOMAINS
    MaxRequests        \* bound: requests of the users

ASSUME ContactConstants ==
    /\ IsFiniteSet(Emails)
    /\ Leads \subseteq Known /\ Known \subseteq Emails /\ Filters \subseteq SUBSET Emails
    /\ Runs \cap Users = {}
    /\ AvoidLimit \in Nat \ {0} /\ MaxRequests \in Nat

Workers == Runs \cup Users
Statuses == {"pending", "approved", "imported", "skipped"}

VARIABLES
    blocked,     \* what the filter refuses: a setting
    contacts,    \* committed rows: address -> kind
    reviews,     \* committed rows of lead_reviews, in the order of their ids
    avoid,       \* avoid_domains, newest first
    call,        \* what each thread is in
    requests,
    ever,        \* history: addresses that have been contacts
    byHand,      \* history: reviews whose status the user set
    spurned      \* history: addresses whose rejection the preferences hold

contactVars == <<blocked, contacts, reviews, avoid, call, requests, ever, byHand, spurned>>

\* at: the next statement or transaction of the thread
\* todo, lead: rows still to come; they carry an AI score
\* found: the SELECT of the first row hit
\* done, own, held: addresses handled, inserted, and locked by an update
\* ids: reviews to mark afterwards; new: reviews to insert
\* base, lesson: preferences read; addresses to avoid; ok: it ended well
Returned(ok) ==
    [at |-> "idle", todo |-> <<>>, lead |-> FALSE, found |-> FALSE, done |-> {},
     own |-> {}, held |-> {}, ids |-> {}, new |-> <<>>, base |-> <<>>,
     lesson |-> <<>>, ok |-> ok]

Elems(s) == {s[i] : i \in DOMAIN s}
Review == [email : Emails, status : Statuses, looked : Nat]
Steps == {"idle", "look", "write", "mark", "find", "learn", "teach"}

ContactsTypeOK ==
    /\ blocked \in Filters
    /\ contacts \in [Emails -> {"none", "plain", "lead"}]
    /\ reviews \in Seq(Review)
    /\ avoid \in Seq(Emails) /\ Len(avoid) <= AvoidLimit
    /\ DOMAIN call = Workers
    /\ \A w \in Workers :
          /\ call[w].at \in Steps /\ call[w].todo \in Seq(Emails)
          /\ call[w].own \cup call[w].held \subseteq call[w].done
          /\ call[w].done \subseteq Emails /\ call[w].ids \subseteq DOMAIN reviews
          /\ call[w].new \in Seq(Review) /\ call[w].base \in Seq(Emails)
    /\ requests \in 0..MaxRequests
    /\ ever \subseteq Emails /\ spurned \subseteq Emails
    /\ byHand \subseteq DOMAIN reviews

Idle(w) == call[w].at = "idle"
Set(w, c) == call' = [call EXCEPT ![w] = c]

\* What follows an import and its feedback: the second transaction of
\* import_lead_reviews.
After(c) == IF c.ids # {} THEN [Returned(FALSE) EXCEPT !.at = "mark", !.ids = c.ids]
            ELSE Returned(TRUE)

\* A statement that fails: the transaction rolls back, the call raises.
\* FailedOn is a bug to rule out: the reviews are marked all the same.
FailedOn(c) == After(c)
Failed(c) == Returned(FALSE)

-----------------------------------------------------------------------------
(* import_contacts: one transaction, row by row.                           *)

Import(rows, lead, ids) ==
    [Returned(FALSE) EXCEPT !.at = "look", !.todo = rows, !.lead = lead, !.ids = ids]

\* email_allowed_for_import.
Allowed(e) == e \notin blocked

Look(w) ==
    LET c == call[w]  e == Head(c.todo) IN
    /\ c.at = "look" /\ c.todo # <<>>
    /\ Set(w, IF Allowed(e)
              THEN [c EXCEPT !.at = "write",
                             !.found = contacts[e] # "none" \/ e \in c.own]
              ELSE [c EXCEPT !.todo = Tail(@)])
    /\ UNCHANGED <<blocked, contacts, reviews, avoid, requests, ever, byHand, spurned>>

\* The threads whose uncommitted row w must wait for.
Blockers(w) ==
    {v \in Workers \ {w} : Head(call[w].todo) \in call[v].own \cup call[v].held}

\* The UPDATE of a row that was deleted after the SELECT changes nothing, but
\* counts.  The INSERT of a row that was inserted after it fails the batch.
Write(w) ==
    LET c == call[w]
        e == Head(c.todo)
        next == [c EXCEPT !.at = "look", !.todo = Tail(@), !.done = @ \cup {e}]
    IN
    /\ c.at = "write" /\ Blockers(w) = {}
    /\ \/ /\ c.found /\ contacts[e] # "none"
          /\ Set(w, [next EXCEPT !.held = @ \cup {e}])
       \/ /\ c.found /\ contacts[e] = "none"
          /\ Set(w, next)
       \/ /\ ~c.found /\ contacts[e] = "none"
          /\ Set(w, [next EXCEPT !.own = @ \cup {e}])
       \/ /\ ~c.found /\ contacts[e] # "none"
          /\ Set(w, Failed(c))
    /\ UNCHANGED <<blocked, contacts, reviews, avoid, requests, ever, byHand, spurned>>

\* PostgreSQL ends a cycle of waiting transactions by failing one of them.
Deadlock(w) ==
    /\ \E knot \in SUBSET Workers :
          /\ w \in knot
          /\ \A v \in knot : call[v].at = "write" /\ Blockers(v) \cap knot # {}
    /\ Set(w, Failed(call[w]))
    /\ UNCHANGED <<blocked, contacts, reviews, avoid, requests, ever, byHand, spurned>>

Approve(rows, ids) ==
    [i \in DOMAIN rows |->
        IF i \in ids THEN [rows[i] EXCEPT !.status = "imported"] ELSE rows[i]]

\* The pending reviews of the rows are marked in the same transaction; the
\* feedback on the inserted ones comes after it.
Commit(w) ==
    LET c == call[w]
        handled == {i \in DOMAIN reviews :
                       reviews[i].status = "pending" /\ reviews[i].email \in c.done}
    IN
    /\ c.at = "look" /\ c.todo = <<>>
    /\ contacts' = [e \in Emails |->
          IF e \in c.own THEN IF c.lead THEN "lead" ELSE "plain"
          ELSE IF e \in c.held /\ c.lead THEN "lead" ELSE contacts[e]]
    /\ reviews' = Approve(reviews, handled)
    /\ ever' = ever \cup c.own
    /\ Set(w, IF c.own # {} /\ c.lead
              THEN [Returned(FALSE) EXCEPT !.at = "learn", !.ids = c.ids]
              ELSE After(c))
    /\ UNCHANGED <<blocked, avoid, requests, byHand, spurned>>

Mark(w) ==
    /\ call[w].at = "mark"
    /\ reviews' = Approve(reviews, call[w].ids)
    /\ Set(w, Returned(TRUE))
    /\ UNCHANGED <<blocked, contacts, avoid, requests, ever, byHand, spurned>>

-----------------------------------------------------------------------------
(* save_lead_reviews: one transaction that looks each address up and       *)
(* inserts a review when none is pending.                                  *)

Saving(rows, status) ==
    [Returned(FALSE) EXCEPT !.at = "find", !.todo = rows, !.new = <<>>, !.found = status = "pending"]

\* PendingNever is a bug to rule out: nothing is looked up.
PendingNever(e, w) == FALSE
Pending(e, w) ==
    \/ \E i \in DOMAIN reviews : reviews[i].email = e /\ reviews[i].status = "pending"
    \/ \E i \in DOMAIN call[w].new : call[w].new[i].email = e /\ call[w].new[i].status = "pending"

Find(w) ==
    LET c == call[w]
        e == Head(c.todo)
        row == [email |-> e, looked |-> Len(reviews),
                status |-> IF c.found THEN "pending" ELSE "imported"]
    IN
    /\ c.at = "find" /\ c.todo # <<>>
    /\ Set(w, IF Pending(e, w) THEN [c EXCEPT !.todo = Tail(@)]
              ELSE [c EXCEPT !.todo = Tail(@), !.new = Append(@, row)])
    /\ UNCHANGED <<blocked, contacts, reviews, avoid, requests, ever, byHand, spurned>>

Keep(w) ==
    /\ call[w].at = "find" /\ call[w].todo = <<>>
    /\ reviews' = reviews \o call[w].new
    /\ Set(w, Returned(TRUE))
    /\ UNCHANGED <<blocked, contacts, avoid, requests, ever, byHand, spurned>>

-----------------------------------------------------------------------------
(* Feedback: get_prefs, then save_prefs, in two transactions.              *)

\* _append_unique.
AppendUnique(list, e) ==
    IF e \in Elems(list) THEN list
    ELSE LET longer == <<e>> \o list IN
         IF Len(longer) <= AvoidLimit THEN longer ELSE SubSeq(longer, 1, AvoidLimit)

\* LearnedAfresh is a bug to rule out: the preferences start from the defaults.
LearnedAfresh(base, lesson) == lesson
Learned(base, lesson) ==
    IF lesson = <<>> THEN base ELSE AppendUnique(base, Head(lesson))

Learn(w) ==
    /\ call[w].at = "learn"
    /\ Set(w, [call[w] EXCEPT !.at = "teach", !.base = avoid])
    /\ UNCHANGED <<blocked, contacts, reviews, avoid, requests, ever, byHand, spurned>>

\* What others wrote after the read is lost, and so is what falls off the end.
Teach(w) ==
    LET c == call[w]
        written == Learned(c.base, c.lesson)
        overtaken == Elems(avoid) \ Elems(c.base)
        fallen == IF c.lesson # <<>> /\ Len(c.base) = AvoidLimit
                  THEN {c.base[AvoidLimit]} ELSE {}
    IN
    /\ c.at = "teach"
    /\ avoid' = written
    /\ spurned' = (spurned \ (overtaken \cup fallen)) \cup Elems(c.lesson)
    /\ Set(w, After(c))
    /\ UNCHANGED <<blocked, contacts, reviews, requests, ever, byHand>>

-----------------------------------------------------------------------------
(* The user.                                                               *)

Request == requests < MaxRequests /\ requests' = requests + 1

Orders(S) == {s \in [1..Cardinality(S) -> S] : Elems(s) = S}

\* POST /api/contacts/import.
ImportRows(u) ==
    /\ Idle(u) /\ Request
    /\ \E S \in SUBSET Emails \ {{}} : \E rows \in Orders(S) :
          Set(u, Import(rows, FALSE, {}))
    /\ UNCHANGED <<blocked, contacts, reviews, avoid, ever, byHand, spurned>>

\* import_lead_reviews: read the rows, import them, mark them all.
ImportReviews(u) ==
    /\ Idle(u) /\ Request
    /\ \E ids \in SUBSET DOMAIN reviews \ {{}} : \E order \in Orders(ids) :
          Set(u, Import([k \in DOMAIN order |-> reviews[order[k]].email], TRUE, ids))
    /\ UNCHANGED <<blocked, contacts, reviews, avoid, ever, byHand, spurned>>

\* update_lead_review_status.
Patch(u) ==
    /\ Idle(u) /\ Request
    /\ \E i \in DOMAIN reviews : \E s \in Statuses \ {reviews[i].status} :
          /\ reviews' = [reviews EXCEPT ![i].status = s]
          /\ byHand' = byHand \cup {i}
    /\ UNCHANGED <<blocked, contacts, avoid, call, ever, spurned>>

\* delete_contact, and update_contact_follow_up_status to "invalid": the row
\* must not be locked; the feedback is about leads only.
Reject(u) ==
    /\ Idle(u) /\ Request
    /\ \E e \in Emails, kept \in BOOLEAN :
          /\ contacts[e] # "none"
          /\ \A w \in Workers : e \notin call[w].held
          /\ contacts' = IF kept THEN contacts ELSE [contacts EXCEPT ![e] = "none"]
          /\ Set(u, IF contacts[e] = "lead"
                    THEN [Returned(FALSE) EXCEPT !.at = "learn", !.lesson = <<e>>]
                    ELSE Returned(TRUE))
    /\ UNCHANGED <<blocked, reviews, avoid, ever, byHand, spurned>>

\* reset_prefs.
Reset(u) ==
    /\ Idle(u) /\ Request
    /\ avoid' = <<>> /\ spurned' = {}
    /\ UNCHANGED <<blocked, contacts, reviews, call, ever, byHand>>

ContactsInit ==
    /\ blocked \in Filters
    /\ contacts = [e \in Emails |-> IF e \in Leads THEN "lead" ELSE IF e \in Known THEN "plain" ELSE "none"]
    /\ reviews = <<>> /\ avoid = <<>>
    /\ call = [w \in Workers |-> Returned(TRUE)]
    /\ requests = 0
    /\ ever = Known
    /\ byHand = {} /\ spurned = {}

Ask(u) == ImportRows(u) \/ ImportReviews(u) \/ Patch(u) \/ Reject(u) \/ Reset(u)

\* Statements a thread runs by itself.
Work(w) == \/ Look(w) \/ Write(w) \/ Deadlock(w) \/ Commit(w) \/ Mark(w)
           \/ Find(w) \/ Keep(w) \/ Learn(w) \/ Teach(w)

-----------------------------------------------------------------------------
(* Properties.                                                             *)

\* import_contacts, import_lead_reviews and the end of a run mark a review as
\* imported only when its address has been a contact or was filtered, unless
\* the user wrote the status himself.
ImportedIsContact ==
    \A i \in DOMAIN reviews :
        reviews[i].status = "imported" =>
            reviews[i].email \in ever \cup blocked \/ i \in byHand

\* save_lead_reviews leaves a second pending review of an address only when it
\* looked before the first was there, or the user reopened the first.
OnePending ==
    \A i, j \in DOMAIN reviews :
        /\ i < j /\ reviews[i].email = reviews[j].email
        /\ reviews[i].status = "pending" /\ reviews[j].status = "pending"
        => reviews[j].looked < i \/ {i, j} \cap byHand # {}

\* An address the user rejected stays avoided, unless it was pushed off the end
\* of the list, reset, or overwritten from preferences read before it.
RejectionKept == spurned \subseteq Elems(avoid)
=============================================================================
