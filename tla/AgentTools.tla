----------------------------- MODULE AgentTools -----------------------------
(***************************************************************************)
(* The tools that destroy (_run_tool of app/agent_chat.py), the cards that *)
(* confirm them (POST /api/pi/confirm-tool) and their undo, beside the     *)
(* requests of the user.                                                   *)
(*                                                                         *)
(* A tool runs on the event loop, which does nothing else until it ends;   *)
(* its request then awaits a thread that appends to the history, with the  *)
(* loop free, before it answers.  The user's requests are threads and come *)
(* between any two transactions of a tool.  At any step a call of the      *)
(* database may raise or the process may stop.  Each request is one step   *)
(* here (Contacts has the statements of an import).  A contact is a row    *)
(* with an id that is not used again; all are leads, so that a deletion    *)
(* teaches the preferences, of which the avoided domains stand for all: an *)
(* address for its domain.                                                 *)
(***************************************************************************)
EXTENDS Integers, Sequences, FiniteSets

CONSTANTS Addresses,
          Present,             \* addresses of the contacts at the start, by id
          Refusable,           \* bound: addresses the filter may come to refuse
          MaxRows, MaxCards,   \* bounds: contacts ever, cards ever
          MaxConfirms,         \* bound: times a card is confirmed
          MaxDeeds             \* bound: requests of the user and failures

VARIABLES rows,      \* contacts, by id: address, and what removed it
          prefs,     \* avoid_domains of user_lead_preferences
          blocklist, \* import_blocklist
          mail,      \* rows of email_outbox: contact and card
          cards,     \* what the page shows
          loop,      \* the tool on the event loop
          deeds

toolVars == <<rows, prefs, blocklist, mail, cards, loop, deeds>>

Nobody == [who |-> "nobody", card |-> 0, attempt |-> 0]
User   == [who |-> "user", card |-> 0, attempt |-> 0]
Row(e) == [email |-> e, by |-> Nobody]
Alive(i) == i \in DOMAIN rows /\ rows[i].by = Nobody
Held == {rows[i].email : i \in {j \in DOMAIN rows : Alive(j)}}

\* PI_DESTRUCTIVE_TOOLS; dedupe_contacts finds nothing to remove, since the
\* addresses of a user's contacts are unique and in lower case.
Destructive == {"delete_contacts", "reset_lead_preferences", "queue_emails"}

\* at: "asked", "running", "append" (the tool has ended, its request has not),
\*     "done" or "cancelled"; raised: attempts that were not answered, or by 500
\* undo: undo_payload, addresses to import or to avoid; undone: it was used
\* wiped: ghost, what each attempt of a reset removed, but for what was learnt
\*     since it read
Card(tool, ids) == [tool |-> tool, ids |-> ids, at |-> "asked", attempt |-> 0,
                    raised |-> {}, undo |-> {}, undone |-> FALSE, wiped |-> {}]

\* todo: contacts to come; copied: undo_rows; deleted: how many
\* noted: a note was added since the old ones were deleted
\* base: what it has read; since: learnt by others after that
Free == [step |-> "free", card |-> 0, todo |-> <<>>, copied |-> {}, deleted |-> 0,
         noted |-> FALSE, base |-> {}, since |-> {}]

Init == /\ rows = [i \in DOMAIN Present |-> Row(Present[i])]
        /\ prefs = {} /\ blocklist = {} /\ mail = {} /\ cards = <<>>
        /\ loop = Free /\ deeds = 0

-----------------------------------------------------------------------------
(* The agent. *)

LoopFree == loop.step = "free"
Deed == deeds < MaxDeeds /\ deeds' = deeds + 1

\* _run_tool without allow_destructive, from a turn or the sidecar: a card.
AskFirst(tool, ids) ==
    /\ LoopFree /\ Len(cards) < MaxCards
    /\ cards' = Append(cards, Card(tool, ids))
    /\ UNCHANGED <<rows, prefs, blocklist, mail, loop, deeds>>

\* import_contacts: what the filter refuses is dropped, what is a contact stays
\* the row it is.
Import(emails) ==
    LET fresh == (emails \ blocklist) \ Held IN
    /\ Len(rows) + Cardinality(fresh) <= MaxRows
    /\ \E order \in {s \in [1..Cardinality(fresh) -> fresh] :
                        \A i, j \in DOMAIN s : i # j => s[i] # s[j]} :
          rows' = rows \o [i \in DOMAIN order |-> Row(order[i])]

ImportLeads(emails) ==
    /\ LoopFree
    /\ Import(emails) /\ rows' # rows
    /\ UNCHANGED <<prefs, blocklist, mail, cards, loop, deeds>>

\* update_import_filters reads the list, then writes it longer.
ReadFilters(e) ==
    /\ LoopFree /\ e \notin blocklist
    /\ loop' = [Free EXCEPT !.step = "filter", !.base = blocklist \cup {e}]
    /\ UNCHANGED <<rows, prefs, blocklist, mail, cards, deeds>>

WriteFilters ==
    /\ loop.step = "filter"
    /\ blocklist' = loop.base /\ loop' = Free
    /\ UNCHANGED <<rows, prefs, mail, cards, deeds>>

-----------------------------------------------------------------------------
(* A confirmed tool. *)

Ids(c) == cards[c].ids
Sorted(S) == CHOOSE s \in [1..Cardinality(S) -> S] :
                 \A i, j \in DOMAIN s : i < j => s[i] < s[j]

\* As if the rows were deleted before they are copied.
BeginLate(c) == CASE cards[c].tool = "delete_contacts" ->
                        [Free EXCEPT !.step = "notes", !.card = c, !.todo = Sorted(Ids(c))]
                  [] cards[c].tool = "reset_lead_preferences" ->
                        [Free EXCEPT !.step = "prior", !.card = c]
                  [] OTHER -> [Free EXCEPT !.step = "queue", !.card = c]

Begin(c) == CASE cards[c].tool = "delete_contacts" ->
                    [Free EXCEPT !.step = "copy", !.card = c, !.todo = Sorted(Ids(c))]
              [] cards[c].tool = "reset_lead_preferences" ->
                    [Free EXCEPT !.step = "prior", !.card = c]
              [] OTHER -> [Free EXCEPT !.step = "queue", !.card = c]

\* POST /api/pi/confirm-tool, the only way with allow_destructive.
Confirm(c) ==
    /\ LoopFree /\ cards[c].at = "asked" /\ cards[c].attempt < MaxConfirms
    /\ cards' = [cards EXCEPT ![c].at = "running", ![c].attempt = @ + 1]
    /\ loop' = Begin(c)
    /\ UNCHANGED <<rows, prefs, blocklist, mail, deeds>>

Dismiss(c) ==
    /\ cards[c].at = "asked"
    /\ cards' = [cards EXCEPT ![c].at = "cancelled"]
    /\ UNCHANGED <<rows, prefs, blocklist, mail, loop, deeds>>

\* The tool has its result, with the undo when there is something to undo.
Finish(undo) ==
    /\ cards' = [cards EXCEPT ![loop.card].at = "append", ![loop.card].undo = undo]
    /\ loop' = Free

\* The page has no result: it lets the user confirm again.
Failed(c) == [cards EXCEPT ![c].at = "asked", ![c].undo = {},
                           ![c].raised = @ \cup {cards[c].attempt}]

\* The tool's entry is in the history, or there is no thread or only an error
\* to tell: the request answers.
Told(c) ==
    /\ cards[c].at = "append"
    /\ cards' = [cards EXCEPT ![c].at = "done"]
    /\ UNCHANGED <<rows, prefs, blocklist, mail, loop, deeds>>

\* The append raises after the tool has done its work, or the answer is lost.
AnswerFails(c) ==
    /\ cards[c].at = "append" /\ Deed
    /\ cards' = Failed(c)
    /\ UNCHANGED <<rows, prefs, blocklist, mail, loop>>

\* A transaction of the tool rolls back, or the process stops: what the tool
\* has committed stays.  A note added meanwhile still refers to its row, so that
\* the DELETE of the row raises.
StillNoted == loop.step = "contact" /\ Alive(Head(loop.todo)) /\ loop.noted
Raise ==
    /\ loop.step \notin {"free", "filter"}
    /\ Deed \/ (StillNoted /\ UNCHANGED deeds)
    /\ cards' = Failed(loop.card) /\ loop' = Free
    /\ UNCHANGED <<rows, prefs, blocklist, mail>>

\* get_contact, for each id.
CopyRow ==
    /\ loop.step = "copy"
    /\ loop' = IF loop.todo = <<>>
               THEN [loop EXCEPT !.step = "notes", !.todo = Sorted(Ids(loop.card))]
               ELSE [loop EXCEPT !.todo = Tail(@),
                       !.copied = IF Alive(Head(loop.todo))
                                  THEN @ \cup {rows[Head(loop.todo)].email} ELSE @]
    /\ UNCHANGED <<rows, prefs, blocklist, mail, cards, deeds>>

\* delete_contact: the row and its notes, in one transaction.
DeleteNotes ==
    /\ loop.step = "notes" /\ loop.todo # <<>>
    /\ loop' = IF Alive(Head(loop.todo))
               THEN [loop EXCEPT !.step = "contact", !.noted = FALSE]
               ELSE [loop EXCEPT !.todo = Tail(@)]
    /\ UNCHANGED <<rows, prefs, blocklist, mail, cards, deeds>>

DeleteRow ==
    LET i == Head(loop.todo) IN
    /\ loop.step = "contact" /\ ~StillNoted
    /\ rows' = IF Alive(i)
               THEN [rows EXCEPT ![i].by = [who |-> "card", card |-> loop.card,
                                            attempt |-> cards[loop.card].attempt]]
               ELSE rows
    /\ loop' = IF Alive(i) THEN [loop EXCEPT !.step = "learn", !.deleted = @ + 1]
                           ELSE [loop EXCEPT !.step = "notes", !.todo = Tail(@)]
    /\ UNCHANGED <<prefs, blocklist, mail, cards, deeds>>

\* record_delete_feedback, in two transactions.
LearnRead ==
    /\ loop.step = "learn"
    /\ loop' = [loop EXCEPT !.step = "teach", !.base = prefs]
    /\ UNCHANGED <<rows, prefs, blocklist, mail, cards, deeds>>

LearnWrite ==
    /\ loop.step = "teach"
    /\ prefs' = loop.base \cup {rows[Head(loop.todo)].email}
    /\ loop' = [loop EXCEPT !.step = "notes", !.todo = Tail(@)]
    /\ UNCHANGED <<rows, blocklist, mail, cards, deeds>>

\* delete_contact drops what its feedback raises.
Unlearned ==
    /\ loop.step \in {"learn", "teach"} /\ Deed
    /\ loop' = [loop EXCEPT !.step = "notes", !.todo = Tail(@)]
    /\ UNCHANGED <<rows, prefs, blocklist, mail, cards>>

Deleted ==
    /\ loop.step = "notes" /\ loop.todo = <<>>
    /\ Finish(IF loop.deleted > 0 THEN loop.copied ELSE {})
    /\ UNCHANGED <<rows, prefs, blocklist, mail, deeds>>

\* get_prefs, then reset_prefs.
ReadPrior ==
    /\ loop.step = "prior"
    /\ loop' = [loop EXCEPT !.step = "reset", !.base = prefs]
    /\ UNCHANGED <<rows, prefs, blocklist, mail, cards, deeds>>

ResetPrefs ==
    /\ loop.step = "reset"
    /\ prefs' = {}
    /\ cards' = [cards EXCEPT ![loop.card].at = "append", ![loop.card].undo = loop.base,
                    ![loop.card].wiped = @ \cup {[email |-> e, attempt |-> cards[loop.card].attempt] :
                                                 e \in prefs \ loop.since}]
    /\ loop' = Free
    /\ UNCHANGED <<rows, blocklist, mail, deeds>>

Queued(ids) == mail' = mail \cup {[id |-> i, card |-> loop.card] : i \in ids}

\* queue_emails_for_contacts, in one step here: a mail for each contact, or for
\* some of them when it raises on the way.
QueueEmails ==
    /\ loop.step = "queue"
    /\ \/ Queued({i \in Ids(loop.card) : Alive(i)}) /\ Finish({}) /\ UNCHANGED deeds
       \/ /\ Deed /\ cards' = Failed(loop.card) /\ loop' = Free
          /\ \E ids \in SUBSET {i \in Ids(loop.card) : Alive(i)} : Queued(ids)
    /\ UNCHANGED <<rows, prefs, blocklist>>

Tool == \/ WriteFilters \/ CopyRow \/ DeleteNotes \/ DeleteRow \/ Deleted \/ Raise
        \/ LearnRead \/ LearnWrite \/ Unlearned \/ ReadPrior \/ ResetPrefs \/ QueueEmails
        \/ \E c \in DOMAIN cards : Told(c) \/ AnswerFails(c)

-----------------------------------------------------------------------------
(* The user. *)

\* What others write to the preferences while a reset is between its two halves.
Others(new) == loop' = IF loop.step = "reset"
                       THEN [loop EXCEPT !.since = @ \cup (new \ prefs)] ELSE loop

\* DELETE /api/contacts/{id}, with its feedback.
DeleteByHand(i) ==
    /\ Deed /\ Alive(i)
    /\ rows' = [rows EXCEPT ![i].by = User]
    /\ prefs' = prefs \cup {rows[i].email}
    /\ Others(prefs')
    /\ UNCHANGED <<blocklist, mail, cards>>

\* POST /api/contacts/{id}/notes: it matters to the row being deleted only.
AddNote ==
    /\ Deed /\ loop.step = "contact" /\ Alive(Head(loop.todo))
    /\ loop' = [loop EXCEPT !.noted = TRUE]
    /\ UNCHANGED <<rows, prefs, blocklist, mail, cards>>

ImportByHand(e) ==
    /\ Deed /\ Import({e}) /\ rows' # rows
    /\ UNCHANGED <<prefs, blocklist, mail, cards, loop>>

SaveFilters(list) ==
    /\ Deed /\ blocklist' = list /\ list # blocklist
    /\ UNCHANGED <<rows, prefs, mail, cards, loop>>

\* undoPiDestructive: the contacts are imported with the source "undo-restore",
\* the preferences are written back as they were.
Undo(c) ==
    /\ cards[c].at = "done" /\ cards[c].undo # {} /\ ~cards[c].undone
    /\ cards' = [cards EXCEPT ![c].undone = TRUE]
    /\ IF cards[c].tool = "delete_contacts"
       THEN Import(cards[c].undo) /\ UNCHANGED <<prefs, loop>>
       ELSE prefs' = cards[c].undo /\ Others(prefs') /\ UNCHANGED rows
    /\ UNCHANGED <<blocklist, mail, deeds>>

Agent == \/ \E tool \in Destructive, ids \in SUBSET DOMAIN rows :
               /\ (ids = {}) = (tool = "reset_lead_preferences")
               /\ AskFirst(tool, ids)
         \/ \E e \in Addresses : ImportLeads({e})
         \/ \E e \in Refusable : ReadFilters(e)

Person == \/ \E c \in DOMAIN cards : Confirm(c) \/ Dismiss(c) \/ Undo(c)
          \/ \E i \in DOMAIN rows : DeleteByHand(i)
          \/ AddNote
          \/ \E e \in Addresses : ImportByHand(e)
          \/ \E list \in SUBSET Refusable : SaveFilters(list)

Next == Agent \/ Tool \/ Person

-----------------------------------------------------------------------------
\* A contact goes by the user's own hand or by a card he confirmed that names
\* it, and the card then holds its address for the undo, unless the attempt is
\* under way or was not answered well: what an attempt that raised, on its way
\* or in the append after it, had destroyed is offered by none.  What a reset
\* removes is in its undo by the same rule, but for what was learnt after the
\* undo was read.  E-mail of the agent is queued by a card that names the
\* contact.
DestroyedIsOffered ==
    /\ \A i \in DOMAIN rows : rows[i].by.who = "card" =>
          LET card == cards[rows[i].by.card]
              attempt == rows[i].by.attempt
          IN  /\ card.tool = "delete_contacts" /\ i \in card.ids
              /\ \/ attempt \in card.raised
                 \/ card.at = "running" /\ attempt = card.attempt
                 \/ rows[i].email \in card.undo
    /\ \A c \in DOMAIN cards : \A w \in cards[c].wiped :
          w.attempt \in cards[c].raised \/ w.email \in cards[c].undo
    /\ \A m \in mail : cards[m.card].tool = "queue_emails" /\ m.id \in cards[m.card].ids
=============================================================================
