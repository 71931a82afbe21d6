--------------------------- MODULE PermissionKeys ---------------------------
(***************************************************************************)
(* The permission keys of one risk acceptance that is not long term: made  *)
(* or renewed when the request is mailed to the contacts, and expired by a *)
(* job that starts every minute.  Each save is a commit of its own, of the *)
(* whole row as it was read.                                               *)
(***************************************************************************)
EXTENDS Integers, FiniteSets, Sequences

CONSTANTS
    Recipients,  \* accepted_by of the acceptance: the contacts who get the mail
    Sends,       \* requests that mail at the same time
    Life,        \* LIFETIME_HOURS_PERMISSION_KEY, in days
    MaxDay,      \* the clock stops there
    MaxActs      \* sends, decisions and deaths of a request

ASSUME RecipientsAssumption == IsFiniteSet(Recipients) /\ Recipients # {}
ASSUME DaysAssumption == Life \in Nat \ {0} /\ MaxDay \in Nat /\ MaxActs \in Nat

VARIABLES
    key,        \* rows of PermissionKey
    inbox,      \* keys that were mailed
    today,      \* the date
    send,       \* what each request that mails has done and read so far
    job,        \* rows that the job has read and not saved yet
    troubled,   \* two sends ever overlapped, or one died (history)
    acts        \* counter for the bound

keyVars == <<key, inbox, today, send, job, troubled>>

-----------------------------------------------------------------------------
Key == [user : Recipients, status : BOOLEAN, expiration : Nat]

Empty == [i \in {} |-> 0]
Less(rows, i) == [j \in DOMAIN rows \ {i} |-> rows[j]]

\* rows: keys to be renewed, as read.  fresh: there was no key when the loop
\* looked.  link: the key in the mail of each contact.  late: the job was at
\* work meanwhile (history).
NoSend == [step |-> "idle", since |-> 0, rows |-> Empty, todo |-> {},
           fresh |-> FALSE, link |-> Empty, late |-> FALSE]

Busy(s) == send[s].step \in {"renewing", "linking"}

KeysOf(u) == {i \in DOMAIN key : key[i].user = u}

KeysInit ==
    /\ key = <<>> /\ inbox = {} /\ today = 0
    /\ send = [s \in Sends |-> NoSend]
    /\ job = Empty
    /\ troubled = FALSE
    /\ acts = 0

-----------------------------------------------------------------------------
(***************************************************************************)
(* update_or_create_url_risk_acceptance, called when a request is filed    *)
(* and by the link that sends the mail again.                              *)
(***************************************************************************)

\* Seeded fault: a renewed key keeps its day.
RevivedKey(k) == [k EXCEPT !.status = TRUE]

\* update_expiration_date_permission_key, one row
RenewedKey(k) == [k EXCEPT !.expiration = today + Life, !.status = TRUE]

Begin(s) ==
    /\ acts < MaxActs /\ acts' = acts + 1
    /\ ~Busy(s)
    /\ send' = [send EXCEPT ![s] = [NoSend EXCEPT !.step = "renewing",
                                                  !.since = today,
                                                  !.rows = key,
                                                  !.late = DOMAIN job # {}]]
    /\ troubled' = (troubled \/ \E z \in Sends : Busy(z))
    /\ UNCHANGED <<key, inbox, today, job>>

Renew(s, i) ==
    /\ send[s].step = "renewing" /\ i \in DOMAIN send[s].rows
    /\ key' = [key EXCEPT ![i] = RenewedKey(send[s].rows[i])]
    /\ send' = [send EXCEPT ![s].rows = Less(@, i)]
    /\ UNCHANGED <<inbox, today, job, troubled, acts>>

\* generate_url_risk_acceptance: the keys are counted once, for all contacts.
Look(s) ==
    /\ send[s].step = "renewing" /\ DOMAIN send[s].rows = {}
    /\ send' = [send EXCEPT ![s].step = "linking", ![s].todo = Recipients,
                            ![s].fresh = key = <<>>]
    /\ UNCHANGED <<key, inbox, today, job, troubled, acts>>

Link(s, u, i) == [send EXCEPT ![s].todo = @ \ {u},
                              ![s].link = [v \in DOMAIN @ \cup {u} |->
                                              IF v = u THEN i ELSE @[v]]]

\* Seeded fault: the keys are counted again for each contact.
CreatesEach(s) == key = <<>>

\* generate_permision_key makes a key, or expects one
Creates(s) == send[s].fresh

\* PermissionKey.create_token
Create(s, u) ==
    /\ send[s].step = "linking" /\ u \in send[s].todo /\ Creates(s)
    /\ key' = Append(key, [user |-> u, status |-> TRUE,
                           expiration |-> today + Life])
    /\ send' = Link(s, u, Len(key'))
    /\ UNCHANGED <<inbox, today, job, troubled, acts>>

\* PermissionKey.get_token
Find(s, u) ==
    /\ send[s].step = "linking" /\ u \in send[s].todo /\ ~Creates(s)
    /\ \E i \in KeysOf(u) : KeysOf(u) = {i} /\ send' = Link(s, u, i)
    /\ UNCHANGED <<key, inbox, today, job, troubled, acts>>

\* get_token returns None, or raises because it finds two.
Misses(s, u) ==
    /\ send[s].step = "linking" /\ u \in send[s].todo /\ ~Creates(s)
    /\ Cardinality(KeysOf(u)) # 1
    /\ send' = [send EXCEPT ![s].step = "failed"]
    /\ UNCHANGED <<key, inbox, today, job, troubled, acts>>

\* Notification.risk_acceptance_request
Mail(s) ==
    /\ send[s].step = "linking" /\ send[s].todo = {}
    /\ inbox' = inbox \cup {send[s].link[u] : u \in Recipients}
    /\ send' = [send EXCEPT ![s].step = "mailed"]
    /\ UNCHANGED <<key, today, job, troubled, acts>>

\* The worker of the request dies.
SendDies(s) ==
    /\ acts < MaxActs /\ acts' = acts + 1
    /\ Busy(s)
    /\ send' = [send EXCEPT ![s] = NoSend]
    /\ troubled' = TRUE
    /\ UNCHANGED <<key, inbox, today, job>>

-----------------------------------------------------------------------------
(***************************************************************************)
(* risk_pending.expiration_handler, and the clock.                         *)
(***************************************************************************)

DueKey(k) == k.expiration <= today

JobStart ==
    /\ DOMAIN job = {}
    /\ \E i \in DOMAIN key : DueKey(key[i])
    /\ job' = [i \in {j \in DOMAIN key : DueKey(key[j])} |-> key[i]]
    /\ send' = [s \in Sends |-> IF Busy(s) THEN [send[s] EXCEPT !.late = TRUE]
                                          ELSE send[s]]
    /\ UNCHANGED <<key, inbox, today, troubled, acts>>

JobSave(i) ==
    /\ i \in DOMAIN job
    /\ key' = [key EXCEPT ![i] = [job[i] EXCEPT !.status = FALSE]]
    /\ job' = Less(job, i)
    /\ UNCHANGED <<inbox, today, send, troubled, acts>>

NextDay ==
    /\ today < MaxDay /\ today' = today + 1
    /\ UNCHANGED <<key, inbox, send, job, troubled, acts>>

KeysNext ==
    \/ \E s \in Sends : \/ Begin(s) \/ Look(s) \/ Mail(s)
                        \/ SendDies(s)
                        \/ \E i \in DOMAIN key : Renew(s, i)
                        \/ \E u \in Recipients :
                              Create(s, u) \/ Find(s, u) \/ Misses(s, u)
    \/ JobStart
    \/ \E i \in DOMAIN job : JobSave(i)
    \/ NextDay

-----------------------------------------------------------------------------
(***************************************************************************)
(* Properties.                                                             *)
(***************************************************************************)

\* r gives a value of V to some of the elements of S.
Partial(r, S, V) == DOMAIN r \subseteq S /\ r \in [DOMAIN r -> V]

SendState(rows, link) ==
    [step : {"idle", "renewing", "linking", "mailed", "failed"}, since : Nat,
     rows : {rows}, todo : SUBSET Recipients, fresh : BOOLEAN,
     link : {link}, late : BOOLEAN]

\* Every variable has the shape of what it stands for, and a mail that is being
\* put together has a key for each recipient that is not left.
KeysTypeOK ==
    /\ key \in Seq(Key) /\ inbox \subseteq DOMAIN key
    /\ today \in Nat /\ acts \in Nat /\ troubled \in BOOLEAN
    /\ send = [s \in Sends |-> send[s]]
    /\ \A s \in Sends :
          /\ send[s] \in SendState(send[s].rows, send[s].link)
          /\ Partial(send[s].rows, DOMAIN key, Key)
          /\ Partial(send[s].link, Recipients, DOMAIN key)
          /\ send[s].step = "linking"
                => Recipients \subseteq send[s].todo \cup DOMAIN send[s].link
    /\ Partial(job, DOMAIN key, Key)

\* While no two sends have overlapped and none was cut off, each send that
\* ends has mailed to every recipient the one key that the recipient has, and the
\* key lasts for its whole lifetime from that send on, unless the job was at
\* work meanwhile, which may put back the day that it had read.
SendDelivers ==
    \A s \in Sends :
        send[s].step \in {"mailed", "failed"} /\ ~troubled =>
            /\ send[s].step = "mailed"
            /\ \A u \in Recipients : \E i \in inbox :
                  /\ KeysOf(u) = {i}
                  /\ send[s].late \/ key[i].expiration >= send[s].since + Life
=============================================================================
