----------------------- MODULE RiskConfirmationProofs -----------------------
(***************************************************************************)
(* Proofs about RiskConfirmation, for any contacts, recipients, findings,  *)
(* decisions, mails and numbers.                                            *)
(***************************************************************************)
EXTENDS RiskConfirmation, FiniteSetTheorems, TLAPS

-----------------------------------------------------------------------------
(***************************************************************************)
(* The invariant.                                                          *)
(***************************************************************************)

\* An accepted row has all its names.
Sound(x) == x.risk_accepted => /\ Cardinality(x.accepted_by) = Acceptors
                               /\ x.risk_status = "Risk Accepted"

\* What must hold of a decision c when the findings are `now`.

TypedDecision(c) ==
    /\ c \in DecisionState(c.rows)
    /\ Partial(c.rows, Findings, Row)
    /\ c.step = "running" => c.who \in Users

\* Every row that it has read, and may save, has all its names if accepted.
SoundRows(c) == \A f \in DOMAIN c.rows : Sound(c.rows[f])

\* What it holds between its two saves is open and has all its names, that of
\* the one who decides among them.
Closing(c) ==
    \A f \in c.saved :
        /\ c.step = "running" /\ c.what = "accept" /\ c.saved = {f}
        /\ f \in DOMAIN c.rows
        /\ Cardinality(c.rows[f].accepted_by) = Acceptors
        /\ c.who \in c.rows[f].accepted_by
        /\ c.rows[f].active /\ ~c.rows[f].is_mitigated

\* A row that nobody else has saved is still as it was read.
Current(c, now) ==
    c.step # "idle" => \A f \in DOMAIN c.rows \ c.stale : c.rows[f] = now[f]

\* A finding that could be confirmed waits for its turn, or has been confirmed.
Served(c, now) ==
    c.step # "idle" /\ c.what = "accept" =>
        \A f \in c.open \ c.stale :
            \/ f \in DOMAIN c.rows /\ c.saved # {f} /\ Confirmable(c.rows[f])
            \/ c.who \in now[f].accepted_by

Answered(c) == c.step = "ok" => DOMAIN c.rows = {}

Good(c, now) ==
    /\ TypedDecision(c) /\ SoundRows(c) /\ Closing(c)
    /\ Current(c, now) /\ Served(c, now) /\ Answered(c)

Inv ==
    /\ TypeOK
    /\ \A f \in Findings : Sound(finding[f])
    /\ \A d \in Decisions : Good(decision[d], finding)
    /\ FullIsInHand

\* Each recipient has one key.
OneKey == \A u \in Recipients : \E i \in DOMAIN key : KeysOf(u) = {i}

AllOrNone == key = <<>> \/ OneKey

\* Rows that were read have the user of their key.
SameUsers ==
    /\ \A s \in Sends : \A i \in DOMAIN send[s].rows : send[s].rows[i].user = key[i].user
    /\ \A i \in DOMAIN job : job[i].user = key[i].user

\* The keys of S last for the lifetime from the beginning of mail s on.
Lasts(s, S) == \A i \in S : key[i].expiration >= send[s].since + Life

\* A mail whose loop over the contacts is under way: those it is done with have
\* the key of their link.
Linked(s) ==
    /\ \A u \in Recipients \ send[s].todo : KeysOf(u) = {send[s].link[u]}
    /\ IF send[s].fresh THEN \A u \in send[s].todo : KeysOf(u) = {} ELSE OneKey

\* How far a mail is that no other has overlapped.
Orderly(s) ==
    /\ send[s].since <= today /\ send[s].step # "failed"
    /\ send[s].step = "renewing" =>
          /\ AllOrNone
          /\ ~send[s].late => /\ DOMAIN job = {}
                              /\ Lasts(s, DOMAIN key \ DOMAIN send[s].rows)
    /\ send[s].step = "linking" =>
          /\ Linked(s)
          /\ ~send[s].late => DOMAIN job = {} /\ Lasts(s, DOMAIN key)
    /\ send[s].step = "mailed" =>
          /\ \A u \in Recipients : \E i \in inbox : KeysOf(u) = {i}
          /\ ~send[s].late => /\ Lasts(s, DOMAIN key)
                              /\ \A i \in DOMAIN job :
                                    job[i].expiration >= send[s].since + Life

Untroubled ==
    /\ \A s \in Sends : Orderly(s)
    /\ \A s, z \in Sends : Busy(s) /\ Busy(z) => s = z
    /\ (\A s \in Sends : ~Busy(s)) => AllOrNone

KeysInv == KeysTypeOK /\ SameUsers /\ (~troubled => Untroubled)

-----------------------------------------------------------------------------
(***************************************************************************)
(* Keys and mails.                                                         *)
(***************************************************************************)

\* The empty function gives a value to some elements of any set.
LEMMA EmptyIsPartial == ASSUME NEW S, NEW V PROVE Partial(Empty, S, V)
  BY DEF Partial, Empty

\* Taking one argument away leaves a partial function.
LEMMA LessIsPartial ==
    ASSUME NEW S, NEW V, NEW r, Partial(r, S, V), NEW i
    PROVE  Partial(Less(r, i), S, V) /\ DOMAIN Less(r, i) = DOMAIN r \ {i}
  BY DEF Partial, Less

\* A partial function on a set is one on every larger set.
LEMMA MorePartial ==
    ASSUME NEW S, NEW T, NEW V, NEW r, Partial(r, S, V), S \subseteq T
    PROVE  Partial(r, T, V)
  BY DEF Partial

\* A partial function with values in a set has them in every larger set.
LEMMA MoreValues ==
    ASSUME NEW S, NEW V, NEW W, NEW r, Partial(r, S, V), V \subseteq W
    PROVE  Partial(r, S, W)
  BY DEF Partial

\* A step that changes one mail leaves the others and the keys well typed.
LEMMA OneSend ==
    ASSUME KeysTypeOK, NEW s \in Sends, NEW x,
           send' = [send EXCEPT ![s] = x],
           key' \in Seq(Key), DOMAIN key \subseteq DOMAIN key',
           inbox' \subseteq DOMAIN key', today' \in Nat, acts' \in Nat,
           troubled' \in BOOLEAN, UNCHANGED job,
           x \in SendState(x.rows, x.link),
           Partial(x.rows, DOMAIN key', Key),
           Partial(x.link, Recipients, DOMAIN key'),
           x.step = "linking" => Recipients \subseteq x.todo \cup DOMAIN x.link
    PROVE  KeysTypeOK'
<1>1. send' = [z \in Sends |-> send'[z]]
  BY DEF KeysTypeOK
<1>2. ASSUME NEW z \in Sends
      PROVE  /\ send'[z] \in SendState(send'[z].rows, send'[z].link)
             /\ Partial(send'[z].rows, DOMAIN key', Key)
             /\ Partial(send'[z].link, Recipients, DOMAIN key')
             /\ send'[z].step = "linking"
                  => Recipients \subseteq send'[z].todo \cup DOMAIN send'[z].link
  <2>1. CASE z = s
    <3>1. send'[z] = x
      BY <2>1 DEF KeysTypeOK
    <3> QED  BY <3>1
  <2>2. CASE z # s
    <3>1. send'[z] = send[z]
      BY <2>2 DEF KeysTypeOK
    <3>2. /\ Partial(send[z].rows, DOMAIN key, Key)
          /\ Partial(send[z].link, Recipients, DOMAIN key)
      BY DEF KeysTypeOK
    <3>3. Partial(send[z].rows, DOMAIN key', Key)
      BY <3>2, MorePartial
    <3>4. Partial(send[z].link, Recipients, DOMAIN key')
      BY <3>2, MoreValues
    <3> QED  BY <3>1, <3>3, <3>4 DEF KeysTypeOK
  <2> QED  BY <2>1, <2>2
<1>3. Partial(job', DOMAIN key', Key)
  <2>1. Partial(job, DOMAIN key, Key)
    BY DEF KeysTypeOK
  <2> QED  BY <2>1, MorePartial
<1> QED  BY <1>1, <1>2, <1>3 DEF KeysTypeOK

\* No mail, no key.
LEMMA NoSendTyped ==
    /\ NoSend \in SendState(NoSend.rows, NoSend.link)
    /\ NoSend.step = "idle" /\ NoSend.rows = Empty /\ NoSend.link = Empty
  BY DEF NoSend, SendState

\* The keys start well typed.
LEMMA KeysInitTyped == ASSUME KeysInit PROVE KeysTypeOK
<1>1. \A s \in Sends : send[s] = NoSend
  BY DEF KeysInit
<1>2. send = [s \in Sends |-> send[s]]
  BY DEF KeysInit
<1>3. /\ key \in Seq(Key) /\ inbox \subseteq DOMAIN key
      /\ today \in Nat /\ acts \in Nat /\ troubled \in BOOLEAN
  <2>1. key = <<>> /\ inbox = {} /\ today = 0 /\ acts = 0 /\ troubled = FALSE
    BY DEF KeysInit
  <2>2. key \in Seq(Key)
    BY <2>1
  <2> QED  BY <2>1, <2>2
<1>4. Partial(job, DOMAIN key, Key)
  BY EmptyIsPartial DEF KeysInit
<1>5. ASSUME NEW s \in Sends
      PROVE  /\ send[s] \in SendState(send[s].rows, send[s].link)
             /\ Partial(send[s].rows, DOMAIN key, Key)
             /\ Partial(send[s].link, Recipients, DOMAIN key)
             /\ send[s].step # "linking"
  BY <1>1, NoSendTyped, EmptyIsPartial
<1> QED
  BY <1>2, <1>3, <1>4, <1>5 DEF KeysTypeOK

\* The rows of the keys are a function from a set to keys.
LEMMA KeysArePartial ==
    ASSUME key \in Seq(Key) PROVE Partial(key, DOMAIN key, Key)
  BY DEF Partial

\* What a mail is, as one fact.
LEMMA SendIs ==
    ASSUME KeysTypeOK, NEW s \in Sends
    PROVE  /\ send[s] \in SendState(send[s].rows, send[s].link)
           /\ Partial(send[s].rows, DOMAIN key, Key)
           /\ Partial(send[s].link, Recipients, DOMAIN key)
           /\ send[s].step = "linking"
                => Recipients \subseteq send[s].todo \cup DOMAIN send[s].link
  BY DEF KeysTypeOK

\* A mail that begins has read all keys.
LEMMA BeginTyped ==
    ASSUME KeysTypeOK, NEW s \in Sends, Begin(s) PROVE KeysTypeOK'
<1> DEFINE x == [NoSend EXCEPT !.step = "renewing", !.since = today, !.rows = key,
                               !.late = DOMAIN job # {}]
<1>1. /\ x \in SendState(x.rows, x.link) /\ x.rows = key /\ x.link = Empty
      /\ x.step = "renewing"
  BY DEF NoSend, SendState, KeysTypeOK
<1>2. send' = [send EXCEPT ![s] = x]
  BY DEF Begin
<1>3. Partial(x.rows, DOMAIN key', Key) /\ Partial(x.link, Recipients, DOMAIN key')
  BY <1>1, KeysArePartial, EmptyIsPartial DEF Begin, KeysTypeOK
<1>4. /\ key' \in Seq(Key) /\ DOMAIN key \subseteq DOMAIN key' /\ inbox' \subseteq DOMAIN key'
      /\ today' \in Nat /\ acts' \in Nat /\ UNCHANGED job
  BY DEF Begin, KeysTypeOK
<1>5. troubled' \in BOOLEAN
  BY DEF Begin, KeysTypeOK
<1> HIDE DEF x
<1> QED  BY <1>1, <1>2, <1>3, <1>4, <1>5, OneSend, Zenon

\* A renewed key is a key.
LEMMA RenewTyped ==
    ASSUME KeysTypeOK, NEW s \in Sends, NEW i \in DOMAIN key, Renew(s, i)
    PROVE  KeysTypeOK' /\ DOMAIN key' = DOMAIN key
<1> DEFINE x == [send[s] EXCEPT !.rows = Less(@, i)]
<1>1. /\ send[s] \in SendState(send[s].rows, send[s].link)
      /\ Partial(send[s].rows, DOMAIN key, Key)
      /\ Partial(send[s].link, Recipients, DOMAIN key)
      /\ send[s].step = "renewing" /\ i \in DOMAIN send[s].rows
  BY SendIs DEF Renew
<1>2. /\ x \in SendState(x.rows, x.link) /\ x.rows = Less(send[s].rows, i)
      /\ x.link = send[s].link /\ x.step = "renewing"
  BY <1>1 DEF SendState
<1>3. send' = [send EXCEPT ![s] = x]
  BY DEF Renew
<1>4. send[s].rows[i] \in Key
  BY <1>1 DEF Partial
<1>5. RenewedKey(send[s].rows[i]) \in Key
  <2>1. today + Life \in Nat
    BY DaysAssumption DEF KeysTypeOK
  <2> DEFINE d == today + Life
             k == send[s].rows[i]
  <2> HIDE DEF d, k
  <2>2. [k EXCEPT !.expiration = d, !.status = TRUE] \in Key
    BY <1>4, <2>1 DEF Key, d, k
  <2> QED  BY <2>2 DEF RenewedKey, d, k
<1>6. key' \in Seq(Key) /\ DOMAIN key' = DOMAIN key
  BY <1>5 DEF Renew, KeysTypeOK
<1>7. /\ inbox' \subseteq DOMAIN key' /\ today' \in Nat /\ acts' \in Nat
      /\ troubled' \in BOOLEAN /\ UNCHANGED job
  BY <1>6 DEF Renew, KeysTypeOK
<1> HIDE DEF x
<1>8. Partial(x.rows, DOMAIN key', Key) /\ Partial(x.link, Recipients, DOMAIN key')
  <2>1. Partial(Less(send[s].rows, i), DOMAIN key, Key)
    BY <1>1, LessIsPartial
  <2> QED  BY <1>1, <1>2, <1>6, <2>1
<1> QED  BY <1>2, <1>3, <1>6, <1>7, <1>8, OneSend, Zenon

\* The loop over the contacts starts with all of them.
LEMMA LookTyped ==
    ASSUME KeysTypeOK, NEW s \in Sends, Look(s) PROVE KeysTypeOK'
<1> DEFINE x == [send[s] EXCEPT !.step = "linking", !.todo = Recipients, !.fresh = key = <<>>]
<1>1. /\ send[s] \in SendState(send[s].rows, send[s].link)
      /\ Partial(send[s].rows, DOMAIN key, Key)
      /\ Partial(send[s].link, Recipients, DOMAIN key)
  BY SendIs
<1>2. /\ x \in SendState(x.rows, x.link) /\ x.rows = send[s].rows
      /\ x.link = send[s].link /\ x.todo = Recipients
  BY <1>1 DEF SendState
<1>3. send' = [send EXCEPT ![s] = x]
  BY DEF Look
<1>4. /\ key' \in Seq(Key) /\ key' = key /\ inbox' \subseteq DOMAIN key'
      /\ today' \in Nat /\ acts' \in Nat
      /\ troubled' \in BOOLEAN /\ UNCHANGED job
  BY DEF Look, KeysTypeOK
<1> HIDE DEF x
<1>5. Partial(x.rows, DOMAIN key', Key) /\ Partial(x.link, Recipients, DOMAIN key')
  BY <1>1, <1>2, <1>4
<1>6. DOMAIN key \subseteq DOMAIN key' /\ Recipients \subseteq x.todo \cup DOMAIN x.link
  BY <1>2, <1>4
<1> QED  BY <1>2, <1>3, <1>4, <1>5, <1>6, OneSend, Zenon

\* A link to a key that exists.
LEMMA LinkTyped ==
    ASSUME KeysTypeOK, NEW s \in Sends, NEW u \in Recipients, NEW i,
           send[s].step = "linking", send' = Link(s, u, i),
           key' \in Seq(Key), DOMAIN key \subseteq DOMAIN key', i \in DOMAIN key',
           UNCHANGED <<inbox, today, job, troubled, acts>>
    PROVE  KeysTypeOK'
<1> DEFINE l == [v \in DOMAIN send[s].link \cup {u} |->
                    IF v = u THEN i ELSE send[s].link[v]]
           x == [send[s] EXCEPT !.todo = @ \ {u}, !.link = l]
<1>1. /\ send[s] \in SendState(send[s].rows, send[s].link)
      /\ Partial(send[s].rows, DOMAIN key, Key)
      /\ Partial(send[s].link, Recipients, DOMAIN key)
      /\ Recipients \subseteq send[s].todo \cup DOMAIN send[s].link
  BY SendIs
<1>2. Partial(l, Recipients, DOMAIN key') /\ DOMAIN l = DOMAIN send[s].link \cup {u}
  BY <1>1 DEF Partial
<1> HIDE DEF l
<1>3. /\ x \in SendState(x.rows, x.link) /\ x.rows = send[s].rows
      /\ x.link = l /\ x.todo = send[s].todo \ {u}
  BY <1>1 DEF SendState
<1>4. send' = [send EXCEPT ![s] = x]
  BY DEF Link, l
<1>5. /\ inbox' \subseteq DOMAIN key' /\ today' \in Nat /\ acts' \in Nat
      /\ troubled' \in BOOLEAN /\ UNCHANGED job
  BY DEF KeysTypeOK
<1> HIDE DEF x
<1>6. Partial(x.rows, DOMAIN key', Key)
  BY <1>1, <1>3, MorePartial
<1>7. Partial(x.link, Recipients, DOMAIN key') /\ Recipients \subseteq x.todo \cup DOMAIN x.link
  BY <1>1, <1>2, <1>3
<1> QED  BY <1>3, <1>4, <1>5, <1>6, <1>7, OneSend, Zenon

\* A new key is a key, and its number is the length of the table.
LEMMA CreateTyped ==
    ASSUME KeysTypeOK, NEW s \in Sends, NEW u \in Recipients, Create(s, u)
    PROVE  KeysTypeOK' /\ DOMAIN key \subseteq DOMAIN key'
<1> DEFINE k == [user |-> u, status |-> TRUE, expiration |-> today + Life]
<1>1. k \in Key
  BY DaysAssumption DEF Key, KeysTypeOK
<1>2. key' = Append(key, k) /\ key \in Seq(Key)
  BY DEF Create, KeysTypeOK
<1> HIDE DEF k
<1>3. key' \in Seq(Key) /\ DOMAIN key \subseteq DOMAIN key' /\ Len(key') \in DOMAIN key'
  BY <1>1, <1>2
<1>4. send[s].step = "linking" /\ send' = Link(s, u, Len(key'))
  BY DEF Create
<1>5. UNCHANGED <<inbox, today, job, troubled, acts>>
  BY DEF Create
<1> QED  BY <1>3, <1>4, <1>5, LinkTyped

\* The key of a contact is a row of the table.
LEMMA FindTyped ==
    ASSUME KeysTypeOK, NEW s \in Sends, NEW u \in Recipients, Find(s, u)
    PROVE  KeysTypeOK'
<1>1. PICK i \in KeysOf(u) : send' = Link(s, u, i)
  BY DEF Find
<1>2. i \in DOMAIN key
  BY DEF KeysOf
<1>3. key' \in Seq(Key) /\ DOMAIN key \subseteq DOMAIN key' /\ i \in DOMAIN key'
  BY <1>2 DEF Find, KeysTypeOK
<1>4. send[s].step = "linking" /\ UNCHANGED <<inbox, today, job, troubled, acts>>
  BY DEF Find
<1> QED  BY <1>1, <1>3, <1>4, LinkTyped

\* A mail that only changes its step keeps its keys.
LEMMA StepTyped ==
    ASSUME KeysTypeOK, NEW s \in Sends, NEW p \in {"mailed", "failed"},
           send' = [send EXCEPT ![s].step = p],
           inbox' \subseteq DOMAIN key, UNCHANGED <<key, today, job, troubled, acts>>
    PROVE  KeysTypeOK'
<1> DEFINE x == [send[s] EXCEPT !.step = p]
<1>1. /\ send[s] \in SendState(send[s].rows, send[s].link)
      /\ Partial(send[s].rows, DOMAIN key, Key)
      /\ Partial(send[s].link, Recipients, DOMAIN key)
  BY SendIs
<1>2. /\ x \in SendState(x.rows, x.link) /\ x.rows = send[s].rows
      /\ x.link = send[s].link /\ x.step = p
  BY <1>1 DEF SendState
<1>3. send' = [send EXCEPT ![s] = x]
  OBVIOUS
<1>4. /\ key' \in Seq(Key) /\ key' = key /\ inbox' \subseteq DOMAIN key'
      /\ today' \in Nat /\ acts' \in Nat
      /\ troubled' \in BOOLEAN /\ UNCHANGED job
  BY DEF KeysTypeOK
<1> HIDE DEF x
<1>5. Partial(x.rows, DOMAIN key', Key) /\ Partial(x.link, Recipients, DOMAIN key')
  BY <1>1, <1>2, <1>4
<1>6. DOMAIN key \subseteq DOMAIN key' /\ x.step # "linking"
  BY <1>2, <1>4
<1> QED  BY <1>2, <1>3, <1>4, <1>5, <1>6, OneSend, Zenon

\* A mail has the keys of all recipients, each a row of the table.
LEMMA MailTyped ==
    ASSUME KeysTypeOK, NEW s \in Sends, Mail(s) PROVE KeysTypeOK'
<1>1. Recipients \subseteq DOMAIN send[s].link
  BY SendIs DEF Mail
<1>2. \A u \in Recipients : send[s].link[u] \in DOMAIN key
  BY <1>1, SendIs DEF Partial
<1>3. inbox' \subseteq DOMAIN key
  BY <1>2 DEF Mail, KeysTypeOK
<1> QED  BY <1>3, StepTyped DEF Mail

\* A mail that is cut off leaves nothing behind in the request.
LEMMA SendDiesTyped ==
    ASSUME KeysTypeOK, NEW s \in Sends, SendDies(s) PROVE KeysTypeOK'
<1>1. send' = [send EXCEPT ![s] = NoSend]
  BY DEF SendDies
<1>2. /\ key' \in Seq(Key) /\ DOMAIN key \subseteq DOMAIN key' /\ inbox' \subseteq DOMAIN key'
      /\ today' \in Nat /\ acts' \in Nat /\ troubled' \in BOOLEAN /\ UNCHANGED job
  BY DEF SendDies, KeysTypeOK
<1>3. /\ Partial(NoSend.rows, DOMAIN key', Key)
      /\ Partial(NoSend.link, Recipients, DOMAIN key')
      /\ NoSend.step # "linking"
  BY NoSendTyped, EmptyIsPartial
<1> QED  BY <1>1, <1>2, <1>3, NoSendTyped, OneSend, Zenon

\* The job reads rows of the table.
LEMMA JobStartTyped == ASSUME KeysTypeOK, JobStart PROVE KeysTypeOK'
<1>1. Partial(job', DOMAIN key', Key)
  BY DEF JobStart, Partial, KeysTypeOK
<1>2. /\ key' \in Seq(Key) /\ inbox' \subseteq DOMAIN key' /\ key' = key
      /\ today' \in Nat /\ acts' \in Nat /\ troubled' \in BOOLEAN
  BY DEF JobStart, KeysTypeOK
<1>3. send' = [s \in Sends |-> send'[s]]
  BY DEF JobStart
<1>4. ASSUME NEW s \in Sends
      PROVE  /\ send'[s] \in SendState(send'[s].rows, send'[s].link)
             /\ Partial(send'[s].rows, DOMAIN key', Key)
             /\ Partial(send'[s].link, Recipients, DOMAIN key')
             /\ send'[s].step = "linking"
                  => Recipients \subseteq send'[s].todo \cup DOMAIN send'[s].link
  <2>1. send'[s] \in {send[s], [send[s] EXCEPT !.late = TRUE]}
    BY DEF JobStart
  <2>2. /\ send'[s] \in SendState(send[s].rows, send[s].link)
        /\ send'[s].rows = send[s].rows /\ send'[s].link = send[s].link
        /\ send'[s].todo = send[s].todo /\ send'[s].step = send[s].step
    BY <2>1, SendIs DEF SendState
  <2> QED  BY <1>2, <2>2, SendIs
<1> QED  BY <1>1, <1>2, <1>3, <1>4 DEF KeysTypeOK

\* An expired key is a key.
LEMMA JobSaveTyped ==
    ASSUME KeysTypeOK, NEW i \in DOMAIN job, JobSave(i)
    PROVE  KeysTypeOK' /\ DOMAIN key' = DOMAIN key
<1>1. Partial(job, DOMAIN key, Key)
  BY DEF KeysTypeOK
<1>2. job[i] \in Key
  BY <1>1 DEF Partial
<1>3. key' \in Seq(Key) /\ DOMAIN key' = DOMAIN key
  <2> DEFINE k == [job[i] EXCEPT !.status = FALSE]
  <2>1. k \in Key
    BY <1>2 DEF Key
  <2>2. key' = [key EXCEPT ![i] = k] /\ i \in DOMAIN key
    BY <1>1 DEF JobSave, Partial
  <2> HIDE DEF k
  <2> QED  BY <2>1, <2>2 DEF KeysTypeOK
<1>4. Partial(job', DOMAIN key', Key)
  BY <1>1, <1>3, LessIsPartial DEF JobSave
<1>5. /\ inbox' \subseteq DOMAIN key' /\ today' \in Nat /\ acts' \in Nat
      /\ troubled' \in BOOLEAN /\ send' = send
  BY <1>3 DEF JobSave, KeysTypeOK
<1>6. \A s \in Sends : /\ Partial(send'[s].rows, DOMAIN key', Key)
                       /\ Partial(send'[s].link, Recipients, DOMAIN key')
  BY <1>3, <1>5, SendIs
<1> QED  BY <1>3, <1>4, <1>5, <1>6 DEF KeysTypeOK

\* No step of the keys breaks their types, and none loses a row.
LEMMA KeysNextTyped ==
    ASSUME KeysTypeOK, KeysNext PROVE KeysTypeOK' /\ DOMAIN key \subseteq DOMAIN key'
<1>1. CASE \E s \in Sends : Begin(s) \/ Look(s) \/ Mail(s) \/ SendDies(s)
  <2>1. key' = key
    BY <1>1 DEF Begin, Look, Mail, SendDies
  <2> QED  BY <1>1, <2>1, BeginTyped, LookTyped, MailTyped, SendDiesTyped
<1>2. CASE \E s \in Sends : \E i \in DOMAIN key : Renew(s, i)
  BY <1>2, RenewTyped
<1>3. ASSUME NEW s \in Sends, NEW u \in Recipients, Create(s, u)
      PROVE  KeysTypeOK' /\ DOMAIN key \subseteq DOMAIN key'
  BY <1>3, CreateTyped
<1>4. ASSUME NEW s \in Sends, NEW u \in Recipients, Find(s, u)
      PROVE  KeysTypeOK' /\ DOMAIN key \subseteq DOMAIN key'
  <2>1. key' = key
    BY <1>4 DEF Find
  <2> QED  BY <1>4, <2>1, FindTyped
<1>5. ASSUME NEW s \in Sends, NEW u \in Recipients, Misses(s, u)
      PROVE  KeysTypeOK' /\ DOMAIN key \subseteq DOMAIN key'
  BY <1>5, StepTyped DEF Misses, KeysTypeOK
<1>6. CASE JobStart
  BY <1>6, JobStartTyped DEF JobStart
<1>7. CASE \E i \in DOMAIN job : JobSave(i)
  BY <1>7, JobSaveTyped
<1>8. CASE NextDay
  <2>1. /\ today' \in Nat /\ UNCHANGED <<key, inbox, send, job, troubled, acts>>
    BY <1>8 DEF NextDay, KeysTypeOK
  <2> QED  BY <2>1 DEF KeysTypeOK
<1> QED  BY <1>1, <1>2, <1>3, <1>4, <1>5, <1>6, <1>7, <1>8 DEF KeysNext

-----------------------------------------------------------------------------
(***************************************************************************)
(* Rows of findings.                                                       *)
(***************************************************************************)

\* A save changes at most whether a finding is closed.
LEMMA SaveKeeps ==
    ASSUME NEW x \in Row, NEW y \in Row
    PROVE  /\ Save(x, y) \in Row
           /\ Save(x, y).accepted_by = y.accepted_by
           /\ Save(x, y).risk_status = y.risk_status
           /\ Save(x, y).risk_accepted = y.risk_accepted
           /\ y.active /\ ~y.is_mitigated => Save(x, y) = y
           /\ Sound(y) => Sound(Save(x, y))
<1>1. CASE Save(x, y) = y
  BY <1>1
<1>2. CASE Save(x, y) = [y EXCEPT !.is_mitigated = FALSE]
  BY <1>2 DEF Row, Sound
<1> QED  BY <1>1, <1>2 DEF Save

\* One more name on an open row that waits for names.
LEMMA NamedRow ==
    ASSUME NEW x \in Row, Confirmable(x), Sound(x), NEW u \in Users, u \notin x.accepted_by
    PROVE  LET y == Named(x, u)
           IN  /\ y \in Row /\ y # x /\ Sound(y)
               /\ y.accepted_by = x.accepted_by \cup {u}
               /\ y.active /\ ~y.is_mitigated
               /\ y.risk_accepted = x.risk_accepted
               /\ Cardinality(y.accepted_by) = Cardinality(x.accepted_by) + 1
               /\ IsFiniteSet(y.accepted_by) /\ Cardinality(x.accepted_by) \in Nat
<1> DEFINE y == Named(x, u)
<1>1. /\ y \in Row /\ y.accepted_by = x.accepted_by \cup {u}
      /\ y.active = x.active /\ y.is_mitigated = x.is_mitigated
      /\ y.risk_accepted = x.risk_accepted
  BY DEF Named, ConfirmedRow, Row, RiskStatus
<1>2. x.active /\ ~x.is_mitigated /\ ~x.risk_accepted
  BY DEF Confirmable, Sound
<1>3. IsFiniteSet(x.accepted_by)
  BY PeopleAssumption, FS_Subset DEF Row
<1>4. /\ Cardinality(x.accepted_by \cup {u}) = Cardinality(x.accepted_by) + 1
      /\ IsFiniteSet(x.accepted_by \cup {u}) /\ Cardinality(x.accepted_by) \in Nat
  BY <1>3, FS_AddElement, FS_CardinalityType
<1>5. Sound(y)
  BY <1>1, <1>2 DEF Sound
<1>6. y # x
  BY <1>1
<1> HIDE DEF y
<1>7. /\ y \in Row /\ y # x /\ Sound(y)
      /\ y.accepted_by = x.accepted_by \cup {u}
      /\ y.active /\ ~y.is_mitigated
      /\ y.risk_accepted = x.risk_accepted
      /\ Cardinality(y.accepted_by) = Cardinality(x.accepted_by) + 1
      /\ IsFiniteSet(y.accepted_by) /\ Cardinality(x.accepted_by) \in Nat
  BY <1>1, <1>2, <1>4, <1>5, <1>6
<1> QED  BY <1>7 DEF y

\* The second save of a row that has all its names.
LEMMA AcceptedIsSound ==
    ASSUME NEW x \in Row, x.active, Cardinality(x.accepted_by) = Acceptors, NEW f
    PROVE  /\ Accepted(f, x) \in Row /\ Sound(Accepted(f, x))
           /\ Accepted(f, x).accepted_by = x.accepted_by
           /\ Accepted(f, x).risk_accepted
           /\ Accepted(f, x).risk_status = "Risk Accepted"
  BY DEF Accepted, SucceededRow, Sound, Row, RiskStatus

\* A rejected row is not accepted.
LEMMA DeclinedIsSound ==
    ASSUME NEW x \in Row
    PROVE  /\ DeclinedRow(x) \in Row /\ Sound(DeclinedRow(x))
           /\ DeclinedRow(x).risk_status = "Risk Rejected"
<1> DEFINE y == [x EXCEPT !.active = TRUE, !.risk_accepted = FALSE,
                          !.risk_status = "Risk Rejected", !.accepted_by = {}]
<1>1. y \in Row /\ Sound(y) /\ y.risk_status = "Risk Rejected"
  BY DEF Row, RiskStatus, Sound
<1>2. DeclinedRow(x) = Save(x, y)
  BY DEF DeclinedRow
<1> HIDE DEF y
<1>3. /\ Save(x, y) \in Row /\ Sound(Save(x, y))
      /\ Save(x, y).risk_status = "Risk Rejected"
  BY <1>1, SaveKeeps
<1> QED  BY <1>2, <1>3

\* A row that is taken out of the request is not accepted.
LEMMA ReleasedIsSound ==
    ASSUME NEW x \in Row
    PROVE  /\ ReleasedRow(x) \in Row /\ Sound(ReleasedRow(x))
           /\ ReleasedRow(x).risk_status = "Risk Active"
<1> DEFINE y == [x EXCEPT !.active = TRUE, !.risk_accepted = FALSE,
                          !.risk_status = "Risk Active", !.accepted_by = {}]
<1>1. y \in Row /\ Sound(y) /\ y.risk_status = "Risk Active"
  BY DEF Row, RiskStatus, Sound
<1>2. ReleasedRow(x) = Save(x, y)
  BY DEF ReleasedRow
<1> HIDE DEF y
<1>3. /\ Save(x, y) \in Row /\ Sound(Save(x, y))
      /\ Save(x, y).risk_status = "Risk Active"
  BY <1>1, SaveKeeps
<1> QED  BY <1>2, <1>3

-----------------------------------------------------------------------------
(***************************************************************************)
(* Decisions.                                                              *)
(***************************************************************************)

\* A decision in which nothing happens stays good, but for the rows that
\* another one has saved, which are stale then.
LEMMA OtherIsGood ==
    ASSUME NEW c, NEW now, Good(c, now), NEW then, NEW f \in Findings,
           \A g \in Findings \ {f} : then[g] = now[g],
           NEW n, n = IF c.step # "idle" THEN [c EXCEPT !.stale = @ \cup {f}] ELSE c
    PROVE  Good(n, then)
<1>1. /\ c \in DecisionState(c.rows) /\ Partial(c.rows, Findings, Row)
      /\ DOMAIN c.rows \subseteq Findings
  BY DEF Good, TypedDecision, Partial
<1>2. /\ n \in DecisionState(c.rows) /\ n.rows = c.rows /\ n.step = c.step
      /\ n.what = c.what /\ n.who = c.who /\ n.saved = c.saved /\ n.open = c.open
      /\ c.step # "idle" => n.stale = c.stale \cup {f}
      /\ n.open \subseteq Findings
  BY <1>1 DEF DecisionState
<1>3. TypedDecision(n) /\ SoundRows(n) /\ Closing(n) /\ Answered(n)
  BY <1>1, <1>2 DEF Good, TypedDecision, SoundRows, Closing, Answered
<1>4. Current(n, then)
  BY <1>1, <1>2 DEF Good, Current
<1>5. Served(n, then)
  BY <1>1, <1>2 DEF Good, Served
<1> QED  BY <1>3, <1>4, <1>5 DEF Good

\* A save of one finding: the decision that saves it has to be good after it.
LEMMA SaveIsGood ==
    ASSUME Inv, NEW d \in Decisions, NEW f \in Findings, NEW x \in Row, NEW new,
           SaveRow(d, f, x, new), Sound(x),
           Good(new, [finding EXCEPT ![f] = Save(@, x)]),
           x.risk_status = "Risk Pending" /\ Cardinality(x.accepted_by) >= Acceptors
             => new.saved = {f},
           decision[d].saved \subseteq {f},
           enrolled' \subseteq Findings, UNCHANGED <<orphaned, keyVars, acts>>
    PROVE  Inv'
<1> DEFINE then == [finding EXCEPT ![f] = Save(@, x)]
<1>1. finding' = then /\ finding \in [Findings -> Row]
  BY DEF SaveRow, Inv, TypeOK
<1>2. /\ Save(finding[f], x) \in Row /\ Sound(Save(finding[f], x))
      /\ Save(finding[f], x).accepted_by = x.accepted_by
      /\ Save(finding[f], x).risk_status = x.risk_status
  <2>1. finding[f] \in Row
    BY <1>1
  <2> QED  BY <2>1, SaveKeeps DEF Sound
<1>3. /\ then \in [Findings -> Row] /\ then[f] = Save(finding[f], x)
      /\ \A g \in Findings \ {f} : then[g] = finding[g]
  BY <1>1, <1>2
<1>4. \A g \in Findings : Sound(then[g])
  BY <1>2, <1>3 DEF Inv
<1> HIDE DEF then
<1>5. Good(new, then)
  BY DEF then
<1>6. decision'[d] = new
  BY DEF SaveRow
<1>7. ASSUME NEW e \in Decisions, e # d
      PROVE  /\ Good(decision'[e], then)
             /\ decision'[e].saved = decision[e].saved
  <2>1. decision'[e] = IF decision[e].step # "idle"
                       THEN [decision[e] EXCEPT !.stale = @ \cup {f}] ELSE decision[e]
    BY <1>7 DEF SaveRow, Active
  <2>2. Good(decision[e], finding)
    BY DEF Inv
  <2>3. Good(decision'[e], then)
    <3> DEFINE c == decision[e]
               n == decision'[e]
    <3> HIDE DEF c, n
    <3>1. n = IF c.step # "idle" THEN [c EXCEPT !.stale = @ \cup {f}] ELSE c
      BY <2>1 DEF c, n
    <3>2. Good(c, finding)
      BY <2>2 DEF c
    <3>3. Good(n, then)
      BY <1>3, <3>1, <3>2, OtherIsGood
    <3> QED  BY <3>3 DEF n
  <2>4. decision[e] \in DecisionState(decision[e].rows)
    BY <2>2 DEF Good, TypedDecision
  <2>5. decision'[e].saved = decision[e].saved
    BY <2>1, <2>4 DEF DecisionState
  <2> QED  BY <2>3, <2>5
<1>8. \A e \in Decisions : Good(decision'[e], then)
  BY <1>5, <1>6, <1>7
<1>9. TypeOK'
  <2>1. KeysTypeOK'
    BY DEF Inv, TypeOK, KeysTypeOK, keyVars
  <2>2. decision' = [e \in Decisions |-> decision'[e]]
    BY DEF SaveRow
  <2>3. orphaned' \subseteq Findings
    BY DEF Inv, TypeOK
  <2> QED  BY <1>1, <1>3, <1>8, <2>1, <2>2, <2>3 DEF TypeOK, Good, TypedDecision
<1>10. FullIsInHand'
  <2> SUFFICES ASSUME NEW g \in Findings, then[g].risk_status = "Risk Pending",
                      Cardinality(then[g].accepted_by) >= Acceptors
               PROVE  g \in orphaned' \/ \E e \in Decisions : decision'[e].saved = {g}
    BY <1>1 DEF FullIsInHand
  <2>1. CASE g = f
    BY <1>2, <1>3, <1>6, <2>1
  <2>2. CASE g # f
    <3>1. g \in orphaned \/ \E e \in Decisions : decision[e].saved = {g}
      BY <1>3, <2>2 DEF Inv, FullIsInHand
    <3>2. decision[d].saved # {g}
      BY <2>2
    <3> QED  BY <1>7, <3>1, <3>2
  <2> QED  BY <2>1, <2>2
<1> QED  BY <1>1, <1>4, <1>8, <1>9, <1>10 DEF Inv

\* A step that saves nothing: the decision that takes it has to be good after it.
LEMMA StepIsGood ==
    ASSUME Inv, NEW d \in Decisions, NEW new, Good(new, finding),
           decision' = [decision EXCEPT ![d] = new],
           decision[d].saved \subseteq orphaned' \cup new.saved,
           new.saved = {} \/ new.saved = decision[d].saved,
           orphaned \subseteq orphaned', orphaned' \subseteq Findings,
           acts' \in Nat, UNCHANGED <<finding, enrolled, keyVars>>
    PROVE  Inv'
<1>1. /\ decision'[d] = new /\ decision' = [e \in Decisions |-> decision'[e]]
      /\ \A e \in Decisions \ {d} : decision'[e] = decision[e]
  BY DEF Inv, TypeOK
<1>2. \A e \in Decisions : Good(decision'[e], finding)
  BY <1>1 DEF Inv
<1>3. TypeOK'
  <2>1. KeysTypeOK'
    BY DEF Inv, TypeOK, KeysTypeOK, keyVars
  <2> QED  BY <1>1, <1>2, <2>1 DEF TypeOK, Good, TypedDecision, Inv
<1>4. FullIsInHand'
  <2> SUFFICES ASSUME NEW g \in Findings, finding[g].risk_status = "Risk Pending",
                      Cardinality(finding[g].accepted_by) >= Acceptors
               PROVE  g \in orphaned' \/ \E e \in Decisions : decision'[e].saved = {g}
    BY DEF FullIsInHand
  <2>1. CASE g \in orphaned
    BY <2>1
  <2>2. ASSUME NEW e \in Decisions, decision[e].saved = {g}
        PROVE  g \in orphaned' \/ \E z \in Decisions : decision'[z].saved = {g}
    <3>1. CASE e # d
      BY <1>1, <2>2, <3>1
    <3>2. CASE e = d
      BY <1>1, <2>2, <3>2
    <3> QED  BY <3>1, <3>2
  <2> QED  BY <2>1, <2>2 DEF Inv, FullIsInHand
<1> QED  BY <1>2, <1>3, <1>4 DEF Inv

\* A decision that is done with a finding stays good, if a finding that it
\* could confirm has its name now.
LEMMA DoneIsGood ==
    ASSUME NEW c, NEW now, Good(c, now), c.step = "running",
           NEW f \in DOMAIN c.rows, c.saved \subseteq {f},
           NEW then, \A g \in Findings \ {f} : then[g] = now[g],
           c.what = "accept" /\ f \in c.open /\ f \notin c.stale
             => c.who \in then[f].accepted_by,
           NEW n, n = [c EXCEPT !.rows = Less(@, f), !.saved = {}]
    PROVE  Good(n, then)
<1>1. /\ c \in DecisionState(c.rows) /\ Partial(c.rows, Findings, Row)
      /\ c.who \in Users
  BY DEF Good, TypedDecision
<1>2. /\ Partial(Less(c.rows, f), Findings, Row)
      /\ DOMAIN Less(c.rows, f) = DOMAIN c.rows \ {f}
      /\ \A g \in DOMAIN c.rows \ {f} : Less(c.rows, f)[g] = c.rows[g]
      /\ DOMAIN c.rows \subseteq Findings
  BY <1>1, LessIsPartial DEF Less, Partial
<1>3. /\ n \in DecisionState(Less(c.rows, f)) /\ n.rows = Less(c.rows, f)
      /\ n.step = c.step /\ n.what = c.what /\ n.who = c.who /\ n.saved = {}
      /\ n.open = c.open /\ n.stale = c.stale /\ n.open \subseteq Findings
  BY <1>1 DEF DecisionState
<1>4. TypedDecision(n) /\ SoundRows(n) /\ Closing(n) /\ Answered(n)
  BY <1>1, <1>2, <1>3 DEF Good, TypedDecision, SoundRows, Closing, Answered
<1>5. Current(n, then)
  BY <1>2, <1>3 DEF Good, Current
<1>6. Served(n, then)
  BY <1>2, <1>3 DEF Good, Served
<1> QED  BY <1>4, <1>5, <1>6 DEF Good

\* What is known of the decision that takes a step, and of the row it works on.
LEMMA DecisionIs ==
    ASSUME Inv, NEW d \in Decisions
    PROVE  /\ Good(decision[d], finding)
           /\ decision[d] \in DecisionState(decision[d].rows)
           /\ \A f \in DOMAIN decision[d].rows :
                 /\ f \in Findings
                 /\ decision[d].rows[f] \in Row /\ Sound(decision[d].rows[f])
           /\ finding \in [Findings -> Row]
  BY DEF Inv, TypeOK, Good, TypedDecision, SoundRows, Partial

\* What is left of a decision that is done with a finding.
LEMMA DoneIs ==
    ASSUME Inv, NEW d \in Decisions, NEW f
    PROVE  [Done(d, f) EXCEPT !.saved = {}]
             = [decision[d] EXCEPT !.rows = Less(@, f), !.saved = {}]
  BY DecisionIs DEF Done, DecisionState

\* The same, for one that has saved nothing.
LEMMA DoneWithNoneSaved ==
    ASSUME Inv, NEW d \in Decisions, NEW f, decision[d].saved = {}
    PROVE  Done(d, f) = [decision[d] EXCEPT !.rows = Less(@, f), !.saved = {}]
  BY DecisionIs DEF Done, DecisionState

\* The first save of a confirmation.
LEMMA ConfirmGood ==
    ASSUME Inv, NEW d \in Decisions, NEW f \in Findings, Confirm(d, f)
    PROVE  Inv'
<1> DEFINE c == decision[d]
           x == c.rows[f]
           y == Named(x, c.who)
           then == [finding EXCEPT ![f] = Save(@, y)]
           new == IF Full(y) THEN [c EXCEPT !.rows[f] = y, !.saved = {f}] ELSE Done(d, f)
<1>1. /\ c.step = "running" /\ c.what = "accept" /\ f \in DOMAIN c.rows /\ c.saved = {}
      /\ Confirmable(x) /\ c.who \notin x.accepted_by
      /\ Cardinality(x.accepted_by) < Acceptors
      /\ SaveRow(d, f, y, new)
      /\ enrolled' = enrolled /\ UNCHANGED <<orphaned, keyVars, acts>>
  BY DEF Confirm, Ready
<1>2. /\ Good(c, finding) /\ c \in DecisionState(c.rows) /\ x \in Row /\ Sound(x)
      /\ finding \in [Findings -> Row] /\ Partial(c.rows, Findings, Row) /\ c.who \in Users
  BY <1>1, DecisionIs DEF Good, TypedDecision
<1> HIDE DEF c, x
<1>3. /\ y \in Row /\ Sound(y) /\ y.accepted_by = x.accepted_by \cup {c.who}
      /\ y.active /\ ~y.is_mitigated
      /\ Cardinality(y.accepted_by) = Cardinality(x.accepted_by) + 1
      /\ Cardinality(x.accepted_by) \in Nat
  BY <1>1, <1>2, NamedRow
<1> HIDE DEF y
<1>4. Save(finding[f], y) = y
  BY <1>2, <1>3, SaveKeeps
<1>5. /\ then[f] = y /\ \A g \in Findings \ {f} : then[g] = finding[g]
  BY <1>2, <1>4
<1> HIDE DEF then
<1>6. CASE Full(y)
  <2> DEFINE rows == [c.rows EXCEPT ![f] = y]
  <2>1. /\ Partial(rows, Findings, Row) /\ DOMAIN rows = DOMAIN c.rows /\ rows[f] = y
        /\ \A g \in DOMAIN c.rows \ {f} : rows[g] = c.rows[g]
    BY <1>1, <1>2, <1>3 DEF Partial
  <2> HIDE DEF rows
  <2>2. /\ new \in DecisionState(rows) /\ new.rows = rows /\ new.saved = {f}
        /\ new.step = c.step /\ new.what = c.what /\ new.who = c.who
        /\ new.open = c.open /\ new.stale = c.stale /\ new.open \subseteq Findings
    BY <1>2, <1>6 DEF DecisionState, rows
  <2> HIDE DEF new
  <2>3. TypedDecision(new) /\ SoundRows(new) /\ Answered(new)
    BY <1>1, <1>2, <1>3, <2>1, <2>2
    DEF Good, TypedDecision, SoundRows, Answered
  <2>4. Closing(new)
    BY <1>1, <1>3, <1>6, <2>1, <2>2 DEF Closing, Full
  <2>5. Current(new, then)
    <3>1. ASSUME NEW g \in DOMAIN rows \ new.stale PROVE rows[g] = then[g]
      <4>1. CASE g = f
        BY <1>5, <2>1, <4>1
      <4>2. CASE g # f
        BY <1>1, <1>2, <1>5, <2>1, <2>2, <4>2 DEF Good, Current, Partial
      <4> QED  BY <4>1, <4>2
    <3> QED  BY <2>2, <3>1 DEF Current
  <2>6. Served(new, then)
    <3>1. ASSUME NEW g \in new.open \ new.stale
          PROVE  \/ g \in DOMAIN rows /\ {f} # {g} /\ Confirmable(rows[g])
                 \/ c.who \in then[g].accepted_by
      <4>1. CASE g = f
        BY <1>3, <1>5, <4>1
      <4>2. CASE g # f
        BY <1>1, <1>2, <1>5, <2>1, <2>2, <4>2 DEF Good, Served
      <4> QED  BY <4>1, <4>2
    <3> QED  BY <2>2, <3>1 DEF Served
  <2>7. Good(new, then)
    BY <2>3, <2>4, <2>5, <2>6 DEF Good
  <2> QED
    BY <1>1, <1>3, <2>2, <2>7, SaveIsGood DEF then, c, Inv, TypeOK
<1>7. CASE ~Full(y)
  <2>1. new = [c EXCEPT !.rows = Less(@, f), !.saved = {}]
    BY <1>1, <1>7, DoneWithNoneSaved DEF c
  <2> HIDE DEF new
  <2>2. c.who \in then[f].accepted_by
    BY <1>3, <1>5
  <2>3. Good(new, then)
    BY <1>1, <1>2, <1>5, <2>1, <2>2, DoneIsGood
  <2>4. ~(Cardinality(y.accepted_by) >= Acceptors)
    BY <1>1, <1>3, <1>7, AcceptorsAssumption DEF Full
  <2> QED
    BY <1>1, <1>3, <2>3, <2>4, SaveIsGood DEF then, c, Inv, TypeOK
<1> QED  BY <1>6, <1>7

\* The second save.
LEMMA CompleteGood ==
    ASSUME Inv, NEW d \in Decisions, NEW f \in Findings, Complete(d, f)
    PROVE  Inv'
<1> DEFINE c == decision[d]
           x == c.rows[f]
           y == Accepted(f, x)
           then == [finding EXCEPT ![f] = Save(@, y)]
           new == [Done(d, f) EXCEPT !.saved = {}]
<1>1. /\ c.step = "running" /\ c.saved = {f} /\ SaveRow(d, f, y, new)
      /\ enrolled' = enrolled /\ UNCHANGED <<orphaned, keyVars, acts>>
  BY DEF Complete
<1>2. Good(c, finding) /\ finding \in [Findings -> Row]
  BY DecisionIs
<1>3. /\ f \in DOMAIN c.rows /\ Cardinality(x.accepted_by) = Acceptors
      /\ c.who \in x.accepted_by /\ x.active
  BY <1>1, <1>2 DEF Good, Closing
<1>4. x \in Row
  BY <1>3, DecisionIs
<1>5. new = [c EXCEPT !.rows = Less(@, f), !.saved = {}]
  BY DoneIs
<1> HIDE DEF c, x, new
<1>6. /\ y \in Row /\ Sound(y) /\ y.accepted_by = x.accepted_by
      /\ y.risk_status = "Risk Accepted"
  BY <1>3, <1>4, AcceptedIsSound
<1> HIDE DEF y
<1>7. /\ then[f].accepted_by = y.accepted_by
      /\ \A g \in Findings \ {f} : then[g] = finding[g]
  BY ZenonT(30), <1>2, <1>6, SaveKeeps
<1> HIDE DEF then
<1>8. c.who \in then[f].accepted_by
  BY <1>3, <1>6, <1>7
<1>9. Good(new, then)
  BY <1>1, <1>2, <1>3, <1>5, <1>7, <1>8, DoneIsGood
<1> QED
  BY <1>1, <1>6, <1>9, SaveIsGood DEF then, c, Inv, TypeOK

\* A save of a decision that does not accept.
LEMMA RefusalGood ==
    ASSUME Inv, NEW d \in Decisions, NEW f \in Findings, NEW what, what # "accept",
           Ready(d, f, what), NEW y \in Row, Sound(y), y.risk_status # "Risk Pending",
           SaveRow(d, f, y, Done(d, f)), enrolled' \subseteq Findings,
           UNCHANGED <<orphaned, keyVars, acts>>
    PROVE  Inv'
<1> DEFINE c == decision[d]
           then == [finding EXCEPT ![f] = Save(@, y)]
           new == Done(d, f)
<1>1. /\ c.step = "running" /\ c.what # "accept" /\ f \in DOMAIN c.rows /\ c.saved = {}
  BY DEF Ready
<1>2. Good(c, finding) /\ finding \in [Findings -> Row]
  BY DecisionIs
<1>3. new = [c EXCEPT !.rows = Less(@, f), !.saved = {}]
  BY <1>1, DoneWithNoneSaved
<1>4. SaveRow(d, f, y, new)
  OBVIOUS
<1> HIDE DEF c, new
<1>5. \A g \in Findings \ {f} : then[g] = finding[g]
  BY <1>2
<1> HIDE DEF then
<1>6. Good(new, then)
  BY <1>1, <1>2, <1>3, <1>5, DoneIsGood
<1> QED
  BY <1>1, <1>4, <1>6, SaveIsGood DEF then, c

\* A rejection keeps the invariant.
LEMMA RejectGood ==
    ASSUME Inv, NEW d \in Decisions, NEW f \in Findings, Reject(d, f)
    PROVE  Inv'
<1> DEFINE y == DeclinedRow(decision[d].rows[f])
<1>1. /\ Ready(d, f, "reject") /\ f \in DOMAIN decision[d].rows
      /\ SaveRow(d, f, y, Done(d, f))
      /\ enrolled' \subseteq Findings /\ UNCHANGED <<orphaned, keyVars, acts>>
  BY DEF Reject, Ready, Inv, TypeOK
<1>2. y \in Row /\ Sound(y) /\ y.risk_status = "Risk Rejected"
  BY <1>1, DecisionIs, DeclinedIsSound
<1> HIDE DEF y
<1> QED  BY <1>1, <1>2, RefusalGood

\* A removal keeps the invariant.
LEMMA RemoveGood ==
    ASSUME Inv, NEW d \in Decisions, NEW f \in Findings, Remove(d, f)
    PROVE  Inv'
<1> DEFINE y == ReleasedRow(decision[d].rows[f])
<1>1. /\ Ready(d, f, "remove") /\ f \in DOMAIN decision[d].rows
      /\ SaveRow(d, f, y, Done(d, f))
      /\ enrolled' \subseteq Findings /\ UNCHANGED <<orphaned, keyVars, acts>>
  BY DEF Remove, Ready, Inv, TypeOK
<1>2. y \in Row /\ Sound(y) /\ y.risk_status = "Risk Active"
  BY <1>1, DecisionIs, ReleasedIsSound
<1> HIDE DEF y
<1> QED  BY <1>1, <1>2, RefusalGood

\* The decision goes on without a save.
LEMMA PassGood ==
    ASSUME Inv, NEW d \in Decisions, NEW f \in Findings, Pass(d, f)
    PROVE  Inv'
<1> DEFINE c == decision[d]
           new == Done(d, f)
<1>1. /\ c.step = "running" /\ f \in DOMAIN c.rows /\ c.saved = {}
      /\ c.what = "accept" => ~Confirmable(c.rows[f]) \/ c.who \in c.rows[f].accepted_by
      /\ decision' = [decision EXCEPT ![d] = new]
      /\ UNCHANGED <<finding, enrolled, orphaned, keyVars, acts>>
  BY DEF Pass, Ready
<1>2. Good(c, finding)
  BY DecisionIs
<1>3. new = [c EXCEPT !.rows = Less(@, f), !.saved = {}]
  BY <1>1, DoneWithNoneSaved
<1>4. new.saved = {}
  BY <1>1, DecisionIs DEF Done, DecisionState
<1>5. c.rows[f] = finding[f] \/ f \in c.stale
  BY <1>1, <1>2 DEF Good, Current
<1>6. c.what = "accept" /\ f \in c.open /\ f \notin c.stale
        => c.who \in finding[f].accepted_by
  BY <1>1, <1>2, <1>5 DEF Good, Served
<1> HIDE DEF c, new
<1>7. Good(new, finding)
  BY <1>1, <1>2, <1>3, <1>6, DoneIsGood
<1>8. c.saved = {} /\ orphaned' \subseteq Findings /\ acts' \in Nat
  BY <1>1 DEF Inv, TypeOK, KeysTypeOK
<1> QED  BY <1>1, <1>4, <1>7, <1>8, StepIsGood DEF c

\* A decision that ends, with an answer.
LEMMA EndGood ==
    ASSUME Inv, NEW d \in Decisions, NEW p \in {"ok", "failed"},
           decision[d].saved = {}, decision[d].step = "running",
           p = "ok" => DOMAIN decision[d].rows = {},
           decision' = [decision EXCEPT ![d].step = p],
           UNCHANGED <<finding, enrolled, orphaned, keyVars, acts>>
    PROVE  Inv'
<1> DEFINE c == decision[d]
           new == [c EXCEPT !.step = p]
<1>1. Good(c, finding) /\ c \in DecisionState(c.rows)
  BY DecisionIs
<1>2. c.saved = {} /\ c.step = "running" /\ (p = "ok" => DOMAIN c.rows = {})
  OBVIOUS
<1>3. decision' = [decision EXCEPT ![d] = new]
  OBVIOUS
<1> HIDE DEF c
<1>4. /\ new \in DecisionState(c.rows) /\ new.rows = c.rows /\ new.step = p
      /\ new.what = c.what /\ new.who = c.who /\ new.saved = {}
      /\ new.open = c.open /\ new.stale = c.stale
  BY <1>1, <1>2 DEF DecisionState
<1> HIDE DEF new
<1>5. Good(new, finding)
  BY <1>1, <1>2, <1>4
  DEF Good, TypedDecision, SoundRows, Closing, Current, Served, Answered
<1>6. orphaned' \subseteq Findings /\ acts' \in Nat
  BY DEF Inv, TypeOK, KeysTypeOK
<1> QED  BY <1>2, <1>3, <1>4, <1>5, <1>6, StepIsGood DEF c

\* An error keeps the invariant.
LEMMA FailGood ==
    ASSUME Inv, NEW d \in Decisions, Fail(d)
    PROVE  Inv'
<1>1. decision[d].saved = {} /\ decision[d].step = "running"
  BY DEF Fail, Expired, Overrun, Ready
<1> QED  BY <1>1, EndGood DEF Fail, AnswerToError

\* A success has dealt with all findings.
LEMMA SucceedGood ==
    ASSUME Inv, NEW d \in Decisions, Succeed(d)
    PROVE  Inv'
<1>1. decision[d].saved = {}
  BY DecisionIs DEF Succeed, Good, Closing
<1> QED  BY <1>1, EndGood DEF Succeed

\* Nothing is being decided.
LEMMA NoDecisionIsGood == ASSUME NEW now PROVE Good(NoDecision, now)
<1>1. /\ NoDecision \in DecisionState(NoDecision.rows) /\ NoDecision.rows = Empty
      /\ NoDecision.step = "idle" /\ NoDecision.saved = {}
  BY DEF NoDecision, DecisionState, Page
<1>2. DOMAIN Empty = {}
  BY DEF Empty
<1>3. Partial(NoDecision.rows, Findings, Row)
  BY <1>1, EmptyIsPartial
<1> QED
  BY <1>1, <1>2, <1>3
  DEF Good, TypedDecision, SoundRows, Closing, Current, Served, Answered

\* The death of a request leaves its second saves to the history.
LEMMA DieGood ==
    ASSUME Inv, NEW d \in Decisions, Die(d)
    PROVE  Inv'
<1>1. NoDecision.saved = {}
  BY DEF NoDecision
<1>2. /\ decision' = [decision EXCEPT ![d] = NoDecision]
      /\ decision[d].saved \subseteq orphaned' /\ orphaned \subseteq orphaned'
      /\ UNCHANGED <<finding, enrolled, keyVars>>
  BY DEF Die
<1>3. acts' \in Nat
  BY DEF Die, Inv, TypeOK, KeysTypeOK
<1>4. orphaned' \subseteq Findings
  BY DecisionIs DEF Die, Inv, TypeOK, DecisionState
<1> QED  BY <1>1, <1>2, <1>3, <1>4, NoDecisionIsGood, StepIsGood

\* A decision begins with the rows as they are.
LEMMA DecideGood ==
    ASSUME Inv, NEW d \in Decisions, NEW u \in Users,
           NEW what \in {"accept", "reject", "remove"}, NEW token \in Nat,
           NEW S \in SUBSET Findings, Decide(d, u, what, token, S)
    PROVE  Inv'
<1> DEFINE rows == [f \in S |-> finding[f]]
           new == [NoDecision EXCEPT !.step = "running", !.what = what, !.who = u,
                                     !.token = token, !.rows = rows,
                                     !.open = {f \in S : Confirmable(finding[f])}]
<1>1. /\ decision' = [decision EXCEPT ![d] = new] /\ decision[d].step # "running"
      /\ UNCHANGED <<finding, enrolled, orphaned, keyVars>>
  BY DEF Decide
<1>2. orphaned' \subseteq Findings /\ acts' \in Nat
  BY DEF Decide, Inv, TypeOK, KeysTypeOK
<1>3. decision[d].saved = {}
  BY <1>1, DecisionIs DEF Good, Closing
<1>4. Partial(rows, Findings, Row) /\ DOMAIN rows = S /\ \A f \in S : rows[f] = finding[f]
  BY DecisionIs DEF Partial
<1> HIDE DEF rows
<1>5. /\ new \in DecisionState(rows) /\ new.rows = rows /\ new.step = "running"
      /\ new.who = u /\ new.saved = {} /\ new.stale = {}
      /\ new.open = {f \in S : Confirmable(finding[f])}
  BY DEF NoDecision, DecisionState
<1> HIDE DEF new
<1>6. TypedDecision(new) /\ SoundRows(new) /\ Closing(new) /\ Answered(new)
  BY <1>4, <1>5 DEF Inv, TypedDecision, SoundRows, Closing, Answered
<1>7. Current(new, finding) /\ Served(new, finding)
  BY <1>4, <1>5 DEF Current, Served
<1>8. Good(new, finding)
  BY <1>6, <1>7 DEF Good
<1> QED  BY <1>1, <1>2, <1>3, <1>5, <1>8, StepIsGood

\* Every way to take a decision keeps the invariant.
LEMMA AskGood ==
    ASSUME Inv, NEW d \in Decisions,
           \/ \E f \in Findings, u \in Users, what \in {"accept", "reject", "remove"} :
                 Click(d, u, what, f)
           \/ \E u \in Users : ClickAll(d, u)
           \/ \E i \in inbox, what \in {"accept", "reject"} : Answer(d, what, i)
    PROVE  Inv'
<1>1. Page \in Nat /\ enrolled \in SUBSET Findings
  BY DEF Page, Inv, TypeOK
<1>2. ASSUME NEW f \in Findings, NEW u \in Users,
             NEW what \in {"accept", "reject", "remove"}, Click(d, u, what, f)
      PROVE  Inv'
  <2>1. Decide(d, u, what, Page, {f}) /\ {f} \in SUBSET Findings
    BY <1>2 DEF Click
  <2> QED  BY <1>1, <2>1, DecideGood
<1>3. ASSUME NEW u \in Users, ClickAll(d, u)
      PROVE  Inv'
  BY <1>1, <1>3, DecideGood DEF ClickAll
<1>4. ASSUME NEW i \in inbox, NEW what \in {"accept", "reject"}, Answer(d, what, i)
      PROVE  Inv'
  <2>1. Decide(d, key[i].user, what, i, enrolled)
    BY <1>4 DEF Answer
  <2>2. key \in Seq(Key) /\ i \in DOMAIN key
    BY DEF Inv, TypeOK, KeysTypeOK
  <2>3. key[i] \in Key /\ i \in Nat
    BY <2>2
  <2>4. key[i].user \in Users
    BY <2>3, PeopleAssumption DEF Key
  <2> QED  BY <1>1, <2>1, <2>3, <2>4, DecideGood
<1> QED  BY <1>2, <1>3, <1>4

-----------------------------------------------------------------------------
(***************************************************************************)
(* The theorems.                                                           *)
(***************************************************************************)

\* The invariant holds when the request has been filed.
LEMMA InitGood == ASSUME Init PROVE Inv
<1>1. /\ \A d \in Decisions : decision[d] = NoDecision
      /\ decision = [d \in Decisions |-> decision[d]]
      /\ enrolled = Findings /\ orphaned = {}
  BY DEF Init
<1>2. /\ PendingRow(NewFinding) \in Row
      /\ ~PendingRow(NewFinding).risk_accepted
      /\ PendingRow(NewFinding).accepted_by = {}
  BY DEF PendingRow, NewFinding, Row, RiskStatus
<1>3. /\ finding \in [Findings -> Row]
      /\ \A f \in Findings : /\ ~finding[f].risk_accepted
                             /\ finding[f].accepted_by = {}
  BY <1>2 DEF Init
<1>4. \A d \in Decisions : Good(decision[d], finding)
  BY <1>1, NoDecisionIsGood
<1>5. KeysTypeOK
  BY KeysInitTyped DEF Init
<1>6. TypeOK
  BY <1>1, <1>3, <1>4, <1>5 DEF TypeOK, Good, TypedDecision
<1>7. \A f \in Findings : Sound(finding[f])
  BY <1>3 DEF Sound
<1>8. FullIsInHand
  <2>1. \A f \in Findings : Cardinality(finding[f].accepted_by) = 0
    BY <1>3, FS_EmptySet
  <2>2. ~(0 >= Acceptors)
    BY AcceptorsAssumption
  <2>3. \A f \in Findings : ~(Cardinality(finding[f].accepted_by) >= Acceptors)
    BY <2>1, <2>2
  <2> QED  BY <2>3 DEF FullIsInHand
<1> QED  BY <1>4, <1>6, <1>7, <1>8 DEF Inv

\* The keys do not touch what is decided.
LEMMA KeysGood ==
    ASSUME Inv, KeysNext, UNCHANGED <<finding, enrolled, decision, orphaned>>
    PROVE  Inv'
<1>1. KeysTypeOK'
  BY KeysNextTyped DEF Inv, TypeOK
<1> QED  BY <1>1 DEF Inv, TypeOK, FullIsInHand

\* Every step keeps the invariant.
LEMMA NextGood == ASSUME Inv, [Next]_vars PROVE Inv'
<1>1. ASSUME NEW d \in Decisions, NEW f \in Findings,
             \/ Confirm(d, f) \/ Complete(d, f) \/ Reject(d, f)
             \/ Remove(d, f) \/ Pass(d, f)
      PROVE  Inv'
  BY <1>1, ConfirmGood, CompleteGood, RejectGood, RemoveGood, PassGood
<1>2. ASSUME NEW d \in Decisions, NEW f \in Findings, NEW u \in Users,
             NEW what \in {"accept", "reject", "remove"}, Click(d, u, what, f)
      PROVE  Inv'
  BY <1>2, AskGood
<1>3. ASSUME NEW d \in Decisions, Fail(d) \/ Succeed(d) \/ Die(d)
      PROVE  Inv'
  BY <1>3, FailGood, SucceedGood, DieGood
<1>4. ASSUME NEW d \in Decisions, NEW u \in Users, ClickAll(d, u)
      PROVE  Inv'
  BY <1>4, AskGood
<1>5. ASSUME NEW d \in Decisions, NEW i \in inbox, NEW what \in {"accept", "reject"},
             Answer(d, what, i)
      PROVE  Inv'
  BY <1>5, AskGood
<1>6. CASE KeysNext /\ UNCHANGED <<finding, enrolled, decision, orphaned>>
  BY <1>6, KeysGood
<1>7. CASE UNCHANGED vars
  BY <1>7 DEF vars, keyVars, Inv, TypeOK, KeysTypeOK, Key, FullIsInHand
<1> QED  BY <1>1, <1>2, <1>3, <1>4, <1>5, <1>6, <1>7 DEF Next

\* The invariant.
THEOREM Invariance == Spec => []Inv
<1>1. Init => Inv
  BY InitGood
<1>2. Inv /\ [Next]_vars => Inv'
  BY NextGood
<1> QED  BY <1>1, <1>2, PTL DEF Spec

\* Every variable has the shape of what it stands for.
THEOREM Typing == Spec => []TypeOK
<1>1. Inv => TypeOK
  BY DEF Inv
<1> QED  BY <1>1, Invariance, PTL

\* However decisions overlap, an accepted finding has the names of as many
\* people as the rule asks for (risk_acceptante_pending, risk_accepted_succesfully).
THEOREM AcceptancesAreSound == Spec => []AcceptedByEnough
<1>1. Inv => AcceptedByEnough
  BY DEF Inv, Sound, AcceptedByEnough
<1> QED  BY <1>1, Invariance, PTL

\* A finding that waits with all its names is in the hands of the request that
\* wrote the last one, unless that request was cut off.
THEOREM FullFindingsAreInHand == Spec => []FullIsInHand
<1>1. Inv => FullIsInHand
  BY DEF Inv
<1> QED  BY <1>1, Invariance, PTL

\* A decision that ends in success has left its name on every finding that it
\* could confirm and that nobody else has saved meanwhile.
THEOREM SuccessesAreWhole == Spec => []SuccessIsWhole
<1>1. Inv => SuccessIsWhole
  BY DEF Inv, Good, Served, Answered, SuccessIsWhole
<1> QED  BY <1>1, Invariance, PTL

-----------------------------------------------------------------------------
(***************************************************************************)
(* What a step may do to a confirmation.                                   *)
(***************************************************************************)

\* ConfirmationStands for one finding and one step.
Stands(f) ==
    \/ finding'[f].risk_status \in {"Risk Rejected", "Risk Active"}
    \/ \E d \in Decisions : Overwrites(d, f)
    \/ /\ finding[f].accepted_by \subseteq finding'[f].accepted_by
       /\ Cardinality(finding'[f].accepted_by \ finding[f].accepted_by) <= 1
       /\ finding[f].risk_accepted => finding'[f].risk_accepted

\* A finding that is not saved keeps its confirmations.
LEMMA SameStands == ASSUME NEW f, finding'[f] = finding[f] PROVE Stands(f)
<1>1. finding[f].accepted_by \ finding[f].accepted_by = {}
  OBVIOUS
<1>2. Cardinality(finding'[f].accepted_by \ finding[f].accepted_by) = 0
  BY <1>1, FS_EmptySet
<1>3. Cardinality(finding'[f].accepted_by \ finding[f].accepted_by) <= 1
  BY <1>2
<1>4. /\ finding[f].accepted_by \subseteq finding'[f].accepted_by
      /\ finding[f].risk_accepted => finding'[f].risk_accepted
  OBVIOUS
<1> QED  BY <1>3, <1>4, Zenon DEF Stands

\* A save leaves every other finding as it is.
LEMMA OthersStand ==
    ASSUME Inv, NEW d, NEW f \in Findings, NEW x, NEW new, SaveRow(d, f, x, new),
           NEW g \in Findings, g # f
    PROVE  Stands(g)
<1>1. finding'[g] = finding[g]
  BY DEF SaveRow, Inv, TypeOK
<1> QED  BY <1>1, SameStands

\* A confirmation adds one name to a row that is as it was read.
LEMMA ConfirmStands ==
    ASSUME Inv, NEW d \in Decisions, NEW f \in Findings, Confirm(d, f)
    PROVE  Stands(f)
<1> DEFINE c == decision[d]
           x == c.rows[f]
           y == Named(x, c.who)
           new == IF Full(y) THEN [c EXCEPT !.rows[f] = y, !.saved = {f}] ELSE Done(d, f)
<1>1. /\ c.step = "running" /\ f \in DOMAIN c.rows
      /\ Confirmable(x) /\ c.who \notin x.accepted_by
      /\ finding' = [finding EXCEPT ![f] = Save(@, y)] /\ decision'[d] = new
  BY DEF Confirm, Ready, SaveRow
<1>2. /\ Good(c, finding) /\ c \in DecisionState(c.rows) /\ x \in Row /\ Sound(x)
      /\ finding \in [Findings -> Row] /\ Partial(c.rows, Findings, Row) /\ c.who \in Users
  BY <1>1, DecisionIs DEF Good, TypedDecision
<1> HIDE DEF c, x
<1>3. /\ y \in Row /\ y.accepted_by = x.accepted_by \cup {c.who}
      /\ y.active /\ ~y.is_mitigated /\ y # x /\ ~x.risk_accepted
  BY <1>1, <1>2, NamedRow DEF Confirmable, Sound
<1> HIDE DEF y
<1>4. finding'[f] = y
  BY <1>1, <1>2, <1>3, SaveKeeps
<1>5. CASE f \in c.stale
  <2>1. new.rows # c.rows
    <3>1. CASE Full(y)
      <4>1. new.rows[f] = y
        BY <1>1, <1>2, <3>1 DEF DecisionState
      <4> QED  BY <1>3, <4>1 DEF x
    <3>2. CASE ~Full(y)
      <4>1. new.rows = Less(c.rows, f)
        BY <1>2, <3>2 DEF DecisionState, Done, c
      <4>2. f \notin DOMAIN new.rows
        BY <4>1 DEF Less
      <4> QED  BY <1>1, <4>2
    <3> QED  BY <3>1, <3>2
  <2> QED  BY <1>1, <1>5, <2>1 DEF Stands, Overwrites, c
<1>6. CASE f \notin c.stale
  <2>1. x = finding[f]
    BY <1>1, <1>2, <1>6 DEF Good, Current, x
  <2>2. finding'[f].accepted_by \ finding[f].accepted_by = {c.who}
    BY <1>1, <1>3, <1>4, <2>1
  <2>3. Cardinality(finding'[f].accepted_by \ finding[f].accepted_by) <= 1
    <3>1. Cardinality({c.who}) = 1
      BY FS_Singleton
    <3> QED  BY <2>2, <3>1
  <2>4. finding[f].accepted_by \subseteq finding'[f].accepted_by /\ ~finding[f].risk_accepted
    BY <1>3, <1>4, <2>1
  <2> QED  BY <2>3, <2>4, Zenon DEF Stands
<1> QED  BY <1>5, <1>6

\* A second save adds no name, and accepts.
LEMMA CompleteStands ==
    ASSUME Inv, NEW d \in Decisions, NEW f \in Findings, Complete(d, f)
    PROVE  Stands(f)
<1> DEFINE c == decision[d]
           x == c.rows[f]
           y == Accepted(f, x)
           new == [Done(d, f) EXCEPT !.saved = {}]
<1>1. /\ c.step = "running" /\ c.saved = {f}
      /\ finding' = [finding EXCEPT ![f] = Save(@, y)] /\ decision'[d] = new
  BY DEF Complete, SaveRow
<1>2. /\ Good(c, finding) /\ c \in DecisionState(c.rows)
      /\ finding \in [Findings -> Row] /\ Partial(c.rows, Findings, Row)
  BY DecisionIs DEF Good, TypedDecision
<1>3. /\ f \in DOMAIN c.rows /\ Cardinality(x.accepted_by) = Acceptors /\ x.active
  BY <1>1, <1>2 DEF Good, Closing
<1>4. x \in Row
  BY <1>3, DecisionIs
<1> HIDE DEF c, x
<1>5. y \in Row /\ y.accepted_by = x.accepted_by /\ y.risk_accepted
  BY <1>3, <1>4, AcceptedIsSound
<1> HIDE DEF y
<1>6. finding'[f].accepted_by = x.accepted_by /\ finding'[f].risk_accepted
  <2>1. finding[f] \in Row /\ finding'[f] = Save(finding[f], y)
    BY <1>1, <1>2
  <2>2. /\ Save(finding[f], y).accepted_by = y.accepted_by
        /\ Save(finding[f], y).risk_accepted = y.risk_accepted
    BY <1>5, <2>1, SaveKeeps
  <2> QED  BY <1>5, <2>1, <2>2, Zenon
<1>7. CASE f \in c.stale
  <2>1. new.rows = Less(c.rows, f)
    BY <1>2 DEF DecisionState, Done, c
  <2>2. f \notin DOMAIN new.rows
    BY <2>1 DEF Less
  <2>3. new.rows # c.rows
    BY <1>3, <2>2
  <2> QED  BY <1>1, <1>7, <2>3 DEF Stands, Overwrites, c
<1>8. CASE f \notin c.stale
  <2>1. x = finding[f]
    BY <1>1, <1>2, <1>3, <1>8 DEF Good, Current, x
  <2>2. finding'[f].accepted_by \ finding[f].accepted_by = {}
    BY <1>6, <2>1
  <2>3. Cardinality(finding'[f].accepted_by \ finding[f].accepted_by) <= 1
    <3>1. Cardinality({}) = 0
      BY FS_EmptySet
    <3> QED  BY <2>2, <3>1
  <2>4. finding[f].accepted_by \subseteq finding'[f].accepted_by /\ finding'[f].risk_accepted
    BY <1>6, <2>1
  <2> QED  BY <2>3, <2>4, Zenon DEF Stands
<1> QED  BY <1>7, <1>8

\* A rejection and a removal show in the status.
LEMMA RefusalStands ==
    ASSUME Inv, NEW d \in Decisions, NEW f \in Findings, Reject(d, f) \/ Remove(d, f)
    PROVE  Stands(f)
<1> DEFINE x == decision[d].rows[f]
<1>1. /\ f \in DOMAIN decision[d].rows
      /\ \/ finding' = [finding EXCEPT ![f] = Save(@, DeclinedRow(x))]
         \/ finding' = [finding EXCEPT ![f] = Save(@, ReleasedRow(x))]
  BY DEF Reject, Remove, Ready, SaveRow
<1>2. x \in Row /\ finding \in [Findings -> Row]
  BY <1>1, DecisionIs
<1> HIDE DEF x
<1>3. /\ DeclinedRow(x) \in Row /\ DeclinedRow(x).risk_status = "Risk Rejected"
      /\ ReleasedRow(x) \in Row /\ ReleasedRow(x).risk_status = "Risk Active"
  BY <1>2, DeclinedIsSound, ReleasedIsSound
<1>4. finding'[f].risk_status \in {"Risk Rejected", "Risk Active"}
  <2>1. PICK y \in Row : /\ finding' = [finding EXCEPT ![f] = Save(@, y)]
                         /\ y.risk_status \in {"Risk Rejected", "Risk Active"}
    BY <1>1, <1>3
  <2>2. finding[f] \in Row /\ finding'[f] = Save(finding[f], y)
    BY <1>2, <2>1
  <2>3. Save(finding[f], y).risk_status = y.risk_status
    BY <2>2, SaveKeeps
  <2> QED  BY <2>1, <2>2, <2>3
<1> QED  BY <1>4 DEF Stands

\* No step takes a confirmation away in another manner.
LEMMA NextStands ==
    ASSUME Inv, [Next]_vars, NEW g \in Findings
    PROVE  Stands(g)
<1>1. ASSUME NEW d \in Decisions, NEW f \in Findings,
             Confirm(d, f) \/ Complete(d, f) \/ Reject(d, f) \/ Remove(d, f)
      PROVE  Stands(g)
  <2>1. CASE g = f
    BY <1>1, <2>1, ConfirmStands, CompleteStands, RefusalStands
  <2>2. CASE g # f
    BY <1>1, <2>2, OthersStand DEF Confirm, Complete, Reject, Remove
  <2> QED  BY <2>1, <2>2
<1>2. CASE UNCHANGED finding
  BY <1>2, SameStands
<1>3. ASSUME NEW d \in Decisions, NEW f \in Findings,
             \/ Pass(d, f)
             \/ \E u \in Users, what \in {"accept", "reject", "remove"} : Click(d, u, what, f)
      PROVE  UNCHANGED finding
  BY <1>3 DEF Pass, Click, Decide
<1>4. ASSUME NEW d \in Decisions,
             \/ Fail(d) \/ Succeed(d) \/ Die(d)
             \/ \E u \in Users : ClickAll(d, u)
             \/ \E i \in inbox, what \in {"accept", "reject"} : Answer(d, what, i)
      PROVE  UNCHANGED finding
  BY <1>4 DEF Fail, Succeed, Die, ClickAll, Answer, Decide
<1>5. UNCHANGED vars => UNCHANGED finding
  BY DEF vars
<1> QED  BY <1>1, <1>2, <1>3, <1>4, <1>5 DEF Next

\* A confirmation is lost only to a rejection, to a removal, or to a decision
\* that saves a row it had read before somebody else's save.
THEOREM ConfirmationsStand == Spec => ConfirmationStands
<1>1. Inv /\ [Next]_vars => [\A f \in Findings : Stands(f)]_vars
  BY NextStands
<1>2. Spec => [][\A f \in Findings : Stands(f)]_vars
  BY <1>1, Invariance, PTL DEF Spec
<1> QED  BY <1>2 DEF ConfirmationStands, Stands

-----------------------------------------------------------------------------
(***************************************************************************)
(* Mails that no other mail has overlapped.                                *)
(***************************************************************************)

\* A mail begins with all keys.
LEMMA BeginIs ==
    ASSUME KeysTypeOK, NEW s \in Sends, Begin(s)
    PROVE  /\ send'[s].step = "renewing" /\ send'[s].since = today
           /\ send'[s].rows = key /\ send'[s].late = (DOMAIN job # {})
           /\ \A z \in Sends \ {s} : send'[z] = send[z]
           /\ UNCHANGED <<key, inbox, today, job>>
           /\ troubled' = (troubled \/ \E z \in Sends : Busy(z))
  BY DEF Begin, NoSend, KeysTypeOK

\* A renewal changes the day and the state of one key.
LEMMA RenewIs ==
    ASSUME KeysTypeOK, SameUsers, NEW s \in Sends, NEW i, Renew(s, i)
    PROVE  /\ send[s].step = "renewing" /\ i \in DOMAIN send[s].rows /\ i \in DOMAIN key
           /\ DOMAIN key' = DOMAIN key
           /\ \A j \in DOMAIN key \ {i} : key'[j] = key[j]
           /\ key'[i].user = key[i].user /\ key'[i].expiration = today + Life
           /\ send'[s].step = "renewing" /\ send'[s].rows = Less(send[s].rows, i)
           /\ send'[s].since = send[s].since /\ send'[s].late = send[s].late
           /\ \A z \in Sends \ {s} : send'[z] = send[z]
           /\ UNCHANGED <<inbox, today, job, troubled>>
<1>1. /\ send[s] \in SendState(send[s].rows, send[s].link)
      /\ Partial(send[s].rows, DOMAIN key, Key)
      /\ send[s].step = "renewing" /\ i \in DOMAIN send[s].rows
  BY SendIs DEF Renew
<1>2. i \in DOMAIN key /\ send[s].rows[i] \in Key
  BY <1>1 DEF Partial
<1>3. send[s].rows[i].user = key[i].user
  BY <1>1 DEF SameUsers
<1> DEFINE k == RenewedKey(send[s].rows[i])
<1>4. k.user = send[s].rows[i].user /\ k.expiration = today + Life
  BY <1>2 DEF RenewedKey, Key
<1> HIDE DEF k
<1>5. key' = [key EXCEPT ![i] = k] /\ key \in Seq(Key)
  BY DEF Renew, k, KeysTypeOK
<1>6. /\ DOMAIN key' = DOMAIN key /\ key'[i] = k
      /\ \A j \in DOMAIN key \ {i} : key'[j] = key[j]
  BY <1>2, <1>5
<1>7. /\ send'[s].step = "renewing" /\ send'[s].rows = Less(send[s].rows, i)
      /\ send'[s].since = send[s].since /\ send'[s].late = send[s].late
      /\ \A z \in Sends \ {s} : send'[z] = send[z]
  BY <1>1 DEF Renew, KeysTypeOK, SendState
<1> QED  BY <1>1, <1>2, <1>3, <1>4, <1>6, <1>7 DEF Renew

\* After the look the loop over the contacts begins.
LEMMA LookIs ==
    ASSUME KeysTypeOK, NEW s \in Sends, Look(s)
    PROVE  /\ send[s].step = "renewing" /\ DOMAIN send[s].rows = {}
           /\ send'[s].step = "linking" /\ send'[s].todo = Recipients
           /\ send'[s].fresh = (key = <<>>)
           /\ send'[s].rows = send[s].rows
           /\ send'[s].since = send[s].since /\ send'[s].late = send[s].late
           /\ \A z \in Sends \ {s} : send'[z] = send[z]
           /\ UNCHANGED <<key, inbox, today, job, troubled>>
<1>1. send[s] \in SendState(send[s].rows, send[s].link)
  BY SendIs
<1> QED  BY <1>1 DEF Look, KeysTypeOK, SendState

\* A link takes one contact from the list.
LEMMA LinkIs ==
    ASSUME KeysTypeOK, NEW s \in Sends, NEW u, NEW i, send' = Link(s, u, i)
    PROVE  /\ send'[s].step = send[s].step /\ send'[s].rows = send[s].rows
           /\ send'[s].since = send[s].since /\ send'[s].late = send[s].late
           /\ send'[s].fresh = send[s].fresh
           /\ send'[s].todo = send[s].todo \ {u}
           /\ send'[s].link[u] = i
           /\ \A v \in DOMAIN send[s].link \ {u} : send'[s].link[v] = send[s].link[v]
           /\ \A z \in Sends \ {s} : send'[z] = send[z]
<1>1. send[s] \in SendState(send[s].rows, send[s].link)
  BY SendIs
<1> DEFINE l == [v \in DOMAIN send[s].link \cup {u} |->
                    IF v = u THEN i ELSE send[s].link[v]]
<1>2. l[u] = i /\ \A v \in DOMAIN send[s].link \ {u} : l[v] = send[s].link[v]
  OBVIOUS
<1>3. send' = [send EXCEPT ![s].todo = @ \ {u}, ![s].link = l]
  BY DEF Link
<1> HIDE DEF l
<1>4. /\ send'[s] = [send[s] EXCEPT !.todo = @ \ {u}, !.link = l]
      /\ \A z \in Sends \ {s} : send'[z] = send[z]
  BY <1>3 DEF KeysTypeOK
<1> QED  BY <1>1, <1>2, <1>4 DEF SendState

\* The mail goes out with the keys that are linked.
LEMMA MailIs ==
    ASSUME KeysTypeOK, NEW s \in Sends, Mail(s)
    PROVE  /\ send[s].step = "linking" /\ send[s].todo = {}
           /\ inbox' = inbox \cup {send[s].link[u] : u \in Recipients}
           /\ send'[s].step = "mailed" /\ send'[s].rows = send[s].rows
           /\ send'[s].since = send[s].since /\ send'[s].late = send[s].late
           /\ \A z \in Sends \ {s} : send'[z] = send[z]
           /\ UNCHANGED <<key, today, job, troubled>>
<1>1. send[s] \in SendState(send[s].rows, send[s].link)
  BY SendIs
<1> QED  BY <1>1 DEF Mail, KeysTypeOK, SendState

\* The job reads rows as they are, and marks the mails at work.
LEMMA JobStartIs ==
    ASSUME KeysTypeOK, JobStart
    PROVE  /\ \A i \in DOMAIN job' : i \in DOMAIN key /\ job'[i] = key[i]
           /\ \A s \in Sends : ~Busy(s) => send'[s] = send[s]
           /\ \A s \in Sends : Busy(s) =>
                 /\ send'[s].late
                 /\ send'[s].step = send[s].step /\ send'[s].since = send[s].since
                 /\ send'[s].rows = send[s].rows /\ send'[s].todo = send[s].todo
                 /\ send'[s].fresh = send[s].fresh /\ send'[s].link = send[s].link
           /\ UNCHANGED <<key, inbox, today, troubled>>
<1>1. ASSUME NEW s \in Sends, Busy(s)
      PROVE  /\ send'[s].late
             /\ send'[s].step = send[s].step /\ send'[s].since = send[s].since
             /\ send'[s].rows = send[s].rows /\ send'[s].todo = send[s].todo
             /\ send'[s].fresh = send[s].fresh /\ send'[s].link = send[s].link
  <2>1. send'[s] = [send[s] EXCEPT !.late = TRUE]
    BY <1>1 DEF JobStart
  <2>2. send[s] \in SendState(send[s].rows, send[s].link)
    BY SendIs
  <2> QED  BY <2>1, <2>2 DEF SendState
<1>2. \A s \in Sends : ~Busy(s) => send'[s] = send[s]
  BY DEF JobStart
<1>3. \A i \in DOMAIN job' : i \in DOMAIN key /\ job'[i] = key[i]
  BY DEF JobStart
<1> QED  BY <1>1, <1>2, <1>3 DEF JobStart

\* The job puts back the day that it has read.
LEMMA JobSaveIs ==
    ASSUME KeysTypeOK, SameUsers, NEW i \in DOMAIN job, JobSave(i)
    PROVE  /\ i \in DOMAIN key /\ DOMAIN key' = DOMAIN key
           /\ \A j \in DOMAIN key \ {i} : key'[j] = key[j]
           /\ key'[i].user = key[i].user /\ key'[i].expiration = job[i].expiration
           /\ DOMAIN job' = DOMAIN job \ {i}
           /\ \A j \in DOMAIN job' : job'[j] = job[j]
           /\ UNCHANGED <<inbox, today, send, troubled>>
<1> DEFINE k == [job[i] EXCEPT !.status = FALSE]
<1>1. job[i] \in Key /\ i \in DOMAIN key /\ job[i].user = key[i].user
  BY DEF KeysTypeOK, SameUsers, Partial
<1>2. k.user = job[i].user /\ k.expiration = job[i].expiration
  BY <1>1 DEF Key
<1> HIDE DEF k
<1>3. key' = [key EXCEPT ![i] = k] /\ key \in Seq(Key)
  BY DEF JobSave, k, KeysTypeOK
<1>4. /\ DOMAIN key' = DOMAIN key /\ key'[i] = k
      /\ \A j \in DOMAIN key \ {i} : key'[j] = key[j]
  BY <1>1, <1>3
<1>5. DOMAIN job' = DOMAIN job \ {i} /\ \A j \in DOMAIN job' : job'[j] = job[j]
  BY DEF JobSave, Less
<1> QED  BY <1>1, <1>2, <1>4, <1>5 DEF JobSave

\* A new key is the last one.
LEMMA CreateIs ==
    ASSUME KeysTypeOK, NEW s \in Sends, NEW u \in Recipients, Create(s, u)
    PROVE  /\ send[s].step = "linking" /\ u \in send[s].todo /\ send[s].fresh
           /\ Len(key') \notin DOMAIN key
           /\ DOMAIN key' = DOMAIN key \cup {Len(key')}
           /\ key'[Len(key')].user = u /\ key'[Len(key')].expiration = today + Life
           /\ \A j \in DOMAIN key : key'[j] = key[j]
           /\ send' = Link(s, u, Len(key'))
           /\ UNCHANGED <<inbox, today, job, troubled>>
<1> DEFINE k == [user |-> u, status |-> TRUE, expiration |-> today + Life]
<1>1. k.user = u /\ k.expiration = today + Life /\ k \in Key
  BY DaysAssumption DEF Key, KeysTypeOK
<1>2. key' = Append(key, k) /\ key \in Seq(Key)
  BY DEF Create, KeysTypeOK
<1> HIDE DEF k
<1>3. /\ Len(key') = Len(key) + 1 /\ Len(key) \in Nat
      /\ DOMAIN key = 1 .. Len(key) /\ DOMAIN key' = 1 .. Len(key')
      /\ key'[Len(key')] = k /\ \A j \in DOMAIN key : key'[j] = key[j]
  BY <1>1, <1>2
<1>4. Len(key') \notin DOMAIN key /\ DOMAIN key' = DOMAIN key \cup {Len(key')}
  BY <1>3
<1> QED  BY <1>1, <1>3, <1>4 DEF Create, Creates

\* Rows that were read are rows of the table.
LEMMA RowsAreKeys ==
    ASSUME KeysTypeOK
    PROVE  /\ \A s \in Sends : DOMAIN send[s].rows \subseteq DOMAIN key
           /\ DOMAIN job \subseteq DOMAIN key
  BY SendIs DEF KeysTypeOK, Partial

\* Keys do not change hands.
LEMMA SameUsersKept ==
    ASSUME KeysTypeOK, SameUsers, KeysNext PROVE SameUsers'
<1>1. ASSUME NEW s \in Sends, Begin(s) PROVE SameUsers'
  BY <1>1, BeginIs DEF SameUsers
<1>2. ASSUME NEW s \in Sends, NEW i \in DOMAIN key, Renew(s, i) PROVE SameUsers'
  <2>1. /\ \A j \in DOMAIN key : key'[j].user = key[j].user
        /\ job' = job /\ send'[s].rows = Less(send[s].rows, i)
        /\ \A z \in Sends \ {s} : send'[z] = send[z]
    BY <1>2, RenewIs
  <2>2. \A j \in DOMAIN send'[s].rows :
            j \in DOMAIN send[s].rows /\ send'[s].rows[j] = send[s].rows[j]
    BY <2>1 DEF Less
  <2>3. ASSUME NEW z \in Sends, NEW j \in DOMAIN send'[z].rows
        PROVE  send'[z].rows[j].user = key'[j].user
    <3>1. j \in DOMAIN send[z].rows /\ send'[z].rows[j] = send[z].rows[j]
      BY <2>1, <2>2
    <3> QED  BY <2>1, <3>1, RowsAreKeys DEF SameUsers
  <2>4. \A j \in DOMAIN job' : job'[j].user = key'[j].user
    BY <2>1, RowsAreKeys DEF SameUsers
  <2> QED  BY <2>3, <2>4 DEF SameUsers
<1>3. ASSUME NEW s \in Sends, Look(s) PROVE SameUsers'
  <2>1. key' = key /\ job' = job /\ \A z \in Sends : send'[z].rows = send[z].rows
    BY <1>3, LookIs
  <2> QED  BY <2>1 DEF SameUsers
<1>4. ASSUME NEW s \in Sends, NEW u \in Recipients, Create(s, u) PROVE SameUsers'
  <2>1. /\ \A j \in DOMAIN key : key'[j] = key[j]
        /\ job' = job /\ send' = Link(s, u, Len(key'))
    BY <1>4, CreateIs
  <2>2. \A z \in Sends : send'[z].rows = send[z].rows
    BY <2>1, LinkIs
  <2> QED  BY <2>1, <2>2, RowsAreKeys DEF SameUsers
<1>5. ASSUME NEW s \in Sends, NEW u \in Recipients, Find(s, u) PROVE SameUsers'
  <2>1. PICK i \in KeysOf(u) : send' = Link(s, u, i)
    BY <1>5 DEF Find
  <2>2. key' = key /\ job' = job /\ \A z \in Sends : send'[z].rows = send[z].rows
    BY <1>5, <2>1, LinkIs DEF Find
  <2> QED  BY <2>2 DEF SameUsers
<1>6. ASSUME NEW s \in Sends, NEW u \in Recipients, Misses(s, u) PROVE SameUsers'
  <2>1. key' = key /\ job' = job /\ \A z \in Sends : send'[z].rows = send[z].rows
    BY <1>6, SendIs DEF Misses, KeysTypeOK, SendState
  <2> QED  BY <2>1 DEF SameUsers
<1>7. ASSUME NEW s \in Sends, Mail(s) PROVE SameUsers'
  <2>1. key' = key /\ job' = job /\ \A z \in Sends : send'[z].rows = send[z].rows
    BY <1>7, MailIs
  <2> QED  BY <2>1 DEF SameUsers
<1>8. ASSUME NEW s \in Sends, SendDies(s) PROVE SameUsers'
  <2>1. /\ key' = key /\ job' = job /\ DOMAIN send'[s].rows = {}
        /\ \A z \in Sends \ {s} : send'[z] = send[z]
    BY <1>8 DEF SendDies, NoSend, Empty, KeysTypeOK
  <2> QED  BY <2>1 DEF SameUsers
<1>9. CASE JobStart
  <2>1. \A s \in Sends : send'[s].rows = send[s].rows
    BY <1>9, JobStartIs
  <2> QED  BY <1>9, <2>1, JobStartIs DEF SameUsers
<1>10. ASSUME NEW i \in DOMAIN job, JobSave(i) PROVE SameUsers'
  <2>1. /\ \A j \in DOMAIN key : key'[j].user = key[j].user
        /\ \A j \in DOMAIN job' : j \in DOMAIN job /\ job'[j] = job[j]
        /\ send' = send
    BY <1>10, JobSaveIs
  <2> QED  BY <2>1, RowsAreKeys DEF SameUsers
<1>11. CASE NextDay
  BY <1>11 DEF NextDay, SameUsers
<1> QED
  BY <1>1, <1>2, <1>3, <1>4, <1>5, <1>6, <1>7, <1>8, <1>9, <1>10, <1>11 DEF KeysNext

\* Steps that change only days and states of keys leave each contact its keys.
LEMMA SameKeys ==
    ASSUME DOMAIN key' = DOMAIN key, \A j \in DOMAIN key : key'[j].user = key[j].user
    PROVE  /\ \A u : KeysOf(u)' = KeysOf(u)
           /\ OneKey' = OneKey
<1>1. ASSUME NEW u PROVE KeysOf(u)' = KeysOf(u)
  BY DEF KeysOf
<1> QED  BY <1>1 DEF OneKey

\* A mail that is not at work is untouched by a step that keeps keys and job.
LEMMA OrderlyKept ==
    ASSUME NEW z, Orderly(z), send'[z] = send[z], UNCHANGED <<key, today, job>>,
           inbox \subseteq inbox'
    PROVE  Orderly(z)'
<1>1. \A u : KeysOf(u)' = KeysOf(u)
  BY DEF KeysOf
<1>2. OneKey' = OneKey
  BY <1>1 DEF OneKey
<1>3. AllOrNone => AllOrNone'
  BY <1>2 DEF AllOrNone
<1>4. Linked(z) => Linked(z)'
  BY <1>1, <1>2 DEF Linked
<1>5. /\ Lasts(z, DOMAIN key) => Lasts(z, DOMAIN key)'
      /\ Lasts(z, DOMAIN key \ DOMAIN send[z].rows)
           => Lasts(z, DOMAIN key \ DOMAIN send[z].rows)'
  BY DEF Lasts
<1>6. /\ send[z].since <= today /\ send[z].step # "failed"
      /\ send'[z].since <= today' /\ send'[z].step # "failed"
  BY DEF Orderly
<1>7. send[z].step = "renewing" =>
          /\ AllOrNone'
          /\ ~send[z].late => /\ DOMAIN job' = {}
                              /\ Lasts(z, DOMAIN key \ DOMAIN send[z].rows)'
  BY <1>3, <1>5 DEF Orderly
<1>8. send[z].step = "linking" =>
          /\ Linked(z)'
          /\ ~send[z].late => DOMAIN job' = {} /\ Lasts(z, DOMAIN key)'
  BY <1>4, <1>5 DEF Orderly
<1>9. send[z].step = "mailed" =>
          /\ \A u \in Recipients : \E i \in inbox' : KeysOf(u)' = {i}
          /\ ~send[z].late => /\ Lasts(z, DOMAIN key)'
                              /\ \A i \in DOMAIN job' :
                                    job'[i].expiration >= send[z].since + Life
  BY <1>1, <1>5 DEF Orderly
<1> QED  BY <1>6, <1>7, <1>8, <1>9 DEF Orderly

\* A mail that begins alone has everything still to renew.
LEMMA BeginOrderly ==
    ASSUME KeysInv, NEW s \in Sends, Begin(s), ~troubled'
    PROVE  Untroubled'
<1>1. /\ ~troubled /\ \A z \in Sends : ~Busy(z)
  BY BeginIs DEF KeysInv
<1>2. Untroubled /\ AllOrNone /\ KeysTypeOK
  BY <1>1 DEF KeysInv, Untroubled
<1>3. AllOrNone'
  BY <1>2, BeginIs DEF AllOrNone, OneKey, KeysOf
<1>4. Orderly(s)'
  <2>1. /\ send'[s].step = "renewing" /\ send'[s].since <= today'
        /\ ~send'[s].late => DOMAIN job' = {}
        /\ DOMAIN key' \ DOMAIN send'[s].rows = {}
    <3>1. /\ send'[s].step = "renewing" /\ send'[s].since = today
          /\ send'[s].late = (DOMAIN job # {}) /\ send'[s].rows = key
          /\ UNCHANGED <<key, today, job>>
      BY <1>2, BeginIs, Zenon
    <3>2. send'[s].since <= today'
      BY <1>2, <3>1 DEF KeysTypeOK
    <3>3. DOMAIN key' \ DOMAIN send'[s].rows = {}
      BY <3>1
    <3>4. ~send'[s].late => DOMAIN job' = {}
      BY <3>1, Zenon
    <3> QED  BY <3>1, <3>2, <3>3, <3>4, Zenon
  <2>2. Lasts(s, DOMAIN key \ DOMAIN send[s].rows)'
    BY <2>1 DEF Lasts
  <2> QED  BY <1>3, <2>1, <2>2 DEF Orderly
<1>5. ASSUME NEW z \in Sends, z # s PROVE Orderly(z)' /\ ~Busy(z)'
  <2>1. send'[z] = send[z] /\ UNCHANGED <<key, today, job>> /\ inbox \subseteq inbox'
    BY <1>2, <1>5, BeginIs
  <2> QED  BY <1>1, <1>2, <2>1, OrderlyKept DEF Untroubled, Busy
<1>6. Busy(s)'
  BY <1>2, BeginIs DEF Busy
<1> QED  BY <1>4, <1>5, <1>6 DEF Untroubled

\* A renewed key lasts for the lifetime from today on.
LEMMA RenewOrderly ==
    ASSUME KeysInv, NEW s \in Sends, NEW i, Renew(s, i), ~troubled'
    PROVE  Untroubled'
<1>1. KeysTypeOK /\ SameUsers
  BY DEF KeysInv
<1>2. /\ Untroubled /\ Busy(s)
  BY <1>1, RenewIs DEF KeysInv, Busy
<1>3. (\A u : KeysOf(u)' = KeysOf(u)) /\ OneKey' = OneKey
  <2>1. DOMAIN key' = DOMAIN key /\ \A j \in DOMAIN key : key'[j].user = key[j].user
    BY <1>1, RenewIs
  <2> QED  BY <2>1, SameKeys
<1>4. /\ today \in Nat /\ Life \in Nat
      /\ \A z \in Sends : send[z].since \in Nat /\ send[z].since <= today
  BY <1>1, <1>2, SendIs, DaysAssumption DEF KeysTypeOK, Untroubled, Orderly, SendState
<1>5. /\ i \in DOMAIN key /\ DOMAIN key' = DOMAIN key
      /\ \A j \in DOMAIN key \ {i} : key'[j] = key[j]
      /\ key'[i].expiration = today + Life
      /\ UNCHANGED <<inbox, today, job>>
  BY <1>1, RenewIs
<1>6. /\ send[s].step = "renewing" /\ i \in DOMAIN send[s].rows
      /\ send'[s].step = "renewing" /\ send'[s].rows = Less(send[s].rows, i)
      /\ send'[s].since = send[s].since /\ send'[s].late = send[s].late
      /\ \A z \in Sends \ {s} : send'[z] = send[z]
  BY <1>1, RenewIs
<1>7. OneKey /\ AllOrNone'
  <2>1. key # <<>>
    BY <1>5
  <2>2. AllOrNone
    BY <1>2, <1>6 DEF Untroubled, Orderly
  <2> QED  BY <1>3, <2>1, <2>2 DEF AllOrNone
<1>8. Orderly(s)'
  <2>1. ~send[s].late => /\ DOMAIN job = {}
                         /\ Lasts(s, DOMAIN key \ DOMAIN send[s].rows)
    BY <1>2, <1>6 DEF Untroubled, Orderly
  <2>2. DOMAIN send'[s].rows = DOMAIN send[s].rows \ {i}
    BY <1>6 DEF Less
  <2>3. ASSUME ~send[s].late, NEW j \in DOMAIN key' \ DOMAIN send'[s].rows
        PROVE  key'[j].expiration >= send'[s].since + Life
    <3>1. CASE j = i
      BY <1>4, <1>5, <1>6, <3>1
    <3>2. CASE j # i
      BY <1>5, <1>6, <2>1, <2>2, <2>3, <3>2 DEF Lasts
    <3> QED  BY <3>1, <3>2
  <2>4. send'[s].since <= today'
    BY <1>4, <1>5, <1>6
  <2>5. ~send'[s].late => /\ DOMAIN job' = {}
                          /\ Lasts(s, DOMAIN key \ DOMAIN send[s].rows)'
    BY <1>5, <1>6, <2>1, <2>3 DEF Lasts
  <2> QED  BY <1>6, <1>7, <2>4, <2>5 DEF Orderly
<1>9. ASSUME NEW z \in Sends, z # s PROVE Orderly(z)' /\ ~Busy(z)'
  <2>1. send'[z] = send[z] /\ ~Busy(z) /\ Orderly(z)
    BY <1>2, <1>6, <1>9 DEF Untroubled
  <2>2. Lasts(z, DOMAIN key) => Lasts(z, DOMAIN key)'
    <3>1. ASSUME Lasts(z, DOMAIN key), NEW j \in DOMAIN key'
          PROVE  key'[j].expiration >= send'[z].since + Life
      <4>1. CASE j = i
        BY <1>4, <1>5, <2>1, <4>1
      <4>2. CASE j # i
        BY <1>5, <2>1, <3>1, <4>2 DEF Lasts
      <4> QED  BY <4>1, <4>2
    <3> QED  BY <3>1 DEF Lasts
  <2>3. send'[z].step = "mailed" =>
          /\ \A u \in Recipients : \E j \in inbox' : KeysOf(u)' = {j}
          /\ ~send'[z].late => /\ Lasts(z, DOMAIN key)'
                               /\ \A j \in DOMAIN job' :
                                     job'[j].expiration >= send'[z].since + Life
    BY <1>3, <1>5, <2>1, <2>2 DEF Orderly
  <2>4. send'[z].since <= today' /\ send'[z].step \notin {"failed", "renewing", "linking"}
    BY <1>5, <2>1 DEF Orderly, Busy
  <2> QED  BY <2>1, <2>3, <2>4 DEF Orderly, Busy
<1>10. Busy(s)'
  BY <1>6 DEF Busy
<1> QED  BY <1>8, <1>9, <1>10 DEF Untroubled

\* There is no key, or there is one for each contact.
LEMMA LookOrderly ==
    ASSUME KeysInv, NEW s \in Sends, Look(s), ~troubled'
    PROVE  Untroubled'
<1>1. /\ send[s].step = "renewing" /\ DOMAIN send[s].rows = {}
      /\ send'[s].step = "linking" /\ send'[s].todo = Recipients
      /\ send'[s].fresh = (key = <<>>)
      /\ send'[s].since = send[s].since /\ send'[s].late = send[s].late
      /\ \A z \in Sends \ {s} : send'[z] = send[z]
      /\ UNCHANGED <<key, inbox, today, job, troubled>>
  BY LookIs DEF KeysInv
<1>2. Untroubled /\ Orderly(s)
  BY <1>1 DEF KeysInv, Untroubled
<1>3. Linked(s)'
  <2>1. CASE key = <<>>
    <3>1. \A u \in Recipients : KeysOf(u)' = {}
      BY <1>1, <2>1 DEF KeysOf
    <3>2. send'[s].fresh
      BY <1>1, <2>1, Zenon
    <3> QED  BY <1>1, <3>1, <3>2 DEF Linked
  <2>2. CASE key # <<>>
    <3>1. OneKey'
      BY <1>1, <1>2, <2>2 DEF Orderly, AllOrNone, OneKey, KeysOf
    <3>2. ~send'[s].fresh
      BY <1>1, <2>2, Zenon
    <3> QED  BY <1>1, <3>1, <3>2 DEF Linked
  <2> QED  BY <2>1, <2>2
<1>4. Orderly(s)'
  <2>1. ~send[s].late => DOMAIN job = {} /\ Lasts(s, DOMAIN key \ DOMAIN send[s].rows)
    BY <1>1, <1>2 DEF Orderly
  <2>2. ~send'[s].late => DOMAIN job' = {} /\ Lasts(s, DOMAIN key)'
    BY <1>1, <2>1 DEF Lasts
  <2>3. send'[s].since <= today'
    BY <1>1, <1>2 DEF Orderly
  <2> QED  BY <1>1, <1>3, <2>2, <2>3 DEF Orderly
<1>5. ASSUME NEW z \in Sends, z # s PROVE Orderly(z)' /\ ~Busy(z)'
  <2>1. /\ send'[z] = send[z] /\ UNCHANGED <<key, today, job>> /\ inbox \subseteq inbox'
        /\ ~Busy(z) /\ Orderly(z)
    BY <1>1, <1>2, <1>5 DEF Untroubled, Busy
  <2> QED  BY <2>1, OrderlyKept DEF Busy
<1>6. Busy(s)'
  BY <1>1 DEF Busy
<1> QED  BY <1>4, <1>5, <1>6 DEF Untroubled

\* A link to the one key of a contact, made or found.
LEMMA LinkOrderly ==
    ASSUME KeysInv, Untroubled, NEW s \in Sends, send[s].step = "linking",
           NEW u \in send[s].todo, NEW i, send' = Link(s, u, i), KeysOf(u)' = {i},
           \A v \in Recipients \ {u} : KeysOf(v)' = KeysOf(v),
           send[s].fresh \/ OneKey',
           ~send[s].late /\ Lasts(s, DOMAIN key) => Lasts(s, DOMAIN key)',
           UNCHANGED <<inbox, today, job>>,
           \A z \in Sends \ {s} : Orderly(z)'
    PROVE  Untroubled'
<1>1. /\ send'[s].step = "linking" /\ send'[s].since = send[s].since
      /\ send'[s].late = send[s].late /\ send'[s].fresh = send[s].fresh
      /\ send'[s].todo = send[s].todo \ {u} /\ send'[s].link[u] = i
      /\ \A v \in DOMAIN send[s].link \ {u} : send'[s].link[v] = send[s].link[v]
      /\ \A z \in Sends \ {s} : send'[z] = send[z]
  BY LinkIs DEF KeysInv
<1>2. /\ Orderly(s) /\ Linked(s)
      /\ ~send[s].late => DOMAIN job = {} /\ Lasts(s, DOMAIN key)
  BY DEF Untroubled, Orderly
<1>3. /\ Recipients \subseteq send[s].todo \cup DOMAIN send[s].link
      /\ send[s].todo \subseteq Recipients
  BY SendIs DEF KeysInv, SendState
<1>4. ASSUME NEW v \in Recipients \ send'[s].todo
      PROVE  KeysOf(v)' = {send'[s].link[v]}
  <2>1. CASE v = u
    BY <1>1, <2>1
  <2>2. CASE v # u
    BY <1>1, <1>2, <1>3, <2>2 DEF Linked
  <2> QED  BY <2>1, <2>2
<1>5. IF send'[s].fresh THEN \A v \in send'[s].todo : KeysOf(v)' = {} ELSE OneKey'
  <2>1. CASE send[s].fresh
    BY <1>1, <1>2, <1>3, <2>1 DEF Linked
  <2>2. CASE ~send[s].fresh
    BY <1>1, <2>2
  <2> QED  BY <2>1, <2>2
<1>6. Linked(s)'
  BY <1>4, <1>5 DEF Linked
<1>7. ~send'[s].late => DOMAIN job' = {} /\ Lasts(s, DOMAIN key)'
  BY <1>1, <1>2
<1>8. send'[s].since <= today'
  BY <1>1, <1>2 DEF Orderly
<1>9. Orderly(s)'
  BY <1>1, <1>6, <1>7, <1>8 DEF Orderly
<1>10. Busy(s)' /\ \A z \in Sends \ {s} : ~Busy(z)'
  BY <1>1 DEF Busy, Untroubled
<1> QED  BY <1>9, <1>10 DEF Untroubled

\* A contact whose turn has not come had no key before.
LEMMA CreateOrderly ==
    ASSUME KeysInv, NEW s \in Sends, NEW u \in Recipients, Create(s, u), ~troubled'
    PROVE  Untroubled'
<1> DEFINE i == Len(key')
<1>1. /\ send[s].step = "linking" /\ u \in send[s].todo /\ send[s].fresh
      /\ i \notin DOMAIN key /\ DOMAIN key' = DOMAIN key \cup {i}
      /\ key'[i].user = u /\ key'[i].expiration = today + Life
      /\ \A j \in DOMAIN key : key'[j] = key[j]
      /\ send' = Link(s, u, i)
      /\ UNCHANGED <<inbox, today, job, troubled>>
  BY CreateIs DEF KeysInv
<1> HIDE DEF i
<1>2. Untroubled /\ Orderly(s) /\ Linked(s) /\ Busy(s)
  BY <1>1 DEF KeysInv, Untroubled, Orderly, Busy
<1>3. KeysOf(u) = {}
  BY <1>1, <1>2 DEF Linked
<1>4. KeysOf(u)' = {i}
  BY <1>1, <1>3 DEF KeysOf
<1>5. \A v \in Recipients \ {u} : KeysOf(v)' = KeysOf(v)
  BY <1>1 DEF KeysOf
<1>6. /\ today \in Nat /\ Life \in Nat
      /\ send[s].since \in Nat /\ send[s].since <= today
  BY <1>2, SendIs, DaysAssumption DEF KeysInv, KeysTypeOK, Orderly, SendState
<1>7. send'[s].since = send[s].since /\ \A z \in Sends \ {s} : send'[z] = send[z]
  BY <1>1, LinkIs DEF KeysInv
<1>8. ~send[s].late /\ Lasts(s, DOMAIN key) => Lasts(s, DOMAIN key)'
  <2>1. ASSUME Lasts(s, DOMAIN key), NEW j \in DOMAIN key'
        PROVE  key'[j].expiration >= send'[s].since + Life
    <3>1. CASE j = i
      BY <1>1, <1>6, <1>7, <3>1
    <3>2. CASE j # i
      BY <1>1, <1>7, <2>1, <3>2 DEF Lasts
    <3> QED  BY <3>1, <3>2
  <2> QED  BY <2>1 DEF Lasts
<1>9. ASSUME NEW z \in Sends \ {s} PROVE Orderly(z)'
  <2>1. Orderly(z) /\ ~Busy(z)
    BY <1>2 DEF Untroubled
  <2>2. send'[z].step # "mailed"
    BY <1>3, <1>7, <2>1 DEF Orderly
  <2> QED  BY <1>1, <1>7, <2>1, <2>2 DEF Orderly, Busy
<1> QED
  BY <1>1, <1>2, <1>4, <1>5, <1>8, <1>9, LinkOrderly

\* A contact whose turn has not come has one key.
LEMMA FindOrderly ==
    ASSUME KeysInv, NEW s \in Sends, NEW u \in Recipients, Find(s, u), ~troubled'
    PROVE  Untroubled'
<1>1. PICK i \in KeysOf(u) : KeysOf(u) = {i} /\ send' = Link(s, u, i)
  BY DEF Find
<1>2. /\ send[s].step = "linking" /\ u \in send[s].todo /\ ~send[s].fresh
      /\ UNCHANGED <<key, inbox, today, job, troubled>>
  BY DEF Find, Creates
<1>3. Untroubled /\ Orderly(s) /\ Linked(s)
  BY <1>2 DEF KeysInv, Untroubled, Orderly
<1>4. \A v : KeysOf(v)' = KeysOf(v)
  BY <1>2 DEF KeysOf
<1>5. OneKey'
  BY <1>2, <1>3, <1>4 DEF Linked, OneKey
<1>6. send'[s].since = send[s].since /\ \A z \in Sends \ {s} : send'[z] = send[z]
  BY <1>1, LinkIs DEF KeysInv
<1>7. Lasts(s, DOMAIN key) => Lasts(s, DOMAIN key)'
  BY <1>2, <1>6 DEF Lasts
<1>8. ASSUME NEW z \in Sends \ {s} PROVE Orderly(z)'
  <2>1. Orderly(z) /\ send'[z] = send[z] /\ UNCHANGED <<key, today, job>>
        /\ inbox \subseteq inbox'
    BY <1>2, <1>3, <1>6 DEF Untroubled
  <2> QED  BY <2>1, OrderlyKept
<1> QED
  BY <1>1, <1>2, <1>3, <1>4, <1>5, <1>7, <1>8, LinkOrderly

\* A mail that nobody has disturbed finds every key.
LEMMA NeverMisses ==
    ASSUME KeysInv, NEW s \in Sends, NEW u \in Recipients, Misses(s, u), ~troubled'
    PROVE  FALSE
<1>1. /\ send[s].step = "linking" /\ ~send[s].fresh /\ ~troubled
      /\ Cardinality(KeysOf(u)) # 1
  BY DEF Misses, Creates
<1>2. OneKey
  BY <1>1 DEF KeysInv, Untroubled, Orderly, Linked
<1>3. PICK i : KeysOf(u) = {i}
  BY <1>2 DEF OneKey
<1> QED  BY <1>1, <1>3, FS_Singleton

\* What is mailed are the keys of all contacts.
LEMMA MailOrderly ==
    ASSUME KeysInv, NEW s \in Sends, Mail(s), ~troubled'
    PROVE  Untroubled'
<1>1. /\ send[s].step = "linking" /\ send[s].todo = {}
      /\ inbox' = inbox \cup {send[s].link[u] : u \in Recipients}
      /\ send'[s].step = "mailed" /\ send'[s].rows = send[s].rows
      /\ send'[s].since = send[s].since /\ send'[s].late = send[s].late
      /\ \A z \in Sends \ {s} : send'[z] = send[z]
      /\ UNCHANGED <<key, today, job, troubled>>
  BY MailIs DEF KeysInv
<1>2. Untroubled /\ Orderly(s) /\ Linked(s) /\ Busy(s)
  BY <1>1 DEF KeysInv, Untroubled, Orderly, Busy
<1>3. \A u : KeysOf(u)' = KeysOf(u)
  BY <1>1 DEF KeysOf
<1>4. \A u \in Recipients : KeysOf(u) = {send[s].link[u]} /\ send[s].link[u] \in inbox'
  BY <1>1, <1>2 DEF Linked
<1>5. OneKey'
  BY <1>1, <1>3, <1>4 DEF OneKey, KeysOf
<1>6. ~send[s].late => DOMAIN job = {} /\ Lasts(s, DOMAIN key)
  BY <1>1, <1>2 DEF Orderly
<1>7. ~send'[s].late => /\ Lasts(s, DOMAIN key)'
                        /\ \A i \in DOMAIN job' :
                              job'[i].expiration >= send'[s].since + Life
  BY <1>1, <1>6 DEF Lasts
<1>8. \A u \in Recipients : \E i \in inbox' : KeysOf(u)' = {i}
  BY <1>3, <1>4
<1>9. send'[s].since <= today'
  BY <1>1, <1>2 DEF Orderly
<1>10. Orderly(s)'
  BY <1>1, <1>7, <1>8, <1>9 DEF Orderly
<1>11. ASSUME NEW z \in Sends, z # s PROVE Orderly(z)' /\ ~Busy(z)'
  <2>1. /\ send'[z] = send[z] /\ UNCHANGED <<key, today, job>> /\ inbox \subseteq inbox'
        /\ ~Busy(z) /\ Orderly(z)
    BY <1>1, <1>2, <1>11 DEF Untroubled
  <2> QED  BY <2>1, OrderlyKept DEF Busy
<1>12. ~Busy(s)'
  BY <1>1 DEF Busy
<1> QED  BY <1>5, <1>10, <1>11, <1>12 DEF Untroubled, AllOrNone

\* The job makes the mails at work late, and no other.
LEMMA JobStartOrderly ==
    ASSUME KeysInv, JobStart, ~troubled'
    PROVE  Untroubled'
<1>1. /\ \A i \in DOMAIN job' : i \in DOMAIN key /\ job'[i] = key[i]
      /\ \A s \in Sends : ~Busy(s) => send'[s] = send[s]
      /\ \A s \in Sends : Busy(s) =>
            /\ send'[s].late
            /\ send'[s].step = send[s].step /\ send'[s].since = send[s].since
            /\ send'[s].rows = send[s].rows /\ send'[s].todo = send[s].todo
            /\ send'[s].fresh = send[s].fresh /\ send'[s].link = send[s].link
      /\ UNCHANGED <<key, inbox, today, troubled>>
  BY JobStartIs DEF KeysInv
<1>2. Untroubled
  BY <1>1 DEF KeysInv
<1>3. (\A u : KeysOf(u)' = KeysOf(u)) /\ OneKey' = OneKey
  <2>1. DOMAIN key' = DOMAIN key /\ \A j \in DOMAIN key : key'[j].user = key[j].user
    BY <1>1
  <2> QED  BY <2>1, SameKeys
<1>4. AllOrNone => AllOrNone'
  BY <1>1, <1>3 DEF AllOrNone
<1>5. ASSUME NEW s \in Sends PROVE Orderly(s)' /\ Busy(s)' = Busy(s)
  <2>1. Orderly(s)
    BY <1>2 DEF Untroubled
  <2>2. CASE Busy(s)
    <3>1. /\ send'[s].late
          /\ send'[s].step = send[s].step /\ send'[s].since = send[s].since
          /\ send'[s].todo = send[s].todo
          /\ send'[s].fresh = send[s].fresh /\ send'[s].link = send[s].link
      BY <1>1, <2>2
    <3>2. Linked(s) => Linked(s)'
      BY <1>3, <3>1 DEF Linked
    <3>3. send'[s].since <= today' /\ send'[s].step \notin {"failed", "mailed"}
      BY <1>1, <2>1, <2>2, <3>1 DEF Orderly, Busy
    <3>4. Orderly(s)'
      BY <1>4, <2>1, <3>1, <3>2, <3>3 DEF Orderly
    <3> QED  BY <3>1, <3>4 DEF Busy
  <2>3. CASE ~Busy(s)
    <3>1. send'[s] = send[s]
      BY <1>1, <2>3
    <3>2. send'[s].step \notin {"renewing", "linking", "failed"} /\ send'[s].since <= today'
      BY <1>1, <2>1, <2>3, <3>1 DEF Orderly, Busy
    <3>3. Lasts(s, DOMAIN key) =>
              /\ Lasts(s, DOMAIN key)'
              /\ \A i \in DOMAIN job' : job'[i].expiration >= send'[s].since + Life
      BY <1>1, <3>1 DEF Lasts
    <3>4. send'[s].step = "mailed" =>
              /\ \A u \in Recipients : \E i \in inbox' : KeysOf(u)' = {i}
              /\ ~send'[s].late =>
                    /\ Lasts(s, DOMAIN key)'
                    /\ \A i \in DOMAIN job' : job'[i].expiration >= send'[s].since + Life
      BY <1>1, <1>3, <2>1, <3>1, <3>3 DEF Orderly
    <3>5. Orderly(s)'
      BY <3>2, <3>4 DEF Orderly
    <3> QED  BY <3>1, <3>5 DEF Busy
  <2> QED  BY <2>2, <2>3
<1> QED  BY <1>2, <1>4, <1>5 DEF Untroubled

\* What the job puts back was not renewed by a mail in time.
LEMMA JobSaveOrderly ==
    ASSUME KeysInv, NEW i \in DOMAIN job, JobSave(i), ~troubled'
    PROVE  Untroubled'
<1>1. /\ i \in DOMAIN key /\ DOMAIN key' = DOMAIN key
      /\ \A j \in DOMAIN key \ {i} : key'[j] = key[j]
      /\ key'[i].user = key[i].user /\ key'[i].expiration = job[i].expiration
      /\ DOMAIN job' = DOMAIN job \ {i}
      /\ \A j \in DOMAIN job' : job'[j] = job[j]
      /\ UNCHANGED <<inbox, today, send, troubled>>
  BY JobSaveIs DEF KeysInv
<1>2. Untroubled
  BY <1>1 DEF KeysInv
<1>3. (\A u : KeysOf(u)' = KeysOf(u)) /\ OneKey' = OneKey
  <2>1. \A j \in DOMAIN key : key'[j].user = key[j].user
    BY <1>1
  <2> QED  BY <1>1, <2>1, SameKeys
<1>4. AllOrNone => AllOrNone'
  <2>1. key # <<>>
    BY <1>1
  <2> QED  BY <1>3, <2>1 DEF AllOrNone
<1>5. ASSUME NEW s \in Sends PROVE Orderly(s)'
  <2>1. Orderly(s) /\ send'[s] = send[s]
    BY <1>1, <1>2 DEF Untroubled
  <2>2. Linked(s) => Linked(s)'
    BY <1>3, <2>1 DEF Linked
  <2>3. send'[s].since <= today' /\ send'[s].step # "failed"
    BY <1>1, <2>1 DEF Orderly
  <2>4. send[s].step \in {"renewing", "linking"} => send[s].late
    BY DEF Orderly, Untroubled, KeysInv, JobSave
  <2>5. /\ Lasts(s, DOMAIN key)
        /\ \A j \in DOMAIN job : job[j].expiration >= send[s].since + Life
        => /\ Lasts(s, DOMAIN key)'
           /\ \A j \in DOMAIN job' : job'[j].expiration >= send'[s].since + Life
    BY <1>1, <2>1 DEF Lasts
  <2>6. send'[s].step = "mailed" =>
            /\ \A u \in Recipients : \E j \in inbox' : KeysOf(u)' = {j}
            /\ ~send'[s].late =>
                  /\ Lasts(s, DOMAIN key)'
                  /\ \A j \in DOMAIN job' : job'[j].expiration >= send'[s].since + Life
    BY <1>1, <1>3, <2>1, <2>5 DEF Orderly
  <2>7. send'[s].step = "renewing" => AllOrNone' /\ send'[s].late
    BY <1>4, <2>1, <2>4 DEF Orderly
  <2>8. send'[s].step = "linking" => Linked(s)' /\ send'[s].late
    BY <2>1, <2>2, <2>4 DEF Orderly
  <2> QED  BY <2>3, <2>6, <2>7, <2>8 DEF Orderly
<1>6. \A s \in Sends : Busy(s)' = Busy(s)
  BY <1>1 DEF Busy
<1> QED  BY <1>2, <1>4, <1>5, <1>6 DEF Untroubled

\* A day passes.
LEMMA NextDayOrderly ==
    ASSUME KeysInv, NextDay, ~troubled'
    PROVE  Untroubled'
<1>1. /\ today' = today + 1 /\ UNCHANGED <<key, inbox, send, job, troubled>>
  BY DEF NextDay
<1>2. Untroubled
  BY <1>1 DEF KeysInv
<1>3. (\A u : KeysOf(u)' = KeysOf(u)) /\ OneKey' = OneKey
  BY <1>1 DEF KeysOf, OneKey
<1>4. AllOrNone' = AllOrNone
  BY <1>1, <1>3 DEF AllOrNone
<1>5. ASSUME NEW s \in Sends PROVE Orderly(s)' /\ Busy(s)' = Busy(s)
  <2>1. send[s].since \in Nat /\ today \in Nat
    BY SendIs DEF KeysInv, KeysTypeOK, SendState
  <2>2. Orderly(s) /\ send'[s] = send[s]
    BY <1>1, <1>2 DEF Untroubled
  <2>3. send'[s].since <= today'
    BY <1>1, <2>1, <2>2 DEF Orderly
  <2>4. Linked(s)' = Linked(s)
    BY <1>3, <2>2 DEF Linked
  <2>5. \A S : Lasts(s, S)' = Lasts(s, S)
    BY <1>1 DEF Lasts
  <2> QED  BY <1>1, <1>3, <1>4, <2>2, <2>3, <2>4, <2>5 DEF Orderly, Busy, Lasts
<1> QED  BY <1>2, <1>4, <1>5 DEF Untroubled

\* Every step of the keys keeps what is known of them.
LEMMA KeysNextKeeps == ASSUME KeysInv, KeysNext PROVE KeysInv'
<1>1. KeysTypeOK' /\ SameUsers'
  BY KeysNextTyped, SameUsersKept DEF KeysInv
<1>2. ASSUME ~troubled' PROVE Untroubled'
  <2>1. ASSUME NEW s \in Sends, SendDies(s) PROVE FALSE
    BY <1>2, <2>1 DEF SendDies
  <2> QED
    BY <1>2, <2>1, BeginOrderly, RenewOrderly, LookOrderly, CreateOrderly, FindOrderly,
       NeverMisses, MailOrderly, JobStartOrderly, JobSaveOrderly, NextDayOrderly
    DEF KeysNext
<1> QED  BY <1>1, <1>2 DEF KeysInv

\* There is no key at first, and no mail.
LEMMA KeysInitKeeps == ASSUME KeysInit PROVE KeysInv
<1>1. /\ \A s \in Sends : send[s].step = "idle" /\ send[s].since = 0 /\ send[s].rows = Empty
      /\ key = <<>> /\ job = Empty /\ today = 0
  BY DEF KeysInit, NoSend
<1>2. SameUsers
  BY <1>1 DEF SameUsers, Empty
<1>3. Untroubled
  BY <1>1 DEF Untroubled, Orderly, Busy, AllOrNone
<1> QED  BY <1>2, <1>3, KeysInitTyped DEF KeysInv

\* A decision that begins counts, and does not touch a key.
LEMMA DecideKeepsKeys ==
    ASSUME KeysInv, NEW d, NEW u, NEW what, NEW token, NEW S, Decide(d, u, what, token, S)
    PROVE  UNCHANGED keyVars /\ acts' \in Nat
  BY DEF Decide, KeysInv, KeysTypeOK

\* While no two mails have overlapped and none was cut off, each mail brings
\* every recipient the one key that the recipient has, with its whole lifetime
\* before it unless the job was at work (update_or_create_url_risk_acceptance,
\* expiration_handler).
THEOREM Delivery == Spec => []SendDelivers
<1>1. Init => KeysInv
  BY KeysInitKeeps DEF Init
<1>2. KeysInv /\ [Next]_vars => KeysInv'
  <2> SUFFICES ASSUME KeysInv, [Next]_vars PROVE KeysInv'
    OBVIOUS
  <2>1. ASSUME UNCHANGED keyVars, acts' \in Nat PROVE KeysInv'
    BY <2>1 DEF keyVars, KeysInv, KeysTypeOK, SameUsers, Untroubled, Orderly, AllOrNone,
                OneKey, KeysOf, Linked, Lasts, Busy
  <2>2. CASE KeysNext
    BY <2>2, KeysNextKeeps
  <2>3. ASSUME NEW d \in Decisions, NEW f \in Findings,
               \/ Confirm(d, f) \/ Complete(d, f) \/ Reject(d, f)
               \/ Remove(d, f) \/ Pass(d, f)
               \/ \E u \in Users, what \in {"accept", "reject", "remove"} :
                     Click(d, u, what, f)
        PROVE  UNCHANGED keyVars /\ acts' \in Nat
    <3>1. CASE \/ Confirm(d, f) \/ Complete(d, f) \/ Reject(d, f)
               \/ Remove(d, f) \/ Pass(d, f)
      <4>1. UNCHANGED <<keyVars, acts>>
        BY <3>1 DEF Confirm, Complete, Reject, Remove, Pass
      <4> QED  BY <4>1 DEF KeysInv, KeysTypeOK
    <3>2. ASSUME NEW u \in Users, NEW what \in {"accept", "reject", "remove"},
                 Click(d, u, what, f)
          PROVE  UNCHANGED keyVars /\ acts' \in Nat
      BY <3>2, DecideKeepsKeys DEF Click
    <3> QED  BY <2>3, <3>1, <3>2
  <2>4. ASSUME NEW d \in Decisions,
               \/ Fail(d) \/ Succeed(d) \/ Die(d)
               \/ \E u \in Users : ClickAll(d, u)
               \/ \E i \in inbox, what \in {"accept", "reject"} : Answer(d, what, i)
        PROVE  UNCHANGED keyVars /\ acts' \in Nat
    <3>1. CASE Fail(d) \/ Succeed(d)
      <4>1. UNCHANGED <<keyVars, acts>>
        BY <3>1 DEF Fail, Succeed
      <4> QED  BY <4>1 DEF KeysInv, KeysTypeOK
    <3>2. CASE Die(d)
      BY <3>2 DEF Die, KeysInv, KeysTypeOK
    <3>3. ASSUME NEW u \in Users, ClickAll(d, u)
          PROVE  UNCHANGED keyVars /\ acts' \in Nat
      BY <3>3, DecideKeepsKeys DEF ClickAll
    <3>4. ASSUME NEW i \in inbox, NEW what \in {"accept", "reject"}, Answer(d, what, i)
          PROVE  UNCHANGED keyVars /\ acts' \in Nat
      BY <3>4, DecideKeepsKeys DEF Answer
    <3> QED  BY <2>4, <3>1, <3>2, <3>3, <3>4
  <2>5. UNCHANGED vars => UNCHANGED keyVars /\ acts' \in Nat
    BY DEF vars, KeysInv, KeysTypeOK
  <2> QED  BY <2>1, <2>2, <2>3, <2>4, <2>5 DEF Next
<1>3. KeysInv => SendDelivers
  <2> SUFFICES ASSUME KeysInv, NEW s \in Sends, send[s].step \in {"mailed", "failed"},
                      ~troubled
               PROVE  /\ send[s].step = "mailed"
                      /\ \A u \in Recipients : \E i \in inbox :
                            /\ KeysOf(u) = {i}
                            /\ send[s].late \/ key[i].expiration >= send[s].since + Life
    BY DEF SendDelivers
  <2>1. Orderly(s)
    BY DEF KeysInv, Untroubled
  <2>2. /\ send[s].step = "mailed" /\ \A u \in Recipients : \E i \in inbox : KeysOf(u) = {i}
        /\ ~send[s].late => Lasts(s, DOMAIN key)
    BY <2>1 DEF Orderly
  <2>3. inbox \subseteq DOMAIN key
    BY DEF KeysInv, KeysTypeOK
  <2> QED  BY <2>2, <2>3 DEF Lasts
<1> QED  BY <1>1, <1>2, <1>3, PTL DEF Spec
=============================================================================
