---------------------------- MODULE AccountLinks ----------------------------
(***************************************************************************)
(* Following a verification or a reset link (verifyEmail, resetPassword)   *)
(* over the connection pool of core/db.  Both handlers mean to write in a  *)
(* transaction, but send BEGIN, the two writes and COMMIT to the pool,     *)
(* which lends a connection to every statement anew.  A connection left in *)
(* a transaction takes the writes of whoever gets it next, so every other  *)
(* single write of the API is here too.                                    *)
(***************************************************************************)
EXTENDS Sequences, FiniteSets, Naturals

CONSTANTS
  Links,     \* rows of auth_tokens, each followed by one request at a time
  Works,     \* single writes of other requests
  Conns      \* connections the pool may open (pg's default is ten)

VARIABLES
  idle,      \* the pool's idle connections, the one released last at the end
  tx,        \* tx[c]: "none" or "open"
  pending,   \* pending[c]: writes of the open transaction
  done,      \* committed writes
  req,       \* req[r]: the statement a request has reached, and its connection
  answered,  \* history: requests answered with success
  crossed    \* history: a link was followed while another request was under way

vars == <<idle, tx, pending, done, req, answered, crossed>>

Parties == Links \cup Works

\* The user's row is changed, the link is deleted, or the other request's write.
Writes == {<<"user", l>> : l \in Links} \cup {<<"link", l>> : l \in Links} \cup {<<"work", w>> : w \in Works}

Steps == {"idle", "select", "begin", "user", "link", "work", "commit"}

\* Every connection is idle, lent or closed, and only a transaction has pending writes.
TypeOK ==
  /\ idle \in Seq(Conns) /\ tx \in [Conns -> {"none", "open"}]
  /\ pending \in [Conns -> SUBSET Writes] /\ done \subseteq Writes
  /\ \A r \in Parties : req[r].step \in Steps /\ req[r].conn \subseteq Conns
  /\ \A c \in Conns : tx[c] # "open" => pending[c] = {}
  /\ answered \subseteq Parties /\ crossed \in BOOLEAN

NoReq == [step |-> "idle", conn |-> {}]

Init ==
  /\ idle = <<>>
  /\ tx = [c \in Conns |-> "none"]
  /\ pending = [c \in Conns |-> {}]
  /\ done = {}
  /\ req = [r \in Parties |-> NoReq]
  /\ answered = {} /\ crossed = FALSE

Busy == {r \in Parties : req[r].step # "idle"}
Lent == UNION {req[r].conn : r \in Parties}
Open == {idle[i] : i \in DOMAIN idle} \cup Lent

-----------------------------------------------------------------------------
Begin(r, step) ==
  /\ req[r].step = "idle"
  /\ req' = [req EXCEPT ![r].step = step]
  /\ crossed' = (crossed \/ (Busy # {} /\ (r \in Links \/ Busy \cap Links # {})))
  /\ UNCHANGED <<idle, tx, pending, done, answered>>

\* A request arrives; a link that was used up answers 400 and changes nothing.
Follow(l) == <<"link", l>> \notin done /\ Begin(l, "select")
Work(w) == <<"work", w>> \notin done /\ Begin(w, "work")

\* pool.query takes the connection released last, or opens one.
Take(r) ==
  /\ req[r].step # "idle" /\ req[r].conn = {}
  /\ \/ /\ idle # <<>>
        /\ req' = [req EXCEPT ![r].conn = {idle[Len(idle)]}]
        /\ idle' = SubSeq(idle, 1, Len(idle) - 1)
     \/ /\ idle = <<>>
        /\ \E c \in Conns \ Open : req' = [req EXCEPT ![r].conn = {c}]
        /\ UNCHANGED idle
  /\ UNCHANGED <<tx, pending, done, answered, crossed>>

Write(r) == <<req[r].step, r>>

\* Mutant: verifyEmail without its BEGIN.
AfterNoBegin(step) ==
  [select |-> "user", begin |-> "user", user |-> "link", link |-> "commit", work |-> "idle", commit |-> "idle"][step]

\* The statements in their order.
After(step) ==
  [select |-> "begin", begin |-> "user", user |-> "link", link |-> "commit", work |-> "idle", commit |-> "idle"][step]

\* The statement is done and the connection goes back on top of the idle ones.
Return(r, next) ==
  /\ req' = [req EXCEPT ![r] = [step |-> next, conn |-> {}]]
  /\ idle' = idle \o <<CHOOSE c \in Conns : c \in req[r].conn>>

\* The row of another transaction's pending write is locked.
Locked(r, c) == \E d \in Conns \ {c} : Write(r) \in pending[d]

\* A write is committed at once, unless the connection is in a transaction.
Execute(r, c) ==
  /\ req[r].conn = {c} /\ ~Locked(r, c)
  /\ LET step == req[r].step
         write == {Write(r)} \cap Writes
         both == pending[c] \cup write
         open == step = "begin" \/ (tx[c] = "open" /\ step # "commit") IN
       /\ tx' = [tx EXCEPT ![c] = IF open THEN "open" ELSE "none"]
       /\ pending' = [pending EXCEPT ![c] = IF open THEN both ELSE {}]
       /\ done' = IF open THEN done ELSE done \cup both
       /\ answered' = IF After(step) = "idle" THEN answered \cup {r} ELSE answered
       /\ Return(r, After(step))
  /\ UNCHANGED crossed

\* A statement fails: 500.  The pool closes the connection, which undoes whatever
\* transaction it was in; no handler sends ROLLBACK.
Error(r, c) ==
  /\ req[r].conn = {c}
  /\ tx' = [tx EXCEPT ![c] = "none"]
  /\ pending' = [pending EXCEPT ![c] = {}]
  /\ req' = [req EXCEPT ![r] = NoReq]
  /\ UNCHANGED <<idle, done, answered, crossed>>

\* The pool closes a connection that was idle for long; its transaction is rolled back.
Close ==
  /\ idle # <<>> /\ Busy = {}
  /\ tx' = [tx EXCEPT ![idle[1]] = "none"]
  /\ pending' = [pending EXCEPT ![idle[1]] = {}]
  /\ idle' = Tail(idle)
  /\ UNCHANGED <<done, req, answered, crossed>>

\* The server restarts.
Restart ==
  /\ idle' = <<>>
  /\ tx' = [c \in Conns |-> "none"]
  /\ pending' = [c \in Conns |-> {}]
  /\ req' = [r \in Parties |-> NoReq]
  /\ UNCHANGED <<done, answered, crossed>>

Next ==
  \/ \E l \in Links : Follow(l)
  \/ \E w \in Works : Work(w)
  \/ \E r \in Parties : Take(r) \/ \E c \in Conns : Execute(r, c) \/ Error(r, c)
  \/ Close \/ Restart

Spec == Init /\ [][Next]_vars

-----------------------------------------------------------------------------
(* Properties                                                              *)

Kept(r) == IF r \in Links THEN {<<"user", r>>, <<"link", r>>} ELSE {<<"work", r>>}

\* What was answered with success is in the database to stay, whatever fails or
\* restarts, as long as no request crosses one that follows a link.
AnsweredIsKept == ~crossed => \A r \in answered : Kept(r) \subseteq done

\* The password or the verification is stored exactly if the link is gone: the
\* two writes are one, as BEGIN and COMMIT intend, if requests do not cross.
LinkUsedWhole == ~crossed => \A l \in Links : <<"user", l>> \in done <=> <<"link", l>> \in done

=============================================================================
