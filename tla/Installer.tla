------------------------------ MODULE Installer ------------------------------
(***************************************************************************)
(* The on-premise installer and the migration runner (scripts/install.ts,  *)
(* scripts/migrate.ts): base schema, extensions, migrations, the company   *)
(* with its administrator, and the secrets in .env, in that order.  A      *)
(* process may be killed between any two of these steps and started again. *)
(***************************************************************************)
EXTENDS FiniteSets, Naturals

CONSTANTS
  Procs,     \* processes that may be running
  Emails,    \* administrator addresses an operator may enter
  Files,     \* 1..n: migrations in the order of their names
  MaxRuns    \* bound: installations started

VARIABLES
  base,      \* init.sql is applied
  ext,       \* extensions.sql is applied
  applied,   \* applied[f]: times migration f has been committed
  admins,    \* administrators in users, one with each company
  env,       \* {} or the run whose secrets .env holds
  proc,      \* proc[p]: where a process stands
  runs,      \* installations started so far
  forced,    \* history: an installation ran with --force
  torn,      \* history: a process was killed within the base schema, or
             \* between the company and its secrets
  crossed    \* history: two processes ran at once

vars == <<base, ext, applied, admins, env, proc, runs, forced, torn, crossed>>

Idle == [pc |-> "idle", run |-> 0, email |-> {}, todo |-> {}]

\* Processes know their steps; extensions and migrations need the base schema.
TypeOK ==
  /\ base \in BOOLEAN /\ ext \in BOOLEAN /\ (ext => base)
  /\ applied \in [Files -> 0..Cardinality(Procs)] /\ admins \subseteq Emails
  /\ env \subseteq 1..MaxRuns /\ Cardinality(env) <= 1 /\ runs \in 0..MaxRuns
  /\ \A p \in Procs :
       /\ proc[p].pc \in {"idle", "base", "ext", "list", "apply", "company", "env"}
       /\ proc[p].run \in 0..MaxRuns /\ proc[p].email \subseteq Emails /\ proc[p].todo \subseteq Files
  /\ forced \in BOOLEAN /\ torn \in BOOLEAN /\ crossed \in BOOLEAN

Init ==
  /\ base = FALSE /\ ext = FALSE /\ applied = [f \in Files |-> 0]
  /\ admins = {} /\ env = {} /\ runs = 0
  /\ proc = [p \in Procs |-> Idle]
  /\ forced = FALSE /\ torn = FALSE /\ crossed = FALSE

Enter(p, s) ==
  /\ proc[p].pc = "idle"
  /\ proc' = [proc EXCEPT ![p] = s]
  /\ crossed' = (crossed \/ \E q \in Procs : proc[q].pc # "idle")

GoTo(p, pc) == proc' = [proc EXCEPT ![p].pc = pc]

-----------------------------------------------------------------------------
\* main as far as shouldBlockInstall; new secrets are drawn for the run.
Install(p, e, force) ==
  /\ runs < MaxRuns
  /\ force \/ admins = {}
  /\ runs' = runs + 1
  /\ Enter(p, [pc |-> "base", run |-> runs + 1, email |-> {e}, todo |-> {}])
  /\ forced' = (forced \/ force)
  /\ UNCHANGED <<base, ext, applied, admins, env, torn>>

\* npm run migrate on its own, as an upgrade does on a system that is installed.
Migrate(p) ==
  /\ base
  /\ Enter(p, [Idle EXCEPT !.pc = "list"])
  /\ UNCHANGED <<base, ext, applied, admins, env, runs, forced, torn>>

\* applyBaseSchema: nothing if companies exists, else init.sql ...
ApplyBase(p) ==
  /\ proc[p].pc = "base"
  /\ base' = TRUE
  /\ GoTo(p, IF base THEN "list" ELSE "ext")
  /\ UNCHANGED <<ext, applied, admins, env, runs, forced, torn, crossed>>

\* ... and extensions.sql, each one statement to the database.
ApplyExt(p) ==
  /\ proc[p].pc = "ext"
  /\ ext' = TRUE
  /\ GoTo(p, "list")
  /\ UNCHANGED <<base, applied, admins, env, runs, forced, torn, crossed>>

After(p) == IF proc[p].run = 0 THEN Idle ELSE [proc[p] EXCEPT !.pc = "company", !.todo = {}]

\* migrate.ts reads schema_migrations once.
List(p) ==
  /\ proc[p].pc = "list"
  /\ proc' = [proc EXCEPT ![p].pc = "apply", ![p].todo = {f \in Files : applied[f] = 0}]
  /\ UNCHANGED <<base, ext, applied, admins, env, runs, forced, torn, crossed>>

\* One transaction per file, in the order of the names.
Apply(p) ==
  /\ proc[p].pc = "apply"
  /\ IF proc[p].todo = {} THEN UNCHANGED applied /\ proc' = [proc EXCEPT ![p] = After(p)]
     ELSE LET f == CHOOSE g \in proc[p].todo : \A h \in proc[p].todo : g <= h IN
            /\ applied' = [applied EXCEPT ![f] = @ + 1]
            /\ proc' = [proc EXCEPT ![p].todo = @ \ {f}]
  /\ UNCHANGED <<base, ext, admins, env, runs, forced, torn, crossed>>

\* Mutant: a migration that fails does not end the installation.
FailGoOn(p) ==
  /\ proc[p].pc = "apply" /\ proc[p].todo # {}
  /\ proc' = [proc EXCEPT ![p] = After(p)]
  /\ UNCHANGED <<base, ext, applied, admins, env, runs, forced, torn, crossed>>

\* A migration fails: rolled back, exit 1, and the installer stops with it.
Fail(p) ==
  /\ proc[p].pc = "apply" /\ proc[p].todo # {}
  /\ proc' = [proc EXCEPT ![p] = Idle]
  /\ UNCHANGED <<base, ext, applied, admins, env, runs, forced, torn, crossed>>

\* createCompanyAndAdmin: one transaction, which a known email rolls back.
Company(p) ==
  /\ proc[p].pc = "company"
  /\ IF proc[p].email \cap admins = {}
     THEN admins' = admins \cup proc[p].email /\ GoTo(p, "env")
     ELSE proc' = [proc EXCEPT ![p] = Idle] /\ UNCHANGED admins
  /\ UNCHANGED <<base, ext, applied, env, runs, forced, torn, crossed>>

\* upsertEnvVars replaces the secrets in place.
WriteEnv(p) ==
  /\ proc[p].pc = "env"
  /\ env' = {proc[p].run}
  /\ proc' = [proc EXCEPT ![p] = Idle]
  /\ UNCHANGED <<base, ext, applied, admins, runs, forced, torn, crossed>>

\* The process is killed.
Kill(p) ==
  /\ proc[p].pc # "idle"
  /\ torn' = (torn \/ proc[p].pc \in {"ext", "env"})
  /\ proc' = [proc EXCEPT ![p] = Idle]
  /\ UNCHANGED <<base, ext, applied, admins, env, runs, forced, crossed>>

Next == \E p \in Procs :
  \/ \E e \in Emails, force \in BOOLEAN : Install(p, e, force)
  \/ Migrate(p) \/ ApplyBase(p) \/ ApplyExt(p) \/ List(p) \/ Apply(p) \/ Fail(p)
  \/ Company(p) \/ WriteEnv(p) \/ Kill(p)

Spec == Init /\ [][Next]_vars

-----------------------------------------------------------------------------
(* Properties                                                              *)

\* A system with a company in it is whole: base schema, extensions and every
\* migration, however often the installation failed and was started again.
\* Killed between init.sql and extensions.sql, or run twice at once, it may
\* lack the extensions for good, because the second run skips both.
InstalledIsWhole ==
  ~torn /\ ~crossed /\ admins # {} => base /\ ext /\ \A f \in Files : applied[f] > 0

\* The company and the secrets belong together: both are there, and of one run,
\* once nothing runs, unless an operator forced another installation.
SecretsWithCompany ==
  ~torn /\ ~crossed /\ ~forced /\ (\A p \in Procs : proc[p].pc = "idle") =>
    /\ Cardinality(admins) <= 1
    /\ env = {} <=> admins = {}

\* No migration is committed twice, unless two runners were at work at once.
MigratedOnce == ~crossed => \A f \in Files : applied[f] <= 1

=============================================================================
