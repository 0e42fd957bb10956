---------------------------- MODULE MiniProgram ----------------------------
(* A mini program: an ordered list of blocks through which a data set flows *)
(* (runtime.tsx), edited in MiniProgramBuilder.  The output of a plugin is  *)
(* computed in a worker, each time its input or configuration has changed   *)
(* (PluginTransformRunner), and kept in the runtime's state.                *)
(*                                                                          *)
(* Rows are told apart by where they come from: the file that was read and  *)
(* the steps that were applied to it since, <<>> being no rows.             *)
EXTENDS Naturals, Sequences, FiniteSets

CONSTANTS
  FileIds, StepIds, PluginIds,   \* blocks by kind: file-input; columns, transform, code; plugin
  Files, Configs,
  NoneYet,                       \* undefined
  MaxBlocks,                     \* bound on the program that was saved
  MaxActs                        \* bound on what the user does

Ids == FileIds \cup StepIds \cup PluginIds

VARIABLES
  program,     \* the blocks, in order
  used,        \* the ids that were given out
  source,      \* [Ids -> Ids \cup {NoneYet}]: dataSource
  cfg,         \* [Ids -> Configs]
  inputs,      \* [FileIds -> rows or NoneYet]
  outputs,     \* [PluginIds -> rows or NoneYet]: pluginOutputs
  sig,         \* [PluginIds -> <<configuration, input>> or NoneYet]: what was run last
  token,       \* [PluginIds -> Nat]
  runs,        \* workers under way
  reading,     \* files that are being parsed
  acts,
  forgotten,   \* plugins whose output a reset took away and that have not run since
  pressed      \* plugins whose output is that of a button

programVars == <<program, used, source, cfg, inputs, outputs, sig, token, runs, reading, acts, forgotten, pressed>>

Placed == {program[i] : i \in 1 .. Len(program)}

-----------------------------------------------------------------------------
(* evaluate()                                                              *)

\* The place of the block that b names as its source, if it is among the first n.
SourceAt(b, n) == {j \in 1 .. n : program[j] = source[b]}

\* What leaves each place: a file's rows, what a plugin answered, or the input
\* with the step applied.
Flow ==
  LET out[i \in 0 .. Len(program)] ==
        IF i = 0 THEN <<>>
        ELSE LET b == program[i]
                 in == IF source[b] = NoneYet \/ b \in FileIds THEN out[i - 1]
                       ELSE IF SourceAt(b, i - 1) = {} THEN <<>>
                       ELSE out[CHOOSE j \in SourceAt(b, i - 1) : TRUE]
             IN CASE b \in FileIds -> IF inputs[b] = NoneYet THEN in ELSE inputs[b]
                  [] b \in StepIds -> Append(in, <<b, cfg[b]>>)
                  [] b \in PluginIds -> IF outputs[b] = NoneYet THEN in ELSE outputs[b]
  IN out

\* What enters the block b.
InputTo(b) ==
  LET i == CHOOSE i \in 1 .. Len(program) : program[i] = b
  IN IF source[b] = NoneYet THEN Flow[i - 1]
     ELSE IF SourceAt(b, i - 1) = {} THEN <<>>
     ELSE Flow[CHOOSE j \in SourceAt(b, i - 1) : TRUE]

Signature(b) == <<cfg[b], InputTo(b)>>

-----------------------------------------------------------------------------
(* The builder                                                             *)

Acts == acts < MaxActs /\ acts' = acts + 1
Keep == UNCHANGED <<inputs, outputs, sig, token, runs, reading, forgotten, pressed>>

\* addBlock: a new block goes to the end.
AddBlock ==
  /\ Acts
  /\ \E b \in Ids \ used :
       /\ program' = Append(program, b)
       /\ used' = used \cup {b}
  /\ UNCHANGED <<source, cfg>> /\ Keep

\* removeBlock: the block goes, and the sources that name it are cleared.
RemoveBlock ==
  /\ Acts
  /\ \E b \in Placed :
       /\ program' = SelectSeq(program, LAMBDA x : x # b)
       /\ source' = [x \in Ids |-> IF source[x] = b THEN NoneYet ELSE source[x]]
  /\ UNCHANGED <<used, cfg>> /\ Keep

\* reorderByDrag, and move with its neighbour: sources are not looked at, so that
\* one may come to lie behind the block that names it.
Reorder ==
  /\ Acts
  /\ \E from, to \in 1 .. Len(program) :
       /\ from # to
       /\ LET rest == [i \in 1 .. Len(program) - 1 |-> program[IF i < from THEN i ELSE i + 1]]
          IN program' = [i \in 1 .. Len(program) |->
                           IF i < to THEN rest[i] ELSE IF i = to THEN program[from] ELSE rest[i - 1]]
  /\ UNCHANGED <<used, source, cfg>> /\ Keep

\* SourcePicker: an earlier block that produces rows, or none.
PickSource ==
  /\ Acts
  /\ \E i \in 1 .. Len(program) :
       \E s \in ({program[j] : j \in 1 .. i - 1} \ PluginIds) \cup {NoneYet} :
         /\ program[i] \notin FileIds
         /\ source' = [source EXCEPT ![program[i]] = s]
  /\ UNCHANGED <<program, used, cfg>> /\ Keep

\* The settings of a block.
Configure ==
  /\ Acts
  /\ \E b \in Placed \ FileIds, c \in Configs : cfg' = [cfg EXCEPT ![b] = c]
  /\ UNCHANGED <<program, used, source>> /\ Keep

\* A generated draft replaces the blocks or is appended to them; its sources are
\* blocks of the draft, in whatever order the model put them.
ApplyGenerated ==
  /\ Acts
  /\ \E b, d \in (Ids \ used) \ PluginIds, replace \in BOOLEAN :
       /\ b # d
       /\ program' = (IF replace THEN <<>> ELSE program) \o <<b, d>>
       /\ used' = used \cup {b, d}
       /\ \E s \in {NoneYet, b, d} : source' = [source EXCEPT ![d] = s]
  /\ UNCHANGED cfg /\ Keep

-----------------------------------------------------------------------------
(* The runtime                                                             *)

\* A file is chosen; its rows are there when it has been parsed.
Choose ==
  /\ Acts
  /\ \E b \in Placed \cap FileIds, f \in Files : reading' = reading \cup {[block |-> b, rows |-> <<f>>]}
  /\ UNCHANGED <<program, used, source, cfg, inputs, outputs, sig, token, runs, forgotten, pressed>>

Parsed(r) ==
  /\ reading' = reading \ {r}
  /\ inputs' = [inputs EXCEPT ![r.block] = r.rows]
  /\ UNCHANGED <<program, used, source, cfg, outputs, sig, token, runs, acts, forgotten, pressed>>

Clear ==
  /\ Acts
  /\ \E b \in Placed \cap FileIds : inputs[b] # NoneYet /\ inputs' = [inputs EXCEPT ![b] = NoneYet]
  /\ UNCHANGED <<program, used, source, cfg, outputs, sig, token, runs, reading, forgotten, pressed>>

\* resetAll empties the state; what was run last is remembered elsewhere and stays.
Reset ==
  /\ Acts
  /\ inputs' = [b \in FileIds |-> NoneYet]
  /\ outputs' = [b \in PluginIds |-> NoneYet]
  /\ forgotten' = PluginIds
  /\ pressed' = {}
  /\ UNCHANGED <<program, used, source, cfg, sig, token, runs, reading>>

\* The button of a plugin runs its code on the rows that are shown, unless it does.
Press ==
  /\ Acts
  /\ \E i \in 1 .. Len(program) :
       /\ program[i] \in PluginIds
       /\ \A r \in runs : ~(r.block = program[i] /\ r.token = 0)
       /\ runs' = runs \cup {[block |-> program[i], rows |-> Flow[i], cfg |-> cfg[program[i]],
                              token |-> 0]}
  /\ UNCHANGED <<program, used, source, cfg, inputs, outputs, sig, token, reading, forgotten, pressed>>

\* The effect of PluginTransformRunner: every plugin whose signature is another
\* than the last one is run, under a new token.
Due == {b \in Placed \cap PluginIds : sig[b] # Signature(b)}
Effect ==
  /\ Due # {}
  /\ sig' = [b \in PluginIds |-> IF b \in Due THEN Signature(b) ELSE sig[b]]
  /\ token' = [b \in PluginIds |-> IF b \in Due THEN token[b] + 1 ELSE token[b]]
  /\ runs' = runs \cup {[block |-> b, rows |-> InputTo(b), cfg |-> cfg[b], token |-> token'[b]] : b \in Due}
  /\ forgotten' = forgotten \ Due
  /\ UNCHANGED <<program, used, source, cfg, inputs, outputs, reading, acts, pressed>>

\* Only the last run of a plugin may answer (the token); a button's has none.
AllHeeded(r) == FALSE
Superseded(r) == r.token # 0 /\ r.token # token[r.block]

\* runInSandbox ends: the rows it made; or, for an error or when its time is up,
\* those it was given, except that a failed button changes nothing.
Answer(r) ==
  /\ runs' = runs \ {r}
  /\ \/ /\ Superseded(r) \/ r.token = 0
        /\ UNCHANGED <<outputs, forgotten, pressed>>
     \/ /\ ~Superseded(r)
        /\ \E rows \in {Append(r.rows, <<r.block, r.cfg>>)} \cup (IF r.token = 0 THEN {} ELSE {r.rows}) :
             outputs' = [outputs EXCEPT ![r.block] = rows]
        /\ forgotten' = forgotten \ {r.block}
        /\ pressed' = IF r.token = 0 THEN pressed \cup {r.block} ELSE pressed \ {r.block}
  /\ UNCHANGED <<program, used, source, cfg, inputs, sig, token, reading, acts>>

\* A program as it was saved: blocks in some order, each once.
Saved == UNION {{p \in [1 .. n -> Ids] : \A i, j \in 1 .. n : i # j => p[i] # p[j]} : n \in 0 .. MaxBlocks}

Init ==
  /\ program \in Saved /\ used = Placed
  /\ source = [b \in Ids |-> NoneYet]
  /\ cfg = [b \in Ids |-> CHOOSE c \in Configs : TRUE]
  /\ inputs = [b \in FileIds |-> NoneYet]
  /\ outputs = [b \in PluginIds |-> NoneYet]
  /\ sig = [b \in PluginIds |-> NoneYet]
  /\ token = [b \in PluginIds |-> 0]
  /\ runs = {} /\ reading = {} /\ acts = 0 /\ forgotten = {} /\ pressed = {}

Next ==
  \/ AddBlock \/ RemoveBlock \/ Reorder \/ PickSource \/ Configure \/ ApplyGenerated
  \/ Choose \/ Clear \/ Reset \/ Press \/ Effect
  \/ \E r \in reading : Parsed(r)
  \/ \E r \in runs : Answer(r)

-----------------------------------------------------------------------------
(* Properties                                                              *)

TypeOK ==
  /\ Placed \subseteq used /\ used \subseteq Ids /\ Len(program) = Cardinality(Placed)
  /\ source \in [Ids -> Ids \cup {NoneYet}] /\ cfg \in [Ids -> Configs]
  /\ token \in [PluginIds -> Nat] /\ acts \in 0 .. MaxActs
  /\ forgotten \subseteq PluginIds /\ pressed \subseteq PluginIds

\* "clear any dangling dataSource refs left pointing at it": a block reads from
\* the one before it or from a block of the program.
SourcesExist == \A b \in Placed : source[b] \in Placed \cup {NoneYet}

\* "a stale async result can't overwrite a newer one": when nothing runs any
\* more, what leaves a plugin is made of what enters it now, as it is set now.
PluginsCurrent ==
  Due = {} /\ (\A r \in runs : r.token # token[r.block] \/ r.block \notin Placed) =>
    \A b \in (Placed \cap PluginIds) \ (forgotten \cup pressed) :
      outputs[b] \in {InputTo(b), Append(InputTo(b), <<b, cfg[b]>>)}

=============================================================================
