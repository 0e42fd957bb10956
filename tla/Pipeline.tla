------------------------------ MODULE Pipeline ------------------------------
(***************************************************************************)
(* The linear program builder: a file's columns, a mapping of them, and    *)
(* the steps that the engine applies to every row (applyPipeline).  The    *)
(* builder offers the columns that it expects after all steps              *)
(* (derivedColumns) without running them.  Values are left out: a row is   *)
(* the set of its columns.                                                 *)
(***************************************************************************)
EXTENDS Naturals, Sequences, SequencesExt

CONSTANTS
  Names,     \* column names
  NoColumn,  \* "", what addStep takes where no column is offered
  Headers,   \* the sets of headers that files have
  NoFile,    \* nothing was loaded
  MaxSteps,  \* bound: steps of a pipeline
  MaxActs    \* bound: what the user does

VARIABLES
  keys,      \* the keys of pipeline.columns
  steps,     \* pipeline.steps
  headers,   \* the columns of the rows that are loaded
  loaded,    \* history: the upload they come from
  fileName,  \* the upload that is named above them
  parsing,   \* uploads whose file is being read
  uploads,
  acts,
  overtaken  \* history: a file was chosen while another was being read

pipelineVars == <<keys, steps, headers, loaded, fileName, parsing, uploads, acts, overtaken>>

Selectable == Names \cup {NoColumn}

\* A step by what it does to columns: write is trim, case and replace; into is extract,
\* split, concat and computed; after code a row has any columns; filter reads only.
Step(op, column, into) == [op |-> op, column |-> column, into |-> into]
Few == {{n} : n \in Names} \cup {{n, m} : n, m \in Names}
Steps ==
  {Step("write", c, {}) : c \in Selectable} \cup {Step("drop", c, {}) : c \in Selectable}
  \cup {Step("rename", c, {n}) : c \in Selectable, n \in Names}
  \cup {Step("into", c, s) : c \in {NoColumn}, s \in Few}
  \cup {Step("code", NoColumn, s) : s \in Few} \cup {Step("filter", NoColumn, {})}

-----------------------------------------------------------------------------
(* engine.ts                                                               *)

\* applyStep: the columns of a row after a step.
Applied(s, row) ==
  CASE s.op = "write" -> row \cup {s.column}
    [] s.op = "into" -> row \cup s.into
    [] s.op = "code" -> s.into
    [] s.op = "rename" -> IF s.column \in row THEN (row \ {s.column}) \cup s.into ELSE row
    [] s.op = "drop" -> row \ {s.column}
    [] s.op = "filter" -> row

applyPipeline(row, ss) == FoldLeft(LAMBDA r, s : Applied(s, r), row, ss)

\* Mutant: the old name of a renamed column is still offered.
ExpectedBoth(s, offered) ==
  CASE s.op \in {"into", "rename"} -> offered \cup s.into
    [] s.op = "drop" -> offered \ {s.column}
    [] OTHER -> offered

Expected(s, offered) ==
  CASE s.op = "into" -> offered \cup s.into
    [] s.op = "rename" -> (offered \ {s.column}) \cup s.into
    [] s.op = "drop" -> offered \ {s.column}
    [] OTHER -> offered

derivedColumns(base, ss) == FoldLeft(LAMBDA o, s : Expected(s, o), base, ss)

-----------------------------------------------------------------------------
(* ProgramBuilderPage                                                      *)

Act == acts < MaxActs /\ acts' = acts + 1

\* onUpload: the name is shown at once, the rows when the file was read.
Upload ==
  /\ Act
  /\ uploads' = uploads + 1 /\ fileName' = uploads'
  /\ \E h \in Headers : parsing' = parsing \cup {[n |-> uploads', headers |-> h]}
  /\ overtaken' = (overtaken \/ parsing # {})
  /\ UNCHANGED <<keys, steps, headers, loaded>>

\* loadSheet: "Keep saved column mapping if it matches the file; otherwise infer fresh".
Load(h) ==
  /\ headers' = h
  /\ keys' = IF keys # {} /\ keys \subseteq h THEN keys ELSE h

Parsed(p) ==
  /\ parsing' = parsing \ {p}
  /\ Load(p.headers) /\ loaded' = p.n
  /\ UNCHANGED <<steps, fileName, uploads, acts, overtaken>>

\* Another sheet of the workbook.
PickSheet ==
  /\ Act /\ headers # NoFile
  /\ \E h \in Headers : Load(h)
  /\ UNCHANGED <<steps, loaded, fileName, parsing, uploads, overtaken>>

SetSteps(ss) == steps' = ss /\ UNCHANGED <<keys, headers, loaded, fileName, parsing, uploads, overtaken>>

\* addStep takes the first column that is offered; a rename starts with its own name.
NewSteps(offered) ==
  {s \in Steps : /\ s.op \in {"write", "rename", "drop"} =>
                      s.column \in IF offered = {} THEN {NoColumn} ELSE offered
                 /\ s.op = "rename" => s.into = {s.column}}

AddStep ==
  /\ Act /\ headers # NoFile /\ Len(steps) < MaxSteps
  /\ \E s \in NewSteps(derivedColumns(keys, steps)) : SetSteps(Append(steps, s))

\* updateStep: a column from those that are offered after all steps, a name that is typed.
UpdateStep ==
  /\ Act /\ headers # NoFile
  /\ \E i \in 1 .. Len(steps), s \in Steps :
       /\ s.op = steps[i].op
       /\ s.column \in derivedColumns(keys, steps) \cup {steps[i].column}
       /\ SetSteps([steps EXCEPT ![i] = s])

RemoveStep ==
  /\ Act /\ headers # NoFile
  /\ \E i \in 1 .. Len(steps) : SetSteps(SubSeq(steps, 1, i - 1) \o SubSeq(steps, i + 1, Len(steps)))

MoveStep ==
  /\ Act /\ headers # NoFile
  /\ \E i \in 1 .. Len(steps) - 1 : SetSteps([steps EXCEPT ![i] = steps[i + 1], ![i + 1] = steps[i]])

\* The page opens with the pipeline as it was saved over some file, or an empty one.
Init ==
  /\ keys \in {{}} \cup Headers /\ steps \in {<<>>} \cup {<<s>> : s \in Steps}
  /\ headers = NoFile /\ loaded = 0 /\ fileName = 0 /\ parsing = {} /\ uploads = 0 /\ acts = 0
  /\ overtaken = FALSE

Next ==
  \/ Upload \/ PickSheet \/ AddStep \/ UpdateStep \/ RemoveStep \/ MoveStep
  \/ \E p \in parsing : Parsed(p)

-----------------------------------------------------------------------------
(* Properties                                                              *)

\* No step is code, and every step that writes or renames finds its column there when
\* its turn comes (it may not: an earlier step was removed or moved).
Sound ==
  \A i \in 1 .. Len(steps) :
    /\ steps[i].op # "code"
    /\ steps[i].op \in {"write", "rename"} =>
         steps[i].column \in applyPipeline(headers, SubSeq(steps, 1, i - 1))

\* "Column names that exist in the data after applying steps": what is offered is what
\* the rows have, but for columns of the file that the kept mapping does not know.
PaletteIsActual ==
  headers # NoFile /\ Sound =>
    LET offered == derivedColumns(keys, steps)
        actual == applyPipeline(headers, steps)
    IN offered \subseteq actual /\ actual \ offered \subseteq headers \ keys

\* The mapping speaks of columns of the file that is loaded.
MappingFits == headers # NoFile => keys # {} /\ keys \subseteq headers

\* The name above the rows is that of their file, unless two files were read at once.
NamedRight == parsing = {} /\ ~overtaken => fileName = loaded

=============================================================================
