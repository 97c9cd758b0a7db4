--------------------------- MODULE CtagsHighlighting ---------------------------
(***************************************************************************)
(* ctags_highlighting.vim around mktypes.py: the commands :UpdateTypesFile *)
(* and :UpdateTypesFileOnly, which run the script and have every open      *)
(* buffer read its types file, and the source files the project consists   *)
(* of.  Vim waits for the script; what kills it or makes it fail is over   *)
(* when Vim reads the files.                                               *)
(***************************************************************************)
EXTENDS MkTypes

CONSTANTS Commands,   \* how the commands are used: only, dontGenerate and the other variables
          Projects,   \* what ctags would find to begin with
          Opened,     \* the languages there is an open buffer of
          MaxUpdates, MaxEdits  \* bounds

ASSUME ProjectsAssumption == Projects \subseteq SUBSET Tags

VARIABLES source,   \* what ctags would find in the files now
          hl,       \* the keywords and patterns of each language's buffer, with their groups
          updates, edits

vimVars == <<source, hl, updates, edits>>
vars == <<scriptVars, vimVars>>

Init ==
  /\ source \in Projects
  /\ exists = FALSE /\ tags = {}
  /\ types = [l \in Languages |-> <<>>]
  /\ pc = "idle"
  /\ NoProcess
  /\ hl = [l \in Languages |-> {}]
  /\ updates = 0 /\ edits = 0

\* b:TypesFileDoNotGenerateTags, if it is set, decides and not the command.
UseExisting(command) ==
  IF command.dontGenerate = "unset" THEN command.only ELSE command.dontGenerate = "yes"

Update(command) ==
  /\ updates < MaxUpdates
  /\ updates' = updates + 1
  /\ Start([useExisting |-> UseExisting(command), locals |-> command.locals,
            matches |-> command.matches, languages |-> command.languages])
  /\ UNCHANGED <<source, hl, edits>>

-----------------------------------------------------------------------------
(* ReadTypes(): the lines of the file are executed.                        *)

Items(line) == {<<g, line.words[i]>> : g \in line.groups, i \in DOMAIN line.words}

\* The words a file gives a colour.
Shown(file) == UNION {Items(file[i]) : i \in DOMAIN file}

\* The lines from the i-th on clear that group; without a name :syn clear clears all.
ClearedFrom(file, i, g) ==
  \E j \in DOMAIN file : /\ j >= i /\ file[j].type = "clear"
                        /\ (g \in file[j].groups \/ file[j].groups = {})

\* Of the words known before and those of the file the ones no later line clears.
ReadTypes(known, file) ==
  {item \in known : ~ClearedFrom(file, 1, item[1])} \cup
  UNION {{item \in Items(file[i]) : ~ClearedFrom(file, i + 1, item[1])} : i \in DOMAIN file}

Ended == pc \in {"ended", "raised", "killed"}

\* tabdo windo call ReadTypesAutoDetect()
Reload ==
  /\ Ended
  /\ hl' = [l \in Languages |-> IF l \in Opened THEN ReadTypes(hl[l], types[l]) ELSE hl[l]]
  /\ pc' = "idle"
  /\ ForgetProcess
  /\ UNCHANGED <<files, source, updates, edits>>

\* Interrupting the command in Vim ends it with the script.
Interrupted ==
  /\ pc = "killed"
  /\ pc' = "idle"
  /\ ForgetProcess
  /\ UNCHANGED <<files, vimVars>>

\* A file is read anew: its syntax starts without the words of old types files.
EditFile(l) ==
  /\ pc = "idle"
  /\ l \in Opened
  /\ hl' = [hl EXCEPT ![l] = ReadTypes({}, types[l])]
  /\ UNCHANGED <<scriptVars, source, updates, edits>>

\* The source files change while Vim does not wait for the script.
ChangeSource ==
  /\ pc = "idle"
  /\ edits < MaxEdits
  /\ edits' = edits + 1
  /\ \E t \in Tags : source' = IF t \in source THEN source \ {t} ELSE source \cup {t}
  /\ UNCHANGED <<scriptVars, hl, updates>>

-----------------------------------------------------------------------------
Scripted == Script(source) /\ UNCHANGED vimVars

Vim == Reload \/ Interrupted \/ \E l \in Languages : EditFile(l)

Next ==
  \/ Scripted
  \/ Kill(source) /\ UNCHANGED vimVars
  \/ Vim
  \/ \E command \in Commands : Update(command)
  \/ ChangeSource

Spec == Init /\ [][Next]_vars

\* The script runs, and Vim goes on when it has ended.
FairSpec == Spec /\ WF_vars(Scripted) /\ WF_vars(Reload)
=============================================================================
