--------------------------- MODULE ConfigUpgrade ----------------------------
(***************************************************************************)
(* The configuration: what the daemon and every command load from the file  *)
(* (src/izy/config.py), and `izy config --upgrade'                          *)
(* (src/izy/config_upgrade.py), which rewrites it: the lines that the       *)
(* shipped defaults have and the user's file has not are added to it as     *)
(* text.  The file is copied to .bak, emptied and written again; the        *)
(* process may die in between, and the user edits the file at any time that *)
(* nothing is at work.                                                      *)
(*                                                                         *)
(* A file is the sequence of its lines, each a record: a section header, a  *)
(* key with its value, a further line of a value that takes several, a      *)
(* comment or a blank.  What is loaded is a value for each key of each      *)
(* section; a key outside of them is never looked at.                       *)
(*                                                                         *)
(* The text-level parser has no notion of a further line: it gives those of *)
(* one key to the header or key that comes next.  The shipped off_task_urls *)
(* takes two lines (src/izy/config.py:166-167), and the second goes with    *)
(* the header of [drift]: an upgrade that brings one of the two without the  *)
(* other, or in another place, tears the value in two, and TOML refuses the *)
(* file it leaves.                                                          *)
(*                                                                         *)
(* Not modelled: users who save a file that TOML refuses, a value of the    *)
(* wrong type, a header with a comment behind it, a further line that looks *)
(* like a header or a key, and a last line without a newline.               *)
(***************************************************************************)
EXTENDS Integers, Sequences, FiniteSets, SequencesExt

CONSTANTS
  Words,        \* the names of sections and keys
  Values,       \* the values of keys
  Long,         \* the values that go on in the next line
  Shipped,      \* DEFAULT_CONFIG_TOML
  BuiltIn,      \* the fields of the sections' dataclasses, with their defaults
  Typed,        \* the lines users type
  MaxLines,     \* bound: lines they type
  MaxEdits,     \* bound: edits
  MaxCuts       \* bound: upgrades cut short

Header(s) == [kind |-> "header", name |-> s]
Key(k, v) == [kind |-> "key", name |-> k, value |-> v]
Rest(open) == [kind |-> "rest", open |-> open]
Comment   == [kind |-> "comment"]
Blank     == [kind |-> "blank"]

Line == {Comment, Blank} \cup {Rest(open) : open \in BOOLEAN}
        \cup {Header(s) : s \in Words} \cup {Key(k, v) : k \in Words, v \in Values}

VARIABLES
  file, bak,    \* the two files
  pc,           \* what the upgrade does next
  planned,      \* the text it is about to write
  mine,         \* history: what the user last saved
  torn,         \* history: the emptied file was left, and then copied over the copy
  edits, cuts

fileVars == <<file, bak, pc, planned, mine, torn, edits, cuts>>

-----------------------------------------------------------------------------
(* parse: the headers, and the keys after each. *)
Headers(lines) == {i \in DOMAIN lines : lines[i].kind = "header"}
Names(lines) == {lines[i].name : i \in Headers(lines)}

(* The header that line i is under; 0 if it is above all. *)
Under(lines, i) == Max({0} \cup {h \in Headers(lines) : h <= i})

KeysIn(lines, s) ==
  {i \in DOMAIN lines : lines[i].kind = "key" /\ Under(lines, i) # 0
                        /\ lines[Under(lines, i)].name = s}
KeyNames(lines, s) == {lines[i].name : i \in KeysIn(lines, s)}

(* A header or key of the defaults, with all the lines since the one before:   *)
(* comments, blanks and the further lines of that one's value.                 *)
Preceding(i) == Max({0} \cup {j \in 1..(i - 1) : Shipped[j].kind \in {"header", "key"}})
Block(i) == SubSeq(Shipped, Preceding(i) + 1, i)
Blocks(I) == FlattenSeq([i \in DOMAIN Shipped |-> IF i \in I THEN Block(i) ELSE <<>>])

(* The section of the header at i, its text without the blanks before it, after *)
(* one of its own.                                                            *)
Section(i) ==
  LET first == Min({j \in (Preceding(i) + 1)..i : Shipped[j] # Blank})
  IN  <<Blank>> \o SubSeq(Shipped, first, i) \o Blocks(KeysIn(Shipped, Shipped[i].name))

(* plan_for: the sections and keys the file has not. *)
MissingSections(lines) == Names(Shipped) \ Names(lines)
Missing(lines, s) == {i \in KeysIn(Shipped, s) : Shipped[i].name \notin KeyNames(lines, s)}
UpToDate(lines) ==
  /\ MissingSections(lines) = {}
  /\ \A s \in Names(Shipped) : Missing(lines, s) = {}

(* _build: what a section's dataclass gives a key that the file does not.     *)
Default(s, k) == BuiltIn[s][k]

(* What a file says: unknown sections and keys are ignored, missing ones have   *)
(* defaults.                                                                   *)
Settings(lines) ==
  [s \in DOMAIN BuiltIn |-> [k \in DOMAIN BuiltIn[s] |->
     LET given == {i \in KeysIn(lines, s) : lines[i].name = k}
     IN  IF given = {} THEN Default(s, k) ELSE lines[Max(given)].value]]

(* Whether a value goes on behind line i, past comments and blanks.            *)
GoesOn(line) ==
  \/ line.kind = "key" /\ line.value \in Long
  \/ line.kind = "rest" /\ line.open
Said(lines, i) == Max({0} \cup {j \in DOMAIN lines : j <= i /\ lines[j] \notin {Comment, Blank}})
Unended(lines, i) == Said(lines, i) # 0 /\ GoesOn(lines[Said(lines, i)])

(* A file that TOML reads: no section twice, no key twice in a section, and the *)
(* further lines of a value are where one goes on, and only there.              *)
NamedOnce(lines) ==
  /\ \A h, g \in Headers(lines) : lines[h].name = lines[g].name => h = g
  /\ \A i, j \in DOMAIN lines :
       lines[i].kind = "key" /\ lines[j].kind = "key" /\ lines[i].name = lines[j].name
         /\ Under(lines, i) = Under(lines, j) => i = j
Complete(lines) ==
  /\ \A i \in DOMAIN lines :
       lines[i] \notin {Comment, Blank} => (lines[i].kind = "rest" <=> Unended(lines, i - 1))
  /\ ~Unended(lines, Len(lines))
WellFormed(lines) == NamedOnce(lines) /\ Complete(lines)

(* load: tomllib raises, or the settings. *)
Refused == <<>>
Load(lines) == IF WellFormed(lines) THEN Settings(lines) ELSE Refused

(* The shipped file is one TOML reads, and has no key above its sections.      *)
(* "Defaults deliberately mirror DEFAULT_CONFIG_TOML exactly"                 *)
(* (src/izy/config.py:303), which a test asserts of the real ones.            *)
ASSUME ConfigAssumption ==
  /\ Shipped \in Seq(Line) /\ WellFormed(Shipped)
  /\ \A i \in DOMAIN Shipped : Shipped[i].kind = "key" => Under(Shipped, i) # 0
  /\ \A s \in DOMAIN BuiltIn : \A k \in DOMAIN BuiltIn[s] :
       \E i \in KeysIn(Shipped, s) : Shipped[i].name = k /\ Shipped[i].value = BuiltIn[s][k]
  /\ Typed \subseteq Line /\ MaxLines \in Nat

(* Seeded fault: the end is found one line too late, behind the next header.  *)
SectionEndPast(lines, s) ==
  LET start == Min({h \in Headers(lines) : lines[h].name = s})
      next == {h \in Headers(lines) : h > start}
  IN  IF next = {} THEN Len(lines) ELSE Min(next)

(* Seeded fault: the comments before the next header are not backed over. *)
SectionEndBelow(lines, s) ==
  LET start == Min({h \in Headers(lines) : lines[h].name = s})
      next == {h \in Headers(lines) : h > start}
      below == IF next = {} THEN Len(lines) ELSE Min(next) - 1
  IN  Max({start} \cup {i \in start..below : lines[i] # Blank})

(* _section_end: the last line of the section, but for the blanks and the      *)
(* comments that belong to the next.                                           *)
SectionEnd(lines, s) ==
  LET start == Min({h \in Headers(lines) : lines[h].name = s})
      next == {h \in Headers(lines) : h > start}
      below == IF next = {} THEN Len(lines) ELSE Min(next) - 1
      solid == Max({start} \cup {i \in start..below : lines[i] # Blank})
  IN  IF next = {} THEN solid
      ELSE Max({start} \cup {i \in start..solid : lines[i] # Comment})

-----------------------------------------------------------------------------
(* What goes after line i: the keys missing in the section that ends there. *)
Inserted(lines, i) ==
  LET here == {s \in Names(Shipped) \cap Names(lines) :
                 Missing(lines, s) # {} /\ SectionEnd(lines, s) = i}
  IN  Blocks(UNION {Missing(lines, s) : s \in here})

(* apply: the insertions, and the missing sections at the end, in their order. *)
Apply(lines) ==
  FlattenSeq([i \in DOMAIN lines |-> <<lines[i]>> \o Inserted(lines, i)])
  \o FlattenSeq([i \in DOMAIN Shipped |->
       IF i \in Headers(Shipped) /\ Shipped[i].name \in MissingSections(lines)
       THEN Section(i) ELSE <<>>])

(* Whether a value of several lines comes together with the header or key that *)
(* has its further lines, in each part of an upgrade: the missing keys of one   *)
(* section, or the missing sections.                                            *)
Items == {i \in DOMAIN Shipped : Shipped[i].kind \in {"header", "key"}}
Unsplit(I) ==
  \A k \in Items \cup {Len(Shipped) + 1} :
    Unended(Shipped, Preceding(k)) => (k \in I <=> Preceding(k) \in I)
InMissing(lines) ==
  {i \in Items : Shipped[Under(Shipped, i)].name \in MissingSections(lines)}
Together(lines) ==
  /\ \A s \in Names(Shipped) \cap Names(lines) : Unsplit(Missing(lines, s))
  /\ Unsplit(InMissing(lines))

(* upgrade_file *)
Begin ==
  /\ pc = "idle" /\ ~UpToDate(file)
  /\ planned' = Apply(file) /\ pc' = "backup"
  /\ UNCHANGED <<file, bak, mine, torn, edits, cuts>>

(* Seeded fault: a copy that is there is kept. *)
CopyOnce == IF bak = <<>> THEN file ELSE bak

Copy == file

Backup ==
  /\ pc = "backup"
  /\ bak' = Copy /\ pc' = "empty"
  /\ torn' = IF torn = "no" THEN "no" ELSE "lost"
  /\ UNCHANGED <<file, planned, mine, edits, cuts>>

(* write_text opens the file, which empties it, and writes. *)
Empty ==
  /\ pc = "empty"
  /\ file' = <<>> /\ pc' = "write"
  /\ UNCHANGED <<bak, planned, mine, torn, edits, cuts>>

Write ==
  /\ pc = "write"
  /\ file' = planned /\ pc' = "idle" /\ planned' = <<>>
  /\ UNCHANGED <<bak, mine, torn, edits, cuts>>

CutShort ==
  /\ pc # "idle" /\ cuts < MaxCuts
  /\ pc' = "idle" /\ planned' = <<>> /\ cuts' = cuts + 1
  /\ torn' = IF pc = "write" /\ torn = "no" THEN "torn" ELSE torn
  /\ UNCHANGED <<file, bak, mine, edits>>

Texts == {lines \in BoundedSeq(Typed, MaxLines) : WellFormed(lines)}

(* The user adds a line, or takes one out. *)
Edit ==
  /\ pc = "idle" /\ edits < MaxEdits
  /\ file' \in {InsertAt(file, i, l) : i \in 1..(Len(file) + 1), l \in Typed}
               \cup {RemoveAt(file, i) : i \in DOMAIN file}
  /\ WellFormed(file')
  /\ mine' = file' /\ torn' = "no" /\ edits' = edits + 1
  /\ UNCHANGED <<bak, pc, planned, cuts>>

(* The file is one that users typed, or the one the first load wrote. *)
FileInit ==
  /\ file \in Texts \cup {Shipped} /\ mine = file /\ bak = <<>>
  /\ pc = "idle" /\ planned = <<>> /\ torn = "no" /\ edits = 0 /\ cuts = 0

FileNext == Begin \/ Backup \/ Empty \/ Write \/ CutShort \/ Edit

FileSpec == FileInit /\ [][FileNext]_fileVars

-----------------------------------------------------------------------------
(* "Deliberately additive" (src/izy/config_upgrade.py:10): every line of old   *)
(* is in new, in its order and in its section; a key keeps its value and the   *)
(* comments right above it.                                                    *)
InOrder(old, new) ==
  LET found[n \in 0..Len(new)] ==
        IF n = 0 THEN 0
        ELSE LET m == found[n - 1]
             IN  IF m < Len(old) /\ old[m + 1] = new[n] THEN m + 1 ELSE m
  IN  found[Len(new)] = Len(old)

Extends(old, new) ==
  /\ InOrder(old, new)
  /\ \A i \in DOMAIN old : old[i].kind \in {"key", "header"} =>
       \E j \in DOMAIN new :
         /\ new[j] = old[i]
         /\ (Under(old, i) = 0) = (Under(new, j) = 0)
         /\ Under(old, i) # 0 => new[Under(new, j)] = old[Under(old, i)]
         /\ i > 1 /\ old[i - 1] = Comment => j > 1 /\ new[j - 1] = Comment

(* An upgrade adds to the file and changes nothing in it, adds everything that *)
(* is missing, so that "upgrading twice is a no-op"                            *)
(* (src/tests/test_config_upgrade.py:92), and leaves a file that TOML reads     *)
(* unless it tears a value of the defaults in two.                             *)
Upgraded ==
  [][ pc = "write" /\ pc' = "idle" /\ cuts' = cuts =>
        /\ Extends(bak, file') /\ UpToDate(file')
        /\ Together(bak) => WellFormed(file') ]_fileVars

(* "A backup is written first, because being wrong here means editing a file   *)
(* the user owns" (src/izy/config_upgrade.py:18-19): what the user saved is in *)
(* the file or in its copy.  The exception is an upgrade after one that was    *)
(* cut short: it copies the emptied file over the copy.                        *)
KeptSomewhere == torn = "lost" \/ Extends(mine, file) \/ Extends(mine, bak)

(* An upgrade changes what is written in the file, not what it says: whoever  *)
(* starts, before, in the midst of or after one, loads the settings that the  *)
(* user saved, although sections share the names of their keys ("enabled").   *)
(* One exception is the emptied file, which loads as the defaults without a    *)
(* complaint: while it is being written, and after an upgrade cut short.  The  *)
(* other is a value torn in two: then the file may be refused, but it never    *)
(* says anything else.                                                         *)
SameSettings ==
  \/ pc = "write" \/ torn # "no"
  \/ Load(file) = Load(mine)
  \/ ~Together(mine) /\ Load(file) = Refused
=============================================================================
