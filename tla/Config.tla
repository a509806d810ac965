------------------------------- MODULE Config -------------------------------
(***************************************************************************)
(* The configuration file (regexplib.c): how readconf reads it, token by   *)
(* token, into the tables conf and synctype, and what regex_match and      *)
(* sync_entry find there.                                                  *)
(*                                                                         *)
(* A file that was meant as a sequence of blocks is the text that the      *)
(* grammar of doc/jit-dt.tex:569-583 gives them; a file that was meant as  *)
(* nothing is any other text.  A token is <<kind, string>>.  The           *)
(* substitution of $1..$9 (matchedcopy) and the matching itself (regexec,  *)
(* external) are left out: a match gives the rule that would be applied.   *)
(***************************************************************************)
EXTENDS Naturals, SequencesExt

CONSTANTS Files,        \* the meant configurations: sequences of blocks
          Texts,        \* other texts, no configurations
          Matching,     \* Matching[p]: the file names the pattern p matches
          BadPatterns,  \* patterns regcomp does not compile
          FileNames, Types,
          MAX_CONF, MAX_SYNCFILES

Items == {"pattern", "date", "type", "fname", "threshold"}
Unset == ""

\* The name of a region is written as <<"quoted", "", string>> or, as in the
\* example of the document, without quotation marks as <<"bare", digits, word>>:
\* the digits it begins with and the rest, either of them perhaps empty.
\* Strings are printable and shorter than STR_LEN.
Name == ({"quoted"} \X {Unset} \X STRING) \cup ({"bare"} \X STRING \X STRING)

\* A block is <<"region", name, items>> or <<"sync", types>>; an item is
\* <<keyword, string>>, the string between quotation marks.
Block == ({"region"} \X Name \X Seq(Items \X STRING))
            \cup ({"sync"} \X Seq(STRING))
Region(block) == block[1] = "region"

ASSUME ConfigAssumption ==
  /\ Files \subseteq Seq(Block) /\ Texts \subseteq Seq(STRING \X STRING)
  /\ {MAX_CONF, MAX_SYNCFILES} \subseteq Nat \ {0}

Key(word) == <<word, Unset>>
Str(s) == <<"string", s>>
Assignment(word, s) == <<Key(word), Key("="), Str(s), Key(";")>>

\* A token for which gettoken answers TKN_ERR_CHR, as it does at the end of
\* the file, and one that no rule of the grammar has.
Illegal == Key("illegal")
Number == Key("number")

\* What gettoken makes of a name: digits are a number, and a word may be one
\* of the keywords.
Lexed(name) ==
  LET digits == IF name[2] = Unset THEN <<>> ELSE <<Number>>
      word == IF name[3] = Unset THEN <<>>
              ELSE IF name[3] \in {"region", "sync"} \cup Items
                   THEN <<Key(name[3])>> ELSE <<Str(name[3])>>
  IN  IF name[1] = "quoted" THEN <<Str(name[3])>> ELSE digits \o word

PrintedBlock(block) ==
  IF Region(block)
  THEN <<Key("region")>> \o Lexed(block[2]) \o <<Key("{")>>
       \o FlattenSeq([i \in 1..Len(block[3]) |->
                         Assignment(block[3][i][1], block[3][i][2])])
       \o <<Key("}")>>
  ELSE <<Key("sync"), Key("{")>>
       \o FlattenSeq([i \in 1..Len(block[2]) |-> Assignment("type", block[2][i])])
       \o <<Key("}")>>

Printed(blocks) == FlattenSeq([i \in 1..Len(blocks) |-> PrintedBlock(blocks[i])])

VARIABLES
  meant,     \* the blocks the file was written for, <<"nothing">> for none
  text,      \* the tokens not read yet
  at,        \* "top", "region", "sync", "regcomp", "runs", "exit", "crashed"
  buf,       \* the last string token
  conf,      \* conf[i]: an area, its items and whether c_preg is compiled
  cent, confent,
  synctype, syncent,
  answer     \* the last file name asked for, and the rule regex_match took

cvars == <<meant, text, at, buf, conf, cent, confent, synctype, syncent, answer>>

Empty == [area |-> Unset, items |-> [k \in Items |-> Unset], preg |-> FALSE]
NoRule == [k \in {} |-> Unset]

\* buf is a local array: what it holds before the first string is open.
CInit ==
  /\ \/ meant \in Files /\ text = Printed(meant)
     \/ meant = <<"nothing">> /\ text \in Texts
  /\ at = "top" /\ buf \in {Unset, "garbage"}
  /\ conf = [i \in 0..MAX_CONF |-> Empty]
  /\ cent = 0 /\ confent = 0 /\ synctype = <<>> /\ syncent = 0
  /\ answer = <<"", NoRule>>

-----------------------------------------------------------------------------
(* gettoken                                                                *)

\* A semicolon is skipped wherever it is.
Skipped(s) == FlattenSeq([i \in 1..Len(s) |->
                            IF s[i][1] = ";" THEN <<>> ELSE <<s[i]>>])
Rest == Skipped(text)

\* The n-th token from here, and buf after it.
gettoken(n) == IF n <= Len(Rest) THEN Rest[n] ELSE Illegal
Is(n, kind) == gettoken(n)[1] = kind
Buf(n) ==
  LET last == SelectLastInSeq([i \in 1..n |-> gettoken(i)],
                              LAMBDA t : t[1] = "string")
  IN  IF last = 0 THEN buf ELSE gettoken(last)[2]

Read(n) == text' = SubSeq(Rest, n + 1, Len(Rest)) /\ buf' = Buf(n)

\* The test of two tokens at once: it fails only if both are wrong.
Fits(n, first, second) == Is(n, first) \/ Is(n + 1, second)

-----------------------------------------------------------------------------
(* readconf                                                                *)

\* Mutant: an entry more than the sentinel leaves.
open_region_off ==
  /\ at = "top" /\ Is(1, "region") /\ cent <= MAX_CONF /\ Fits(2, "string", "{")
  /\ Read(3) /\ at' = "region"
  /\ conf' = [conf EXCEPT ![cent].area = Buf(3)]
  /\ UNCHANGED <<meant, cent, confent, synctype, syncent, answer>>

open_region ==
  /\ at = "top" /\ Is(1, "region") /\ cent < MAX_CONF /\ Fits(2, "string", "{")
  /\ Read(3) /\ at' = "region"
  /\ conf' = [conf EXCEPT ![cent].area = Buf(3)]
  /\ UNCHANGED <<meant, cent, confent, synctype, syncent, answer>>

region_item ==
  /\ at = "region" /\ gettoken(1)[1] \in Items /\ Fits(2, "=", "string")
  /\ Read(3)
  /\ conf' = [conf EXCEPT ![cent].items[gettoken(1)[1]] = Buf(3)]
  /\ UNCHANGED <<meant, at, cent, confent, synctype, syncent, answer>>

close_region ==
  /\ at = "region" /\ Is(1, "}")
  /\ Read(1) /\ at' = "top" /\ cent' = cent + 1
  /\ UNCHANGED <<meant, conf, confent, synctype, syncent, answer>>

\* Mutant: each sync block starts a new list.
open_sync_anew ==
  /\ at = "top" /\ Is(1, "sync") /\ Is(2, "{")
  /\ Read(2) /\ at' = "sync" /\ synctype' = <<>>
  /\ UNCHANGED <<meant, conf, cent, confent, syncent, answer>>

open_sync ==
  /\ at = "top" /\ Is(1, "sync") /\ Is(2, "{")
  /\ Read(2) /\ at' = "sync"
  /\ UNCHANGED <<meant, conf, cent, confent, synctype, syncent, answer>>

sync_item ==
  /\ at = "sync" /\ Is(1, "type") /\ Fits(2, "=", "string")
  /\ Len(synctype) < MAX_SYNCFILES
  /\ Read(3) /\ synctype' = Append(synctype, Buf(3))
  /\ UNCHANGED <<meant, at, conf, cent, confent, syncent, answer>>

close_sync ==
  /\ at = "sync" /\ Is(1, "}")
  /\ Read(1) /\ at' = "top"
  /\ UNCHANGED <<meant, conf, cent, confent, synctype, syncent, answer>>

\* The inner loops end at an error of gettoken as well, and what they read so
\* far stays: the area of a region without its cent++.
cut_block ==
  /\ at \in {"region", "sync"} /\ Is(1, "illegal")
  /\ Read(1) /\ at' = "top"
  /\ UNCHANGED <<meant, conf, cent, confent, synctype, syncent, answer>>

end_of_file ==
  /\ at = "top" /\ Is(1, "illegal")
  /\ Read(1) /\ at' = "regcomp"
  /\ confent' = cent /\ syncent' = Len(synctype)
  /\ UNCHANGED <<meant, conf, cent, synctype, answer>>

\* What err1 and err2 are reached for.
Refused ==
  \/ /\ at = "top"
     /\ \/ gettoken(1)[1] \notin {"region", "sync", "illegal"}
        \/ Is(1, "region") /\ (cent = MAX_CONF \/ ~Fits(2, "string", "{"))
        \/ Is(1, "sync") /\ ~Is(2, "{")
  \/ /\ at = "region"
     /\ \/ gettoken(1)[1] \notin Items \cup {"}", "illegal"}
        \/ gettoken(1)[1] \in Items /\ ~Fits(2, "=", "string")
  \/ /\ at = "sync"
     /\ \/ gettoken(1)[1] \notin {"type", "}", "illegal"}
        \/ /\ Is(1, "type")
           /\ ~Fits(2, "=", "string") \/ Len(synctype) = MAX_SYNCFILES

format_error ==
  /\ Refused /\ at' = "exit"
  /\ UNCHANGED <<meant, text, buf, conf, cent, confent, synctype, syncent, answer>>

-----------------------------------------------------------------------------
(* regex_init, regex_match and sync_entry                                  *)

\* regcomp answers an error with a positive number, the test is for a
\* negative one: a pattern that does not compile is passed over.
regex_init ==
  /\ at = "regcomp" /\ at' = "runs"
  /\ conf' = [i \in 0..MAX_CONF |->
                [conf[i] EXCEPT !.preg = i < confent
                                         /\ conf[i].items["pattern"] \notin BadPatterns]]
  /\ UNCHANGED <<meant, text, buf, cent, confent, synctype, syncent, answer>>

Matches(pattern, name) == pattern = Unset \/ name \in Matching[pattern]

\* Where the walk of regex_match ends: at a match, at the first empty area or
\* at an entry without a compiled pattern, which regexec dereferences.
WalkEnd(name) ==
  CHOOSE i \in 0..MAX_CONF :
    LET Ends(j) == \/ conf[j].area = Unset \/ ~conf[j].preg
                   \/ Matches(conf[j].items["pattern"], name)
    IN  Ends(i) /\ \A j \in 0..(i - 1) : ~Ends(j)

regex_match ==
  /\ at = "runs"
  /\ \E name \in FileNames :
       LET c == conf[WalkEnd(name)]
       IN  /\ at' = IF c.area # Unset /\ ~c.preg THEN "crashed" ELSE "runs"
           /\ answer' = <<name, IF c.area = Unset \/ ~c.preg THEN NoRule ELSE c.items>>
  /\ UNCHANGED <<meant, text, buf, conf, cent, confent, synctype, syncent>>

\* The place of a file of this type in the record of its date, counted from 1
\* and 0 for none (in the code from 0, and -1).
sync_entry(type) ==
  SelectInSeq(SubSeq(synctype, 1, syncent), LAMBDA t : t = type)

CNext ==
  \/ open_region \/ region_item \/ close_region
  \/ open_sync \/ sync_item \/ close_sync
  \/ cut_block \/ end_of_file \/ format_error
  \/ regex_init \/ regex_match

CSpec == CInit /\ [][CNext]_cvars

-----------------------------------------------------------------------------
(* Properties                                                              *)

(* What the file means: its regions in their order, and the types of all   *)
(* its sync blocks in one list.                                            *)
RegionsOf(blocks) ==
  FlattenSeq([i \in 1..Len(blocks) |->
                IF Region(blocks[i]) THEN <<blocks[i]>> ELSE <<>>])
SyncedOf(blocks) ==
  FlattenSeq([i \in 1..Len(blocks) |->
                IF Region(blocks[i]) THEN <<>> ELSE blocks[i][2]])
Regions == RegionsOf(meant)
Synced == SyncedOf(meant)

\* Of an item written twice the last holds.
Value(items, k) ==
  LET i == SelectLastInSeq(items, LAMBDA item : item[1] = k)
  IN  IF i = 0 THEN Unset ELSE items[i][2]
Rule(i) == [k \in Items |-> Value(Regions[i][3], k)]

\* "The first region that matches is used": doc/jit-dt.tex:563-564.
MeantFor(name) ==
  LET i == SelectInSeq(Regions, LAMBDA r : Matches(Value(r[3], "pattern"), name))
  IN  IF i = 0 THEN NoRule ELSE Rule(i)

Compilable == \A i \in 1..Len(Regions) : Rule(i)["pattern"] \notin BadPatterns

\* An area without a name ends the walk of regex_match.
Named == \A i \in 1..Len(Regions) : Regions[i][2][3] # Unset

\* The names that gettoken gives as one string.
Plain(name) == Lexed(name) = <<Str(name[3])>>
AllPlain == \A i \in 1..Len(meant) : Region(meant[i]) => Plain(meant[i][2])

(* Types, and what regex_match relies on to stop: no text, whatever it is, *)
(* fills the last entry of conf or more than the array of synchronized     *)
(* types (regexplib.c:54-57, 163, 198).                                    *)
CTypeOK ==
  /\ at \in {"top", "region", "sync", "regcomp", "runs", "exit", "crashed"}
  /\ conf[MAX_CONF] = Empty
  /\ confent \in 0..cent /\ cent \in 0..MAX_CONF
  /\ syncent \in 0..Len(synctype) /\ Len(synctype) \in 0..MAX_SYNCFILES

TooLarge == Len(Regions) > MAX_CONF \/ Len(Synced) > MAX_SYNCFILES

(* A file written by the grammar, its names between quotation marks or     *)
(* beginning with a letter and no keywords, is read as it was meant: it is *)
(* refused only for its size, each file name gets the rule of the first    *)
(* region whose pattern matches it, and each type its place in the list    *)
(* over all the sync blocks (regexplib.c:148-310).                         *)
ReadsAsMeant ==
  meant # <<"nothing">> /\ AllPlain =>
    /\ at = "exit" => TooLarge
    /\ at = "crashed" => ~Compilable
    /\ at = "runs" /\ Compilable /\ Named =>
         /\ answer[1] # "" => answer[2] = MeantFor(answer[1])
         /\ \A t \in Types : sync_entry(t) = SelectInSeq(Synced, LAMBDA s : s = t)
=============================================================================
