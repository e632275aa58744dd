------------------------------- MODULE IniLoad -------------------------------
(***************************************************************************)
(* iniparser_load (extern/ini/iniparser.c): a file is read line by line, a *)
(* line that ends in a backslash is joined to the next one in the buffer,  *)
(* each whole line is classified by iniparser_line, and sections and       *)
(* values are set in a dictionary, which is the map of KeyValue            *)
(* (Dictionary shows that dictionary.c implements it).                     *)
(*                                                                         *)
(* A physical line is a part and whether a backslash follows it.  What the *)
(* characters of a joined line spell is the sequence of its parts; blanks  *)
(* are left out.  A part counts as one unit of the line buffer, the two    *)
(* characters of a pair of brackets.                                       *)
(***************************************************************************)
EXTENDS Naturals, FiniteSets, Sequences, FiniteSetsExt, SequencesExt

CONSTANTS
    Parts,      \* what a line may hold: records with the field is, one of
                \*   "blank", "comment"  (starts with # or ;)
                \*   "section"           [name], with the field name
                \*   "brackets"          []
                \*   "value"             key = val, with the fields key and val
                \*   "text"              neither brackets nor an equals sign
    Cut(_, _),  \* Cut(s, n): the section's name s cut to the length of a line
                \*   of n parts less one: one character for the line []
    Width,      \* the parts the line buffer holds, ASCIILINESZ
    NULL,
    Failing,    \* what memory may not suffice for: a subset of {"open", "new",
                \* "line", "grow", "key", "val"}
    MaxLines    \* bound: lines of the file

ASSUME WidthAssumption == Width \in Nat \ {0}
ASSUME LinesAssumption == MaxLines \in Nat

NoSection == "none"

SectionNames == {NoSection} \cup {part.name : part \in {q \in Parts : q.is = "section"}}

\* Of what a line leaves of a name, a shorter line leaves what it leaves of the
\* name itself, and a longer one everything.
ASSUME CutAssumption ==
    \A s \in SectionNames, a, b \in 1 .. Width :
        Cut(Cut(s, a), b) = Cut(s, IF a <= b THEN a ELSE b)

Lines == [part : Parts, cont : BOOLEAN]

VARIABLES
    res,        \* "start", "reading", "full" (an allocation failed), "null" or
                \* "dict": what iniparser_load does or has returned
    read,       \* the lines read so far
    line,       \* the buffer: the parts of the line up to `last`
    section,    \* the buffer section
    errs,       \* errs
    map,        \* the dictionary
    out,        \* the dictionary's last operation
    handles,    \* what is to be given back: "file" and "dictionary"
    lost        \* history: some line or copy was lost for want of memory

loadVars == <<res, read, line, section, errs, map, out, handles, lost>>

Dict == INSTANCE KeyValue WITH
    Keys <- {}, Values <- {}, map <- map, out <- out

LoadInit ==
    /\ res = "start"
    /\ read = <<>> /\ line = <<>>
    /\ section = NoSection /\ errs = 0
    /\ Dict!Init
    /\ handles = {} /\ lost = FALSE

-----------------------------------------------------------------------------
(* iniparser_line, of a whole line p without its blanks. *)

Bracket(part) == part.is \in {"section", "brackets"}

IsEmpty(p)   == p = <<>>
IsComment(p) == p # <<>> /\ Head(p).is = "comment"
IsHeader(p)  == p # <<>> /\ Bracket(Head(p)) /\ Bracket(Last(p))

Equals(p) == {i \in 1 .. Len(p) : p[i].is = "value"}

IsValue(p) ==
    ~IsEmpty(p) /\ ~IsComment(p) /\ ~IsHeader(p) /\ Equals(p) # {}

IsError(p) ==
    ~IsEmpty(p) /\ ~IsComment(p) /\ ~IsHeader(p) /\ Equals(p) = {}

\* A header without a name matches nothing in sscanf, and what the buffer holds
\* is cut to the length of the line less one by strlwc.  With a unit for a part,
\* the length is the number of the line's parts.
Named(p, before) == IF Head(p).is = "section" THEN Head(p).name ELSE Cut(before, Len(p))

\* %[^=] and %[^;#]: all up to the first equals sign, and all after it up to
\* a comment.
KeyOf(p) == LET e == Min(Equals(p)) IN Append(SubSeq(p, 1, e - 1), p[e].key)

ValueOf(p) ==
    LET e     == Min(Equals(p))
        ends  == {i \in e + 1 .. Len(p) : p[i].is = "comment"}
        after == IF ends = {} THEN Len(p) ELSE Min(ends) - 1
    IN  <<p[e].val>> \o SubSeq(p, e + 1, after)

-----------------------------------------------------------------------------
(* iniparser_load *)

Leave(r, kept) == res' = r /\ handles' = kept

OpenFails ==
    /\ res = "start" /\ "open" \in Failing
    /\ Leave("null", {})
    /\ UNCHANGED <<read, line, section, errs, map, out, lost>>

\* dictionary_new has no memory for the dictionary; that it has none for one of
\* its arrays (dictionary.c:161-163) is looked at nowhere, and left out.
NewFails ==
    /\ res = "start" /\ "new" \in Failing
    /\ Leave("null", {})
    /\ UNCHANGED <<read, line, section, errs, map, out, lost>>

Start ==
    /\ res = "start"
    /\ Leave("reading", {"file", "dictionary"})
    /\ UNCHANGED <<read, line, section, errs, map, out, lost>>

\* The buffer after fgets of l at `last`.
Joined(l) == IF l.part.is = "blank" THEN line ELSE Append(line, l.part)

\* Mutant: one more than the buffer holds is read.
FitsOneMore(l) == Len(Joined(l)) <= Width + 1

Fits(l) == Len(Joined(l)) <= Width

fgets(l) ==
    /\ res = "reading" /\ Len(read) < MaxLines
    /\ read' = Append(read, l)

\* Mutant: the dictionary of a file with a line too long is not deleted.
TooLongLeaks(l) ==
    /\ fgets(l)
    /\ ~Fits(l)
    /\ Leave("null", {"dictionary"})
    /\ UNCHANGED <<line, section, errs, map, out, lost>>

TooLong(l) ==
    /\ fgets(l)
    /\ ~Fits(l)
    /\ Leave("null", {})
    /\ UNCHANGED <<line, section, errs, map, out, lost>>

\* Multi-line: the next line is read behind this one.
Continue(l) ==
    /\ fgets(l)
    /\ Fits(l) /\ l.cont
    /\ line' = Joined(l)
    /\ UNCHANGED <<res, section, errs, map, out, handles, lost>>

\* A whole line has been read; the buffer is cleared.
Whole(l) == fgets(l) /\ Fits(l) /\ ~l.cont /\ line' = <<>>

\* Mutant: `last` is not reset by a comment.
IgnoreKeeps(l) ==
    /\ fgets(l) /\ Fits(l) /\ ~l.cont
    /\ line' = Joined(l)
    /\ IsEmpty(Joined(l)) \/ IsComment(Joined(l))
    /\ UNCHANGED <<res, section, errs, map, out, handles, lost>>

Ignore(l) ==
    /\ Whole(l)
    /\ IsEmpty(Joined(l)) \/ IsComment(Joined(l))
    /\ UNCHANGED <<res, section, errs, map, out, handles, lost>>

\* iniparser_line could not copy the line: it is taken for an empty one.
LineLost(l) ==
    /\ Whole(l)
    /\ "line" \in Failing
    /\ lost' = TRUE
    /\ UNCHANGED <<res, section, errs, map, out, handles>>

\* Mutant: the next line overwrites mem_err.
SetEntryGoesOn(k, v) ==
    \/ Dict!SetTo(k, v) /\ UNCHANGED <<res, lost>>
    \/ "grow" \in Failing /\ Dict!SetRefused(k) /\ UNCHANGED <<res, lost>>

\* dictionary_set, in which memory may not suffice for the array, the key or
\* the value.  A failure that is reported ends the loop.
SetEntry(k, v) ==
    \/ Dict!SetTo(k, v) /\ UNCHANGED <<res, lost>>
    \/ /\ "val" \in Failing /\ Dict!SetTo(k, NULL)
       /\ lost' = TRUE /\ UNCHANGED res
    \/ Dict!SetLost(k) /\ lost' = TRUE /\ UNCHANGED res
    \/ /\ "grow" \in Failing /\ Dict!SetRefused(k)
       /\ res' = "full" /\ UNCHANGED lost

SetSection(l) ==
    /\ Whole(l)
    /\ IsHeader(Joined(l))
    /\ section' = Named(Joined(l), section)
    /\ SetEntry(<<section'>>, NULL)
    /\ UNCHANGED <<errs, handles>>

SetValue(l) ==
    /\ Whole(l)
    /\ IsValue(Joined(l))
    /\ SetEntry(<<section>> \o KeyOf(Joined(l)), ValueOf(Joined(l)))
    /\ UNCHANGED <<section, errs, handles>>

\* Mutant: a syntax error is reported and not counted.
SyntaxUncounted(l) ==
    /\ Whole(l)
    /\ IsError(Joined(l))
    /\ UNCHANGED <<res, section, errs, map, out, handles, lost>>

SyntaxError(l) ==
    /\ Whole(l)
    /\ IsError(Joined(l))
    /\ errs' = errs + 1
    /\ UNCHANGED <<res, section, map, out, handles, lost>>

\* The end of the file, or of the memory.  A line that ends in a backslash and
\* is the last of the file is still in the buffer then, and is dropped without
\* an error (774-777).  Lines end with a newline; a last one of one character
\* without a newline would be skipped (752).
Finish ==
    /\ res \in {"reading", "full"}
    /\ IF errs > 0 THEN Leave("null", {}) ELSE Leave("dict", {"dictionary"})
    /\ UNCHANGED <<read, line, section, errs, map, out, lost>>

Read(l) ==
    \/ TooLong(l) \/ Continue(l) \/ Ignore(l) \/ LineLost(l)
    \/ SetSection(l) \/ SetValue(l) \/ SyntaxError(l)

LoadNext ==
    \/ OpenFails \/ NewFails \/ Start
    \/ \E l \in Lines : Read(l)
    \/ Finish

LoadSpec == LoadInit /\ [][LoadNext]_loadVars

-----------------------------------------------------------------------------
(* What a file f says, without a buffer and without a current section. *)

\* A whole line ends where no backslash follows, and begins behind the last; a
\* continued line with no line behind it is none, as the code has it.
Ends(f)     == {j \in 1 .. Len(f) : ~f[j].cont}
Begin(f, j) == 1 + Max({0} \cup {h \in Ends(f) : h < j})

\* The physical lines of line j that are not blank, in their order.
Held(f, j) == {h \in Begin(f, j) .. j : f[h].part.is # "blank"}

Nth(S, i) == CHOOSE h \in S : Cardinality({g \in S : g <= h}) = i

WholeLine(f, j) ==
    [i \in 1 .. Cardinality(Held(f, j)) |-> f[Nth(Held(f, j), i)].part]

Headers(f, j) == {h \in Ends(f) : h <= j /\ IsHeader(WholeLine(f, h))}
Names(f, j)   == {h \in Headers(f, j) : Head(WholeLine(f, h)).is = "section"}

\* The section line j is in: the last one named, cut to what the shortest of
\* the headers without a name leaves that came since.
LastNamed(f, j) == Max({0} \cup Names(f, j))

NameOf(f, j) ==
    IF Names(f, j) = {} THEN NoSection ELSE Head(WholeLine(f, LastNamed(f, j))).name

CutsOf(f, j) == {Len(WholeLine(f, h)) : h \in {g \in Headers(f, j) : g > LastNamed(f, j)}}

SectionOf(f, j) ==
    IF CutsOf(f, j) = {} THEN NameOf(f, j) ELSE Cut(NameOf(f, j), Min(CutsOf(f, j)))

Sets(f) == {j \in Ends(f) : IsHeader(WholeLine(f, j)) \/ IsValue(WholeLine(f, j))}

EntryOf(f, j) ==
    <<SectionOf(f, j)>> \o (IF j \in Headers(f, j) THEN <<>> ELSE KeyOf(WholeLine(f, j)))

ContentOf(f, j) == IF j \in Headers(f, j) THEN NULL ELSE ValueOf(WholeLine(f, j))

\* The last line that sets an entry counts.
Meant(f) ==
    [entry \in {EntryOf(f, j) : j \in Sets(f)} |->
        ContentOf(f, Max({j \in Sets(f) : EntryOf(f, j) = entry}))]

Wrong(f)    == \E j \in Ends(f) : IsError(WholeLine(f, j))
Overlong(f) == \E j \in 1 .. Len(f) : Len(WholeLine(f, j)) > Width

-----------------------------------------------------------------------------
\* The types of all variables.
LoadTypeOK ==
    /\ res \in {"start", "reading", "full", "null", "dict"}
    /\ read \in Seq(Lines) /\ Len(read) <= MaxLines
    /\ line \in Seq(Parts) /\ Len(line) <= Width
    /\ errs \in 0 .. MaxLines
    /\ handles \subseteq {"file", "dictionary"}
    /\ lost \in BOOLEAN

\* The dictionary holds at every moment what the lines read so far say: the
\* buffer, its `last` and the section buffer carry nothing over from one whole
\* line to the next, and nothing of a joined line is dropped.
LoadedIsMeant == res = "reading" /\ ~lost => map = Meant(read)

\* NULL is returned for a file with a wrong or overlong line in what was read,
\* or none to read, and a dictionary is not.
ErrorsRefuse ==
    /\ res = "null" => read = <<>> \/ Wrong(read) \/ Overlong(read)
    /\ res = "dict" => ~Overlong(read) /\ (Wrong(read) => lost)

\* When memory runs out, reported by dictionary_set, the caller gets what the
\* lines before said, all of it and nothing else.
PrefixReturned ==
    res = "dict" /\ ~lost => map \in {Meant(read), Meant(Front(read))}

\* The file is closed on every return, and the dictionary is with the caller or
\* deleted.
NothingLeft ==
    /\ res = "null" => handles = {}
    /\ res = "dict" => handles = {"dictionary"}
=============================================================================
