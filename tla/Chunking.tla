------------------------------ MODULE Chunking ------------------------------
(***************************************************************************)
(* normalize_to_canonical, chunk_hybrid and chunk_fixed_chars: from the    *)
(* lines of an artifact to chunks with their provenance.  A step is one    *)
(* iteration of a loop of the code, ckAt the loop it is in.                *)
(*                                                                         *)
(* A line is named by what the code can tell about it; its characters are  *)
(* spaces, newlines and ink ("x").  Offsets count from 0 and ends are      *)
(* exclusive, as in the code; a unit or a chunk is its span, so content is *)
(* always the slice of the text, a group is a run of pieces, and a         *)
(* heading's title is its line.                                            *)
(***************************************************************************)
EXTENDS Integers, Sequences, FiniteSets

CONSTANTS
    RawLines,  \* kinds of lines an artifact may have
    MaxLines,  \* bound: lines of an artifact
    Budgets    \* values of max_chars

LineKinds == {"h1", "h2", "fence", "def", "hash", "list", "indent", "word",
              "words", "long", "padded", "spaces", "blank"}

ASSUME ChunkingAssumption ==
    RawLines \subseteq LineKinds /\ MaxLines \in Nat /\ Budgets \subseteq Nat \ {0}

\* The characters of a line: a heading of level 1 or 2, a fence, "#x", the
\* start of a definition, a list item, an indented line, prose of three
\* lengths, one with a trailing space, and two kinds of blank lines.
Body(k) ==
    CASE k \in {"h1", "list", "def", "words"} -> <<"x", "space", "x">>
      [] k = "h2"     -> <<"x", "x", "space", "x">>
      [] k = "fence"  -> <<"x", "x", "x">>
      [] k = "hash"   -> <<"x", "x">>
      [] k = "indent" -> <<"space", "x">>
      [] k = "word"   -> <<"x">>
      [] k = "long"   -> <<"x", "x", "x", "x", "x">>
      [] k = "padded" -> <<"x", "space">>
      [] k = "spaces" -> <<"space">>
      [] k = "blank"  -> <<>>

VARIABLES
    raw,      \* the artifact, a sequence of kinds of lines
    text,     \* the canonical text, as far as its lines have been joined
    starts,   \* _line_starts: the offset at which each of these lines begins
    ckAt,     \* the loop that runs
    chunked,  \* the chunker that runs, with its parameters
    cursor,   \* the line, unit, piece or group the loop is at
    pos,      \* how far it is in that unit or group, or in the text
    heading,  \* heading_stack, later the heading of a group
    units,    \* raw_units
    pieces,   \* expanded
    groups,   \* runs of pieces
    drafts    \* the ChunkDrafts

docVars == <<raw, text, starts>>
ckVars  == <<docVars, ckAt, chunked, cursor, pos, heading, units, pieces,
             groups, drafts>>

CkInit ==
    /\ raw = <<>> /\ text = <<>> /\ starts = <<>>
    /\ ckAt = "reading" /\ chunked = [by |-> "none"]
    /\ cursor = 1 /\ pos = 0 /\ heading = <<>>
    /\ units = <<>> /\ pieces = <<>> /\ groups = <<>> /\ drafts = <<>>

AddLine(k) ==
    /\ ckAt = "reading" /\ Len(raw) < MaxLines
    /\ raw' = Append(raw, k)
    /\ UNCHANGED <<text, starts, ckAt, chunked, cursor, pos, heading, units,
                   pieces, groups, drafts>>

-----------------------------------------------------------------------------
(* normalize_to_canonical. *)

\* rstrip of a line.
Stripped(k) == CASE k = "padded" -> "word" [] k = "spaces" -> "blank"
                 [] OTHER -> k

\* The lines without the blank ones at either end.
Canonical(r) ==
    LET full == {i \in DOMAIN r : Stripped(r[i]) # "blank"}
    IN  IF full = {} THEN <<>>
        ELSE LET lo == CHOOSE i \in full : \A j \in full : i <= j
                 hi == CHOOSE i \in full : \A j \in full : j <= i
             IN  [i \in 1..(hi - lo + 1) |-> Stripped(r[lo + i - 1])]

Lines == Canonical(raw)

\* The lines joined by newlines, and _line_starts of it.
JoinLine ==
    /\ ckAt \in {"reading", "joining"} /\ Len(starts) < Len(Lines)
    /\ LET body == Body(Lines[Len(starts) + 1])
       IN  IF starts = <<>> THEN text' = body /\ starts' = <<0>>
           ELSE /\ text' = text \o <<"newline">> \o body
                /\ starts' = Append(starts, Len(text) + 1)
    /\ ckAt' = "joining"
    /\ UNCHANGED <<raw, chunked, cursor, pos, heading, units, pieces, groups,
                   drafts>>

Joined == ckAt \in {"reading", "joining"} /\ Len(starts) = Len(Lines)

Count(S) == Cardinality({i \in DOMAIN Lines : Lines[i] \in S})

\* _detect_kind: any line that starts with "#" counts as a heading.
DetectKind ==
    LET headings == Count({"h1", "h2", "hash"})
    IN  IF Lines = <<>> THEN "empty"
        ELSE IF Count({"fence"}) >= 1 \/ headings >= 2 THEN "markdown"
        ELSE IF Count({"def"}) >= 2 /\ headings = 0 THEN "code"
        ELSE "prose"

CharAt(o) == text[o + 1]

\* content.strip() is not empty.
HasInk(from, to) == \E o \in from..(to - 1) : CharAt(o) = "x"

\* Faulty variant: the search stops at the first line that ends behind it.
LineOf_Next(o) ==
    LET behind == {L \in DOMAIN starts : starts[L] > o}
    IN  IF behind = {} THEN Len(starts)
        ELSE CHOOSE L \in behind : \A M \in behind : L <= M

\* _line_of: the last line that begins at or before the offset.
LineOf(o) ==
    CHOOSE L \in DOMAIN starts :
        starts[L] <= o /\ \A M \in DOMAIN starts : starts[M] <= o => M <= L

-----------------------------------------------------------------------------
(* chunk_hybrid: _unitize_structured. *)

ChunkHybrid(max) ==
    /\ Joined
    /\ chunked' = [by |-> "hybrid", max |-> max]
    /\ ckAt' = "unitizing" /\ cursor' = 1
    /\ UNCHANGED <<docVars, pos, heading, units, pieces, groups, drafts>>

CodeMode == DetectKind = "code"

\* The line behind the fenced block that starts at line i.
FenceEnd(i) ==
    LET closing == {j \in (i + 1)..Len(Lines) : Lines[j] = "fence"}
    IN  IF closing = {} THEN Len(Lines) + 1
        ELSE 1 + (CHOOSE j \in closing : \A k \in closing : j <= k)

\* Line j does not belong to the block that starts at line i.
Breaks(i, j) ==
    \/ Lines[j] = "blank"
    \/ /\ ~CodeMode
       /\ \/ Lines[j] \in {"fence", "h1", "h2"}
          \/ Lines[i] = "list" /\ Lines[j] \notin {"list", "indent"}
          \/ Lines[i] # "list" /\ Lines[j] = "list"

\* The line behind the paragraph, list or piece of code that starts at i.
BlockEnd(i) ==
    LET stops == {j \in (i + 1)..Len(Lines) : Breaks(i, j)}
    IN  IF stops = {} THEN Len(Lines) + 1
        ELSE CHOOSE j \in stops : \A k \in stops : j <= k

\* The offset behind the newline that ends line i - 1.
Reach(i) == IF i \in DOMAIN starts THEN starts[i] ELSE Len(text) + 1

\* _span of the lines i up to, not including, j.
Unit(i, j, type, path) ==
    [from |-> starts[i], to |-> Reach(j) - 1, type |-> type, path |-> path]

\* A unit is kept if its body is not blank.
TakeUnit(j, type) ==
    /\ units' = IF HasInk(starts[cursor], Reach(j) - 1)
                THEN Append(units, Unit(cursor, j, type, heading)) ELSE units
    /\ cursor' = j
    /\ UNCHANGED <<docVars, ckAt, chunked, pos, heading, pieces, groups, drafts>>

AtLine == ckAt = "unitizing" /\ cursor <= Len(Lines)

TakeFence ==
    /\ AtLine /\ ~CodeMode /\ Lines[cursor] = "fence"
    /\ TakeUnit(FenceEnd(cursor), "code_fence")

Level(i) == IF Lines[i] = "h1" THEN 1 ELSE 2

\* heading_stack without its last entries of this level or a deeper one.
Popped(stack, level) ==
    LET kept == {k \in 0..Len(stack) : k > 0 => Level(stack[k]) < level}
    IN  SubSeq(stack, 1, CHOOSE k \in kept : \A m \in kept : m <= k)

TakeHeading ==
    /\ AtLine /\ ~CodeMode /\ Lines[cursor] \in {"h1", "h2"}
    /\ heading' = Append(Popped(heading, Level(cursor)), cursor)
    /\ units' = Append(units, Unit(cursor, cursor + 1, "heading", heading'))
    /\ cursor' = cursor + 1
    /\ UNCHANGED <<docVars, ckAt, chunked, pos, pieces, groups, drafts>>

SkipBlank ==
    /\ AtLine /\ Lines[cursor] = "blank"
    /\ cursor' = cursor + 1
    /\ UNCHANGED <<docVars, ckAt, chunked, pos, heading, units, pieces, groups,
                   drafts>>

TakeBlock ==
    /\ AtLine /\ Lines[cursor] # "blank"
    /\ CodeMode \/ Lines[cursor] \notin {"fence", "h1", "h2"}
    /\ TakeUnit(BlockEnd(cursor), IF CodeMode THEN "code"
                                  ELSE IF Lines[cursor] = "list" THEN "list"
                                  ELSE "paragraph")

\* One loop is over, the next one starts.
NextLoop(loop, over, next) ==
    /\ ckAt = loop /\ over
    /\ ckAt' = next /\ cursor' = 1 /\ pos' = 0 /\ heading' = <<>>
    /\ UNCHANGED <<docVars, chunked, units, pieces, groups, drafts>>

UnitizeEnds == NextLoop("unitizing", cursor > Len(Lines), "splitting")

-----------------------------------------------------------------------------
(* _split_oversized and _pack. *)

\* window.rfind(c), -1 if there is none.
RFind(from, size, c) ==
    LET at == {o \in 0..(size - 1) : CharAt(from + o) = c}
    IN  IF at = {} THEN -1 ELSE CHOOSE o \in at : \A q \in at : q <= o

\* Faulty variant: the character cut at is counted also when there is none.
Cut_PastWindow(from, to, max) ==
    IF to - from <= max THEN to - from
    ELSE LET nl == RFind(from, max, "newline")
             sp == RFind(from, max, "space")
             at == IF nl < max \div 4 THEN sp ELSE nl
         IN  IF at < max \div 4 THEN max + 1 ELSE at + 1

\* How much of an oversized unit the next piece takes.
Cut(from, to, max) ==
    IF to - from <= max THEN to - from
    ELSE LET nl == RFind(from, max, "newline")
             sp == RFind(from, max, "space")
             at == IF nl < max \div 4 THEN sp ELSE nl
         IN  IF at < max \div 4 THEN max ELSE at + 1

AtUnit == ckAt = "splitting" /\ cursor <= Len(units)
Oversized(u) == u.to - u.from > chunked.max

KeepUnit ==
    /\ AtUnit /\ ~Oversized(units[cursor])
    /\ pieces' = Append(pieces, units[cursor])
    /\ cursor' = cursor + 1
    /\ UNCHANGED <<docVars, ckAt, chunked, pos, heading, units, groups, drafts>>

CutPiece ==
    /\ AtUnit /\ Oversized(units[cursor])
    /\ LET u    == units[cursor]
           from == u.from + pos
           to   == from + Cut(from, u.to, chunked.max)
       IN  /\ pieces' = Append(pieces, [u EXCEPT !.from = from, !.to = to,
                                                 !.type = "hard_split"])
           /\ IF to >= u.to THEN cursor' = cursor + 1 /\ pos' = 0
              ELSE pos' = to - u.from /\ UNCHANGED cursor
    /\ UNCHANGED <<docVars, ckAt, chunked, heading, units, groups, drafts>>

SplitEnds == NextLoop("splitting", cursor > Len(units), "packing")

\* The text from the first piece of the group to the end of piece i.
Fits(g, i) ==
    /\ pieces[i].to - pieces[g.lo].from <= chunked.max
    /\ pieces[i].from >= pieces[g.hi].from

\* _pack: a piece joins the last group or begins another one.
PackPiece ==
    /\ ckAt = "packing" /\ cursor <= Len(pieces)
    /\ groups' = IF groups # <<>> /\ Fits(groups[Len(groups)], cursor)
                 THEN [groups EXCEPT ![Len(groups)].hi = cursor]
                 ELSE Append(groups, [lo |-> cursor, hi |-> cursor])
    /\ cursor' = cursor + 1
    /\ UNCHANGED <<docVars, ckAt, chunked, pos, heading, units, pieces, drafts>>

PackEnds == NextLoop("packing", cursor > Len(pieces), "drafting")

-----------------------------------------------------------------------------
(* chunk_hybrid: the drafts. *)

Draft(from, to, type, path) ==
    [from |-> from, to |-> to, type |-> type, path |-> path,
     first |-> LineOf(from),
     last |-> LineOf(IF to - 1 > from THEN to - 1 ELSE from)]

\* Longer than the path so far, and a continuation of it.
Deepens(path, so_far) ==
    Len(path) > Len(so_far) /\ SubSeq(path, 1, Len(so_far)) = so_far

GroupFrom(g) == pieces[g.lo].from
GroupTo(g)   == pieces[g.hi].to
GroupSize(g) == g.hi - g.lo + 1

AtGroup == ckAt = "drafting" /\ cursor <= Len(groups)
Inky(g) == HasInk(GroupFrom(g), GroupTo(g))

SkipGroup ==
    /\ AtGroup /\ ~Inky(groups[cursor])
    /\ cursor' = cursor + 1
    /\ UNCHANGED <<docVars, ckAt, chunked, pos, heading, units, pieces, groups,
                   drafts>>

\* The deepest path that extends the first unit's.
DeepenHeading ==
    /\ AtGroup /\ Inky(groups[cursor]) /\ pos < GroupSize(groups[cursor])
    /\ LET path  == pieces[groups[cursor].lo + pos].path
           so_far == IF pos = 0 THEN path ELSE heading
       IN  heading' = IF Deepens(path, so_far) \/ so_far = <<>> THEN path
                      ELSE so_far
    /\ pos' = pos + 1
    /\ UNCHANGED <<docVars, ckAt, chunked, cursor, units, pieces, groups, drafts>>

\* A group of pieces becomes a draft, truncated to the budget if need be.
DraftGroup ==
    /\ AtGroup /\ Inky(groups[cursor]) /\ pos = GroupSize(groups[cursor])
    /\ LET g     == groups[cursor]
           types == {pieces[i].type : i \in g.lo..g.hi}
           size  == GroupTo(g) - GroupFrom(g)
       IN  drafts' = Append(drafts,
             Draft(GroupFrom(g),
                   IF size > chunked.max THEN GroupFrom(g) + chunked.max
                   ELSE GroupTo(g),
                   IF Cardinality(types) = 1 THEN pieces[g.lo].type
                   ELSE IF "hard_split" \in types THEN "hard_split" ELSE "mixed",
                   heading))
    /\ cursor' = cursor + 1 /\ pos' = 0
    /\ UNCHANGED <<docVars, ckAt, chunked, heading, units, pieces, groups>>

DraftEnds == NextLoop("drafting", cursor > Len(groups), "done")

-----------------------------------------------------------------------------
(* chunk_fixed_chars. *)

ChunkFixed(max, overlap) ==
    /\ Joined /\ overlap < max
    /\ chunked' = [by |-> "fixed", max |-> max, overlap |-> overlap]
    /\ ckAt' = IF HasInk(0, Len(text)) THEN "fixing" ELSE "done"
    /\ UNCHANGED <<docVars, cursor, pos, heading, units, pieces, groups, drafts>>

\* Every step characters, max of them, until the end is reached.
FixWindow ==
    /\ ckAt = "fixing"
    /\ LET max == chunked.max
           end == IF Len(text) < pos + max THEN Len(text) ELSE pos + max
           gap == max - chunked.overlap
       IN  /\ drafts' = IF HasInk(pos, end)
                        THEN Append(drafts, Draft(pos, end, "fixed", <<>>))
                        ELSE drafts
           /\ IF end >= Len(text) THEN ckAt' = "done" /\ UNCHANGED pos
              ELSE pos' = pos + (IF gap > 1 THEN gap ELSE 1) /\ UNCHANGED ckAt
    /\ UNCHANGED <<docVars, chunked, cursor, heading, units, pieces, groups>>

UnitizeStep == TakeFence \/ TakeHeading \/ SkipBlank \/ TakeBlock \/ UnitizeEnds
PackStep    == KeepUnit \/ CutPiece \/ SplitEnds \/ PackPiece \/ PackEnds
DraftStep   == SkipGroup \/ DeepenHeading \/ DraftGroup \/ DraftEnds

CkNext ==
    \/ \E k \in RawLines : AddLine(k)
    \/ JoinLine
    \/ \E max \in Budgets : ChunkHybrid(max)
    \/ \E max \in Budgets : \E overlap \in 0..(max - 1) :
          ChunkFixed(max, overlap)
    \/ UnitizeStep \/ PackStep \/ DraftStep \/ FixWindow

CkSpec == CkInit /\ [][CkNext]_ckVars

-----------------------------------------------------------------------------
(* Properties, against the text itself. *)

Span(c) == c.from..(c.to - 1)

Ink == {o \in 0..(Len(text) - 1) : CharAt(o) = "x"}

\* Whatever the blocks, their sizes and the budget: no character that can be
\* seen is lost, none is in two chunks of the hybrid chunker, chunks come in
\* document order, none is blank and none exceeds max_chars.
ChunksPartitionText ==
    ckAt = "done" =>
        /\ Ink \subseteq UNION {Span(drafts[i]) : i \in DOMAIN drafts}
        /\ \A i \in DOMAIN drafts :
             /\ drafts[i].to - drafts[i].from <= chunked.max
             /\ Span(drafts[i]) \cap Ink # {}
             /\ i > 1 => drafts[i - 1].from < drafts[i].from
             /\ i > 1 /\ chunked.by = "hybrid" =>
                  drafts[i - 1].to <= drafts[i].from

\* The number of the line an offset is in: one more than the newlines before.
LineByCounting(o) == 1 + Cardinality({p \in 0..(o - 1) : CharAt(p) = "newline"})

\* The provenance of a chunk is true: its line numbers are the lines of its
\* first and last character, also behind hard splits, and every heading of
\* its path is a heading of the document at or before its last line.
ProvenanceIsTrue ==
    \A i \in DOMAIN drafts :
        /\ drafts[i].first = LineByCounting(drafts[i].from)
        /\ drafts[i].last = LineByCounting(drafts[i].to - 1)
        /\ \A n \in DOMAIN drafts[i].path :
             /\ Lines[drafts[i].path[n]] \in {"h1", "h2"}
             /\ drafts[i].path[n] <= drafts[i].last

\* Both chunkers keep the text and tell where each piece of it came from.
ChunkingFaithful == ChunksPartitionText /\ ProvenanceIsTrue
=============================================================================
