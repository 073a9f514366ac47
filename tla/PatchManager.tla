---------------------------- MODULE PatchManager ----------------------------
(***************************************************************************)
(* How a unified diff changes the lines of a file: the search for the      *)
(* place of a hunk, its application, the exact replacement of a range and  *)
(* the test for a diff that is there already                               *)
(* (src/src/patch/PatchManager.cpp, src/src/patch/UnifiedPatchService.cpp).*)
(*                                                                         *)
(* A file is a sequence of lines and a diff a sequence of sections         *)
(*     [file, hunks],   a hunk [start, lines],  a line [kind, text].       *)
(* A position p is the number of lines before it.                          *)
(***************************************************************************)
EXTENDS Integers, FiniteSets, Sequences, SequencesExt, Subsequences

CONSTANTS
    MaxOffset,   \* how far from its header a hunk may land (100 in the code)
    Norm,        \* normalizeWS, as a function on the texts of lines
    Mismatch     \* stands for "the hunks do not fit"

-----------------------------------------------------------------------------
(* Hunks *)

Texts == DOMAIN Norm

Hunk == [start : Nat, lines : Seq([kind : {"keep", "del", "add"}, text : Texts])]

LinesMatch(a, b) == Norm[a] = Norm[b]

TextsOf(h, kinds) ==
    Subsequence([i \in DOMAIN h.lines |-> h.lines[i].text],
                {i \in DOMAIN h.lines : h.lines[i].kind \in kinds})

OldSide(h) == TextsOf(h, {"keep", "del"})

Target(h) == IF h.start > 1 THEN h.start - 1 ELSE 0

Distance(p, q) == IF p < q THEN q - p ELSE p - q

Fits(lines, h, p) ==
    /\ p + Len(OldSide(h)) <= Len(lines)
    /\ \A i \in DOMAIN OldSide(h) : LinesMatch(lines[p + i], OldSide(h)[i])

\* Mutant of Places: forgets that the lines before have been consumed.
PlacesAnywhere(lines, from, h) ==
    {p \in 0 .. Len(lines) : Distance(p, Target(h)) <= MaxOffset /\ Fits(lines, h, p)}

\* Where the hunk may go, from the first line no earlier hunk has consumed.
Places(lines, from, h) ==
    {p \in from .. Len(lines) : Distance(p, Target(h)) <= MaxOffset /\ Fits(lines, h, p)}

\* The search widens from the target, and looks after it first.
Nearest(places, h) ==
    CHOOSE p \in places : \A q \in places \ {p} :
        \/ Distance(p, Target(h)) < Distance(q, Target(h))
        \/ Distance(p, Target(h)) = Distance(q, Target(h)) /\ p > q

\* What the hunk leaves at p: a context line keeps the spelling of the file.
NewSide(lines, h, p) ==
    LET Old(j) == Cardinality({i \in 1 .. j : h.lines[i].kind # "add"})
    IN  Subsequence([j \in DOMAIN h.lines |-> IF h.lines[j].kind = "keep" THEN lines[p + Old(j)]
                                              ELSE h.lines[j].text],
                    {j \in DOMAIN h.lines : h.lines[j].kind # "del"})

ApplyHunk(lines, done, h) ==
    LET places == Places(lines, done.from, h)
        p      == Nearest(places, h)
    IN  IF ~done.ok \/ places = {} THEN [done EXCEPT !.ok = FALSE]
        ELSE [ok   |-> TRUE,
              from |-> p + Len(OldSide(h)),
              out  |-> done.out \o SubSeq(lines, done.from + 1, p) \o NewSide(lines, h, p)]

\* How far the section has come after each of its hunks.
Stages(lines, hunks) ==
    LET stage[i \in 0 .. Len(hunks)] ==
            IF i = 0 THEN [ok |-> TRUE, from |-> 0, out |-> <<>>]
            ELSE ApplyHunk(lines, stage[i - 1], hunks[i])
    IN  stage

\* The new lines of a file, or Mismatch when a hunk of its section fits nowhere.
Patched(lines, hunks) ==
    LET end == Stages(lines, hunks)[Len(hunks)]
    IN  IF end.ok THEN end.out \o SubSeq(lines, end.from + 1, Len(lines)) ELSE Mismatch

-----------------------------------------------------------------------------
(* What a diff means, without saying how a place is found: the hunks are  *)
(* put one after the other, each where its old side stands, and every     *)
(* other line is left alone.                                              *)

Placements(lines, hunks) ==
    {at \in [DOMAIN hunks -> 0 .. Len(lines)] :
        /\ \A i \in DOMAIN hunks : Fits(lines, hunks[i], at[i])
        /\ \A i, j \in DOMAIN hunks : i < j => at[i] + Len(OldSide(hunks[i])) <= at[j]}

\* The hunk in place of its old side, which stands at p in lines and in out.
Put(lines, out, h, p) ==
    SubSeq(out, 1, p) \o (NewSide(lines, h, p) \o SubSeq(out, p + Len(OldSide(h)) + 1, Len(out)))

\* The lines with the last k hunks in place: from the back, so that the
\* positions of the others stay what they are.
Splices(lines, hunks, at) ==
    LET spliced[k \in 0 .. Len(hunks)] ==
            IF k = 0 THEN lines
            ELSE LET i == Len(hunks) + 1 - k IN Put(lines, spliced[k - 1], hunks[i], at[i])
    IN  spliced

PatchesOf(lines, hunks) ==
    {Splices(lines, hunks, at)[Len(hunks)] : at \in Placements(lines, hunks)}

\* All that the first n sections of a diff may make of the file, those that
\* name another one aside.
Readings(lines, diff, f) ==
    LET after[n \in 0 .. Len(diff)] ==
            IF n = 0 THEN {lines}
            ELSE IF diff[n].file # f THEN after[n - 1]
            ELSE UNION {PatchesOf(r, diff[n].hunks) : r \in after[n - 1]}
    IN  after

PatchedBy(lines, diff, f) == Readings(lines, diff, f)[Len(diff)]

-----------------------------------------------------------------------------
(* Exact line replacement *)

\* Where the hunks of a diff are: the section, and the place in it.
HunkPlaces(diff) == UNION {{i} \X DOMAIN diff[i].hunks : i \in DOMAIN diff}

HunkAt(diff, place) == diff[place[1]].hunks[place[2]]

Added(h) == TextsOf(h, {"add"})

\* The length of the old range as the header is read: a diff tool leaves the
\* count 1 out, and the first comma after the minus is then the new side's.
HeaderCount(h) ==
    LET new == Len(TextsOf(h, {"keep", "add"}))
    IN  IF Len(OldSide(h)) = 1 THEN new ELSE Len(OldSide(h))

\* The old range gives way to the added lines alone; context lines go too.
Replaced(lines, h) ==
    LET last == h.start + HeaderCount(h) - 1
    IN  IF h.start < 1 \/ h.start > Len(lines) + 1 \/ last > Len(lines) THEN Mismatch
        ELSE SubSeq(lines, 1, h.start - 1) \o Added(h) \o SubSeq(lines, last + 1, Len(lines))

-----------------------------------------------------------------------------
(* Already applied: each added line stands somewhere in its file. *)

AlreadyApplied(files, absent, diff) ==
    /\ \E place \in HunkPlaces(diff) : Added(HunkAt(diff, place)) # <<>>
    /\ \A i \in DOMAIN diff :
           LET added == UNION {ToSet(Added(h)) : h \in ToSet(diff[i].hunks)}
           IN  added # {} => /\ files[diff[i].file] # absent
                             /\ added \subseteq ToSet(files[diff[i].file])
=============================================================================
