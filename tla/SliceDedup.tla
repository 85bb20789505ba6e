----------------------------- MODULE SliceDedup -----------------------------
(***************************************************************************)
(* internal/context: how PromptBuilder replaces a code slice that the request *)
(* already carries by a reference to the slice that carries it, and          *)
(* trimToolResultContent, which cuts a long slice down beforehand.           *)
(* The state is one file and the read_file results of a prompt built so far. *)
(* A part keeps the lines it declares, the line ranges and byte spans it     *)
(* claims to hold, and (a history variable) the characters it really held.   *)
(***************************************************************************)
EXTENDS Integers, Sequences, FiniteSets, FiniteSetsExt

CONSTANTS
  Lines, LineSizes,  \* length of the file, sizes a line may have
  Versions,          \* versions of the file, told apart by file_hash
  ContextBytes,      \* contextOptions.toolContextBytes
  MarkerBytes,       \* the line that tells the model what was left out
  ReferenceBytes,    \* the text of a reference
  MaxParts           \* bound: slices in one request

ASSUME SliceAssumption ==
  /\ Lines \in Nat \ {0} /\ LineSizes \subseteq Nat
  /\ MarkerBytes \in Nat /\ ContextBytes > MarkerBytes

VARIABLES
  size,    \* size[l]: characters of line l
  parts,   \* the slices added so far, in order
  slices   \* b.slices: the indices of the canonical ones

sliceVars == <<size, parts, slices>>

NoArtifact == <<>>

------------------------- (* read_file and the trim *) --------------------------
\* strings.Split(content, "\n"): a slice that ends before the last line ends in a
\* newline, and an empty line follows it.
Split(s, e) == [k \in 1 .. e - s + 1 + (IF e < Lines THEN 1 ELSE 0) |->
                  IF s + k - 1 <= e THEN size[s + k - 1] ELSE 0]

\* Length of the first k, of the last k lines, joined.
JoinedHead(split, k) ==
  LET upTo[i \in 0 .. k] == IF i = 0 THEN -1 ELSE upTo[i - 1] + 1 + split[i]
  IN Max({0, upTo[k]})
JoinedTail(split, k) ==
  LET n == Len(split)
      from[i \in 0 .. k] == IF i = 0 THEN -1 ELSE from[i - 1] + 1 + split[n + 1 - i]
  IN Max({0, from[k]})
\* Offset of line l in the content of a slice that starts at s.
Offset(s, l) == LET upTo[i \in s .. l] == IF i = s THEN 0 ELSE upTo[i - 1] + size[i - 1] + 1
                IN upTo[l]
Characters(v, s, e) == UNION {{<<v, l, c>> : c \in 1 .. size[l]} : l \in s .. e}

\* The result of one read_file call as contextualizeTurn hands it on. A slice that
\* max_read_lines cut short declares the lines it has and says it is not complete.
Slice(v, s, e, cut) ==
  LET split == Split(s, e)
      length == JoinedHead(split, Len(split))
      available == ContextBytes - MarkerBytes
      headBudget == (available * 2) \div 3
      h == Max({k \in 0 .. Len(split) : JoinedHead(split, k) <= headBudget})
      t == Max({k \in 0 .. Len(split) - h : JoinedTail(split, k) <= available - headBudget})
      start == length - (available - headBudget)
      headLines == IF h > 0 THEN {<<s, s + h - 1>>} ELSE {}
      tailLines == IF t > 0 THEN {<<s + Len(split) - t, s + Len(split) - 1>>} ELSE {}
      kept == headLines \cup tailLines
      all == Characters(v, s, e)
      part == [version |-> v, start |-> s, end |-> e, complete |-> ~cut, retained |-> {},
               spans |-> {}, bytes |-> length, holds |-> all, reference |-> NoArtifact]
  IN IF length <= ContextBytes THEN part
     ELSE IF kept # {}
     THEN [part EXCEPT !.complete = FALSE, !.bytes = ContextBytes, !.retained = kept,
                       !.holds = {x \in all : \E r \in kept : x[2] \in r[1] .. r[2]}]
     ELSE [part EXCEPT !.complete = FALSE, !.bytes = ContextBytes,
                       !.spans = {<<s, 0, headBudget>>, <<s, start, length>>},
                       !.holds = {x \in all : LET at == Offset(s, x[2]) + x[3] - 1
                                              IN at < headBudget \/ at >= start}]

---------------------------- (* the canonicals *) -------------------------------
Artifact(p) == <<p.version, p.start, p.end>>
PartialLine(p) == ~p.complete /\ p.retained = {} /\ p.spans # {}
Reliable(p) == p.complete \/ p.retained # {} \/ p.spans # {}

\* Only a single retained range covers a range.
Covers(p, s, e) == IF p.retained = {} THEN p.start <= s /\ p.end >= e
                   ELSE \E r \in p.retained : r[1] <= s /\ r[2] >= e

SpansCover(canonical, current) ==
  /\ current # {}
  /\ \A want \in current : \E span \in canonical :
       span[1] = want[1] /\ span[2] <= want[2] /\ span[3] >= want[3]

CoversCurrent(canonical, current) ==
  IF canonical.spans # {}
  THEN PartialLine(current) /\ current.start = current.end /\ SpansCover(canonical.spans, current.spans)
  ELSE /\ PartialLine(current) => current.start = current.end
       /\ Covers(canonical, current.start, current.end)

WorthReplacing(p) == ReferenceBytes < p.bytes
Replace(p, artifact) == [p EXCEPT !.reference = artifact]

\* Mutant: the references to a superseded slice keep naming it.
RepointNothing(p, gone, artifact) == p
\* A reference to a superseded slice follows it.
Repoint(p, gone, artifact) ==
  IF \E i \in gone : p.reference = Artifact(parts[i]) THEN Replace(p, artifact) ELSE p

\* deduplicateSlice, and what AddTurn registers.
AddSlice(v, s, e, cut) ==
  LET current == Slice(v, s, e, cut)
      next == Len(parts) + 1
      same == {i \in slices : parts[i].version = v}
      containing == {i \in same : CoversCurrent(parts[i], current)}
      registered == IF Reliable(current) THEN {next} ELSE {}
      superseded == {i \in same : /\ s <= parts[i].start /\ e >= parts[i].end
                                  /\ Covers(current, parts[i].start, parts[i].end)}
      gone == {i \in superseded : WorthReplacing(parts[i])}
      followed(i) == Repoint(parts[i], superseded, Artifact(current))
  IN CASE containing # {} /\ WorthReplacing(current) ->
            /\ parts' = Append(parts, Replace(current, Artifact(parts[Max(containing)])))
            /\ slices' = slices
       [] containing # {} /\ ~WorthReplacing(current) ->
            parts' = Append(parts, current) /\ slices' = slices \cup registered
       [] containing = {} /\ (~Reliable(current) \/ PartialLine(current)) ->
            parts' = Append(parts, current) /\ slices' = slices \cup registered
       [] OTHER ->
            /\ parts' = Append([i \in DOMAIN parts |->
                                  IF i \in gone THEN Replace(parts[i], Artifact(current)) ELSE followed(i)],
                               current)
            /\ slices' = (slices \ gone) \cup registered

SliceInit == size \in [1 .. Lines -> LineSizes] /\ parts = <<>> /\ slices = {}
SliceNext ==
  /\ Len(parts) < MaxParts
  /\ \E v \in Versions, s \in 1 .. Lines : \E e \in s .. Lines, cut \in BOOLEAN :
       (cut => e < Lines) /\ AddSlice(v, s, e, cut)
  /\ UNCHANGED size
SliceSpec == SliceInit /\ [][SliceNext]_sliceVars

------------------------------ (* properties *) -------------------------------
\* The replaced slice's reference names q, which the request carries, and q holds what the
\* slice held, but for the lines left out.
Carries(q, p, without) == /\ Artifact(q) = p.reference /\ q.reference = NoArtifact
                          /\ {x \in p.holds : x[2] \notin without} \subseteq q.holds

\* A reference stands for a body the request still carries, whatever slices are superseded
\* later, and nothing the replaced slice held is missing from that body: except the line
\* behind its last, which a trimmed slice declares and does not hold (ReferencesAreComplete).
ReferencesAreBacked ==
  \A i \in DOMAIN parts : parts[i].reference # NoArtifact =>
    \E j \in DOMAIN parts : Carries(parts[j], parts[i], {parts[j].end + 1})

\* A reference may only be built on lines that are really present (agent/context_management.go
\* :862-864). It is not: the empty line that strings.Split finds behind the last newline of a
\* trimmed slice is retained as the line behind its end, and backs a reference to that line.
ReferencesAreComplete ==
  \A i \in DOMAIN parts : parts[i].reference # NoArtifact =>
    \E j \in DOMAIN parts : Carries(parts[j], parts[i], {})
==============================================================================
