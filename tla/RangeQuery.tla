------------------------------ MODULE RangeQuery ------------------------------
(***************************************************************************)
(* How the results of a range query are recorded during simulation, as     *)
(* they are or as the top level of a Merkle tree built as they come, and   *)
(* how validation compares them, one by one, with the results of the same  *)
(* query on the state of the committing peer.                              *)
(*                                                                         *)
(* A result is a key with its version, here a number.  A hash is the       *)
(* sequence hashed, with a mark that tells results (0) from hashes (1):    *)
(* two hashes are equal only if what was hashed is.                        *)
(***************************************************************************)
EXTENDS Integers, Sequences, SequencesExt

CONSTANTS
  MaxDegree,    \* of the tree
  MaxResults    \* bound on the results recorded

ASSUME RangeQueryAssumption == MaxDegree \in Nat \ {0, 1} /\ MaxResults \in Nat

VARIABLES
  hashing,     \* results are hashed
  recorded,    \* results of the simulation
  helper,      \* RangeQueryResultsHelper in use: pending results and the tree, a
               \* sequence with the hashes at each level up to maxLevel
  info,        \* what is in the read set: raw reads, or level and hashes
  results,     \* results on the committing peer
  pos,         \* number of them that the validator has taken
  lastMatchedIndex,
  verdict      \* "recording", "pending", "valid", "phantom" or "panicked"

vars == <<hashing, recorded, helper, info, results, pos, lastMatchedIndex, verdict>>

NewHelper == [pending |-> <<>>, tree |-> <<<<>>>>]
NoSummary == [level |-> 0, hashes |-> <<>>]

Init ==
  /\ hashing \in BOOLEAN
  /\ recorded = <<>> /\ helper = NewHelper
  /\ info = [reads |-> <<>>, merkle |-> NoSummary]
  /\ results = <<>> /\ pos = 0 /\ lastMatchedIndex = -1 /\ verdict = "recording"

-----------------------------------------------------------------------------
(* The tree *)

Hash(reads) == <<0, reads>>
computeCombinedHash(hashes) == <<1, hashes>>

\* Replaces the hashes at a level by one at the next.
Raise(tree, level, h) ==
  LET cleared == [tree EXCEPT ![level] = <<>>]
  IN  IF level = Len(tree) THEN Append(cleared, <<h>>)
                           ELSE [cleared EXCEPT ![level + 1] = Append(@, h)]

Levels(n) == [i \in 1 .. n |-> i]

update(tree, leaf) ==
  FoldLeft(LAMBDA t, l : IF Len(t[l]) <= MaxDegree THEN t ELSE Raise(t, l, computeCombinedHash(t[l])),
           [tree EXCEPT ![1] = Append(@, leaf)], Levels(Len(tree)))

done(tree) ==
  LET top == Len(tree)
      completed ==
        FoldLeft(LAMBDA t, l : IF t[l] = <<>> THEN t
                               ELSE IF Len(t[l]) = 1 THEN Raise(t, l, t[l][1])
                               ELSE Raise(t, l, computeCombinedHash(t[l])),
                 tree, Levels(top - 1))
  IN  IF Len(completed[top]) > MaxDegree THEN Raise(completed, top, computeCombinedHash(completed[top]))
                                         ELSE completed

getSummery(tree) == [level |-> Len(tree), hashes |-> Last(tree)]

isEmpty(tree) == tree = <<<<>>>>

processPendingResults(h) == [pending |-> <<>>, tree |-> update(h.tree, Hash(h.pending))]

AddResult(h, r) ==
  LET added == [h EXCEPT !.pending = Append(@, r)]
  IN  IF hashing /\ Len(added.pending) > MaxDegree THEN processPendingResults(added) ELSE added

\* Mutant: what is pending at the end is left out of the tree.
DoneWithoutRest(h) ==
  IF ~hashing \/ isEmpty(h.tree) THEN [reads |-> h.pending, merkle |-> NoSummary]
  ELSE [reads |-> <<>>, merkle |-> getSummery(done(h.tree))]

Done(h) ==
  IF ~hashing \/ isEmpty(h.tree) THEN [reads |-> h.pending, merkle |-> NoSummary]
  ELSE [reads |-> <<>>,
        merkle |-> getSummery(done((IF h.pending = <<>> THEN h ELSE processPendingResults(h)).tree))]

-----------------------------------------------------------------------------
(* Simulation *)

\* The iterator of the simulator returns one more result.
RecordResult ==
  /\ verdict = "recording" /\ Len(recorded) < MaxResults
  /\ recorded' = Append(recorded, Len(recorded) + 1)
  /\ helper' = AddResult(helper, Len(recorded) + 1)
  /\ UNCHANGED <<hashing, info, results, pos, lastMatchedIndex, verdict>>

\* External: what the query returns on the committing peer, where one key was
\* written, deleted or added, or some are missing or added at the end.
Outcomes ==
  LET n == Len(recorded)
  IN  {recorded} \cup {ReplaceAt(recorded, i, 0) : i \in 1 .. n} \cup {RemoveAt(recorded, i) : i \in 1 .. n}
      \cup {InsertAt(recorded, i, 0) : i \in 1 .. n} \cup {Levels(m) : m \in 0 .. MaxResults}

\* addRangeQueryInfo, and later the start of validateRangeQuery.
EndRecording ==
  /\ verdict = "recording"
  /\ info' = Done(helper)
  /\ results' \in Outcomes
  /\ helper' = NewHelper /\ verdict' = "pending"
  /\ UNCHANGED <<hashing, recorded, pos, lastMatchedIndex>>

-----------------------------------------------------------------------------
(* Validation *)

\* rangeQueryResultsValidator: compares the next result.
ValidateResult ==
  /\ verdict = "pending" /\ info.merkle = NoSummary
  /\ IF pos < Len(info.reads) /\ pos < Len(results) /\ results[pos + 1] = info.reads[pos + 1]
     THEN pos' = pos + 1 /\ UNCHANGED verdict
     ELSE /\ verdict' = IF pos = Len(info.reads) /\ pos = Len(results) THEN "valid" ELSE "phantom"
          /\ UNCHANGED pos
  /\ UNCHANGED <<hashing, recorded, helper, info, results, lastMatchedIndex>>

\* rangeQueryHashValidator at the end of the iterator.
ValidateDone ==
  /\ verdict = "pending" /\ info.merkle # NoSummary /\ pos = Len(results)
  /\ verdict' = IF Done(helper).merkle = info.merkle THEN "valid" ELSE "phantom"
  /\ UNCHANGED <<hashing, recorded, helper, info, results, pos, lastMatchedIndex>>

\* rangeQueryHashValidator: adds the next result and compares the last hash of the
\* highest level, if there is a new one.
ValidateHash ==
  /\ verdict = "pending" /\ info.merkle # NoSummary /\ pos < Len(results)
  /\ pos' = pos + 1
  /\ helper' = AddResult(helper, results[pos + 1])
  /\ LET merkle == getSummery(helper'.tree)
         index == lastMatchedIndex + 2      \* the next one, counted from 1
     IN  IF merkle.level < info.merkle.level \/ lastMatchedIndex = Len(merkle.hashes) - 1
         THEN UNCHANGED <<lastMatchedIndex, verdict>>
         ELSE IF Len(merkle.hashes) > Len(info.merkle.hashes)
         THEN verdict' = "phantom" /\ UNCHANGED lastMatchedIndex
         ELSE /\ lastMatchedIndex' = lastMatchedIndex + 1
              /\ verdict' = IF index > Len(merkle.hashes) \/ index > Len(info.merkle.hashes) THEN "panicked"
                            ELSE IF merkle.hashes[index] = info.merkle.hashes[index] THEN "pending"
                            ELSE "phantom"
  /\ UNCHANGED <<hashing, recorded, info, results>>

Next == RecordResult \/ EndRecording \/ ValidateResult \/ ValidateDone \/ ValidateHash

Spec == Init /\ [][Next]_vars

-----------------------------------------------------------------------------
(* Properties *)

\* The verdict of validateRangeQuery is that of a comparison of the two lists of
\* results, whichever way they are recorded and at whatever level of the tree the
\* early comparisons of rangeQueryHashValidator stop.
VerdictIsExact ==
  /\ verdict = "valid" => results = recorded
  /\ verdict = "phantom" => results # recorded

\* rangequery_validator.go: "This function returns false on first mismatch between
\* the nodes of the two merkle trees"
ValidateNeverPanics == verdict # "panicked"
===============================================================================
