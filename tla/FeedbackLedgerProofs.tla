----------------------- MODULE FeedbackLedgerProofs ------------------------
(***************************************************************************)
(* Theorems about the verdicts, the links and the scores of a response,    *)
(* for any users, clients, workers, chunks, attempts and dropped           *)
(* connections.                                                            *)
(***************************************************************************)
EXTENDS FeedbackLedger, TLAPS

(***************************************************************************)
(* What a call makes of a row.                                             *)
(***************************************************************************)

LEMMA Statements ==
  ASSUME NEW loaded, NEW asks \in Verdict
  PROVE  /\ loaded = NoRow => Statement(loaded, asks) = "insert"
         /\ loaded # NoRow /\ Becomes(asks, loaded.is) = None
              => Statement(loaded, asks) = "delete"
         /\ loaded # NoRow /\ Becomes(asks, loaded.is) # None
              => Statement(loaded, asks) = "update"
<1>1. loaded = NoRow => Becomes(asks, loaded.is) # None
  BY DEF Becomes, NoRow, None, Verdict, FeedbackType, StepFeedbackAction, Toggle
<1> QED
  BY <1>1 DEF Statement

LEMMA BecomesType ==
  ASSUME NEW asks \in Verdict, NEW is
  PROVE  Becomes(asks, is) \in Verdict \cup {None}
BY DEF Becomes, Verdict, FeedbackType, StepFeedbackAction, Toggle

LEMMA NoRowType == NoRow \in Row
BY DEF NoRow, Row

\* The row after a call, statement by statement.
LEMMA StoredRow ==
  ASSUME NEW c, NEW now \in Row, row[c.key] = now, c.loaded \in Row, serial \in Nat,
         c.asks \in Verdict, Commits(c)
  PROVE  LET is == Becomes(c.asks, c.loaded.is)
         IN  \/ /\ c.loaded = NoRow /\ now = NoRow
                /\ Stored(c) = [id |-> serial + 1, is |-> is, retracted |-> FALSE]
             \/ /\ c.loaded # NoRow /\ is # None /\ now.id = c.loaded.id
                /\ Stored(c) = IF is = c.loaded.is THEN now ELSE [now EXCEPT !.is = is]
             \/ /\ c.loaded # NoRow /\ is = None
                /\ Stored(c) = IF now.id = c.loaded.id THEN NoRow ELSE now
<1> DEFINE is == Becomes(c.asks, c.loaded.is)
<1>1. CASE c.loaded = NoRow
  <2>1. Statement(c.loaded, c.asks) = "insert"
    BY <1>1, Statements
  <2> QED
    BY <1>1, <2>1 DEF Stored, Commits
<1>2. CASE c.loaded # NoRow /\ is # None
  <2>1. Statement(c.loaded, c.asks) = "update"
    BY <1>2, Statements
  <2> QED
    BY <1>2, <2>1 DEF Stored, Commits, Updated
<1>3. CASE c.loaded # NoRow /\ is = None
  <2>1. Statement(c.loaded, c.asks) = "delete"
    BY <1>3, Statements
  <2> QED
    BY <1>3, <2>1 DEF Stored
<1> QED
  BY <1>1, <1>2, <1>3

(***************************************************************************)
(* The invariant.                                                          *)
(***************************************************************************)

\* The types of what the verdicts depend on; only rows that do not exist lack an id.
VerdictTypes ==
  /\ row \in [Key -> Row] /\ \A k \in Key : row[k].id = 0 => row[k] = NoRow
  /\ call \in [Client -> Call]
  /\ \A x \in Client :
       call[x].at = "commit" => (call[x].loaded.id = 0 => call[x].loaded = NoRow)
  /\ serial \in Nat
  /\ meant \in [Key -> Verdict \cup {None}]

\* An item that is not disturbed has one call at most, which knows its row.
Undisturbed ==
  /\ \A x, y \in Client :
       /\ call[x] # Idle /\ call[y] # Idle
       /\ call[x].key = call[y].key /\ call[x].key \notin disturbed
       => x = y
  /\ \A x \in Client :
       call[x].at = "commit" /\ call[x].key \notin disturbed =>
         /\ call[x].loaded.id = row[call[x].key].id
         /\ call[x].loaded.is = row[call[x].key].is

VerdictInv == VerdictTypes /\ Undisturbed /\ VerdictAsAsked

LEMMA CallTypes ==
  ASSUME VerdictTypes, NEW x \in Client
  PROVE  /\ call[x] = Idle \/ call[x].at \in {"read", "commit"}
         /\ Idle.at = "idle"
         /\ call[x].at \in {"read", "commit"} =>
              /\ call[x] # Idle
              /\ call[x].key \in Key /\ call[x].asks \in Verdict
              /\ call[x].attempt \in 1 .. MaxAttempts
         /\ call[x].at = "commit" => call[x].loaded \in Row
BY DEF VerdictTypes, Call, Idle

LEMMA VerdictInit == Init => VerdictInv
BY NoRowType DEF Init, VerdictInv, VerdictTypes, Undisturbed, VerdictAsAsked, NoRow, Idle,
                 Call

LEMMA RetriedType ==
  ASSUME VerdictTypes, NEW x \in Client, call[x] # Idle
  PROVE  /\ Retried(call[x]) \in Call
         /\ Retried(call[x]) = Idle \/ /\ Retried(call[x]).at = "read"
                                       /\ Retried(call[x]).key = call[x].key
         /\ Retried(call[x]).at # "commit"
<1>1. /\ call[x].key \in Key /\ call[x].asks \in Verdict
      /\ call[x].attempt \in 1 .. MaxAttempts
  BY CallTypes
<1>2. CASE call[x].attempt = MaxAttempts
  BY <1>2 DEF Retried, Idle, Call
<1>3. CASE call[x].attempt # MaxAttempts
  <2>1. call[x].attempt + 1 \in 1 .. MaxAttempts
    BY <1>1, <1>3, LedgerAssumption
  <2> QED
    BY <1>1, <1>3, <2>1 DEF Retried, Call
<1> QED
  BY <1>2, <1>3

\* A call that goes, or is retried, leaves the other calls alone.
LEMMA CallEnds ==
  ASSUME VerdictTypes, Undisturbed, NEW x \in Client, call[x] # Idle,
         NEW c \in {Idle, Retried(call[x])}, call' = [call EXCEPT ![x] = c],
         disturbed \subseteq disturbed',
         \A y \in Client : y # x /\ call[y].at = "commit"
                                 /\ call[y].key \notin disturbed'
                           => /\ row'[call[y].key].id = row[call[y].key].id
                              /\ row'[call[y].key].is = row[call[y].key].is
  PROVE  /\ call' \in [Client -> Call]
         /\ \A y \in Client :
              call'[y].at = "commit" => (call'[y].loaded.id = 0 => call'[y].loaded = NoRow)
         /\ Undisturbed'
<1>1. /\ c \in Call /\ c.at # "commit"
      /\ c # Idle => c.key = call[x].key
  BY RetriedType DEF Idle, Call
<1>2. call' \in [Client -> Call]
  BY <1>1 DEF VerdictTypes
<1>3. call'[x] = c /\ \A y \in Client : y # x => call'[y] = call[y]
  BY DEF VerdictTypes
<1>4. \A y \in Client :
        call'[y].at = "commit" => (call'[y].loaded.id = 0 => call'[y].loaded = NoRow)
  BY <1>1, <1>3 DEF VerdictTypes
<1>5. \A y \in Client : call'[y] # Idle => call[y] # Idle /\ call'[y].key = call[y].key
  BY <1>1, <1>3
<1>6. \A y \in Client : call'[y].at = "commit" => y # x /\ call'[y] = call[y]
  BY <1>1, <1>3
<1> QED
  BY <1>2, <1>4, <1>5, <1>6 DEF Undisturbed

\* A commit does to a row that only its call was on what the call asks for.
LEMMA WriteMeans ==
  ASSUME VerdictInv, NEW x \in Client, call[x].at = "commit", Commits(call[x]),
         Write(call[x])
  PROVE  /\ row' \in [Key -> Row] /\ serial' \in Nat
         /\ \A k \in Key : row'[k].id = 0 => row'[k] = NoRow
         /\ \A k \in Key : k # call[x].key => row'[k] = row[k]
         /\ call[x].key \notin disturbed =>
              row'[call[x].key].is = Becomes(call[x].asks, row[call[x].key].is)
<1> DEFINE c == call[x]
           k == c.key
           is == Becomes(c.asks, c.loaded.is)
<1>1. c.key \in Key /\ c.asks \in Verdict /\ c.loaded \in Row
  BY CallTypes DEF VerdictInv
<1>2. row[k] \in Row /\ serial \in Nat /\ row \in [Key -> Row]
  BY <1>1 DEF VerdictInv, VerdictTypes
<1>3. is \in Verdict \cup {None}
  BY <1>1, BecomesType
<1>4. \/ /\ c.loaded = NoRow /\ row[k] = NoRow
         /\ Stored(c) = [id |-> serial + 1, is |-> is, retracted |-> FALSE]
      \/ /\ c.loaded # NoRow /\ is # None /\ row[k].id = c.loaded.id
         /\ Stored(c) = IF is = c.loaded.is THEN row[k] ELSE [row[k] EXCEPT !.is = is]
      \/ /\ c.loaded # NoRow /\ is = None
         /\ Stored(c) = IF row[k].id = c.loaded.id THEN NoRow ELSE row[k]
  BY <1>1, <1>2, StoredRow
<1>5. row' = [row EXCEPT ![k] = Stored(c)] /\ serial' \in {serial, serial + 1}
  BY DEF Write
<1>6. row[k].id = 0 => row[k] = NoRow
  BY <1>1 DEF VerdictInv, VerdictTypes
<1>7. c.loaded.id = 0 => c.loaded = NoRow
  BY DEF VerdictInv, VerdictTypes
<1> HIDE DEF c, k, is
<1>8. Stored(c) \in Row
  <2>1. serial + 1 \in Nat /\ FALSE \in BOOLEAN
    BY <1>2
  <2>2. [id |-> serial + 1, is |-> is, retracted |-> FALSE] \in Row
    BY <1>3, <2>1 DEF Row
  <2>3. [row[k] EXCEPT !.is = is] \in Row
    BY <1>2, <1>3 DEF Row
  <2> QED
    BY <1>2, <1>4, <2>2, <2>3, NoRowType
<1>9. Stored(c).id = 0 => Stored(c) = NoRow
  BY <1>1, <1>2, <1>4, <1>6, <1>7 DEF Row, NoRow
<1>10. ASSUME k \notin disturbed
       PROVE  Stored(c).is = Becomes(c.asks, row[k].is)
  <2>1. c.loaded.id = row[k].id /\ c.loaded.is = row[k].is
    BY <1>10 DEF c, k, VerdictInv, Undisturbed
  <2>2. is = Becomes(c.asks, row[k].is)
    BY <2>1 DEF is
  <2> QED
    BY <1>2, <1>4, <2>1, <2>2 DEF Row, NoRow, None
<1>11. /\ row' \in [Key -> Row] /\ serial' \in Nat
       /\ \A q \in Key : q # k => row'[q] = row[q]
       /\ row'[k] = Stored(c)
  BY <1>1, <1>2, <1>5, <1>8 DEF k
<1>12. \A q \in Key : row'[q].id = 0 => row'[q] = NoRow
  BY <1>9, <1>11 DEF VerdictInv, VerdictTypes
<1> QED
  BY <1>10, <1>11, <1>12 DEF c, k

LEMMA VerdictStep == VerdictInv /\ [Next]_vars => VerdictInv'
<1> SUFFICES ASSUME VerdictInv, [Next]_vars
             PROVE  VerdictInv'
  OBVIOUS
<1>0. VerdictTypes /\ Undisturbed /\ VerdictAsAsked
  BY DEF VerdictInv
<1>1. ASSUME NEW x \in Client, NEW k \in Key, NEW asks \in Asks(k), Begin(x, k, asks)
      PROVE  VerdictInv'
  <2> DEFINE c == [at |-> "read", key |-> k, asks |-> asks, attempt |-> 1]
  <2>1. c \in Call
    <3>1. asks \in Verdict
      BY DEF Asks, Verdict
    <3>2. 1 \in 1 .. MaxAttempts
      BY LedgerAssumption
    <3> QED
      BY <3>1, <3>2 DEF Call
  <2>2. /\ call' = [call EXCEPT ![x] = c] /\ call[x] = Idle
        /\ disturbed' = IF OnKey(k) = {} THEN disturbed ELSE disturbed \cup {k}
        /\ UNCHANGED <<row, serial, meant>>
    BY <1>1 DEF Begin
  <2>3. call'[x] = c /\ \A y \in Client : y # x => call'[y] = call[y]
    BY <1>0, <2>2 DEF VerdictTypes
  <2>4. call' \in [Client -> Call]
    BY <1>0, <2>1, <2>2 DEF VerdictTypes
  <2>5. c.key = k /\ c.at = "read"
    OBVIOUS
  <2>6. \A y \in Client : call[y] # Idle /\ call[y].key = k => k \in disturbed'
    BY <2>2 DEF OnKey
  <2> HIDE DEF c
  <2>7. VerdictTypes'
    BY <1>0, <2>2, <2>3, <2>4, <2>5 DEF VerdictTypes
  <2>8. Undisturbed'
    BY <1>0, <2>2, <2>3, <2>5, <2>6 DEF Undisturbed
  <2> QED
    BY <1>0, <2>2, <2>7, <2>8 DEF VerdictInv, VerdictAsAsked
<1>2. ASSUME NEW x \in Client, Read(x)
      PROVE  VerdictInv'
  <2> DEFINE c == [at |-> "commit", key |-> call[x].key, asks |-> call[x].asks,
                   attempt |-> call[x].attempt, loaded |-> row[call[x].key]]
  <2>1. call[x].at = "read" /\ UNCHANGED <<row, serial, meant, disturbed>>
    BY <1>2 DEF Read
  <2>2. /\ call[x].key \in Key /\ call[x].asks \in Verdict /\ call[x] # Idle
        /\ call[x].attempt \in 1 .. MaxAttempts
    BY <1>0, <2>1, CallTypes
  <2>3. call' = [call EXCEPT ![x] = c]
    BY <1>2 DEF Read
  <2>4. c \in Call
    BY <1>0, <2>2 DEF Call, VerdictTypes
  <2>5. call'[x] = c /\ \A y \in Client : y # x => call'[y] = call[y]
    BY <1>0, <2>3 DEF VerdictTypes
  <2>6. c.key = call[x].key /\ c.loaded = row[call[x].key]
    OBVIOUS
  <2> HIDE DEF c
  <2>7. VerdictTypes'
    BY <1>0, <2>1, <2>2, <2>3, <2>4, <2>5, <2>6 DEF VerdictTypes
  <2>8. Undisturbed'
    BY <1>0, <2>1, <2>2, <2>5, <2>6 DEF Undisturbed
  <2> QED
    BY <1>0, <2>1, <2>7, <2>8 DEF VerdictInv, VerdictAsAsked
<1>3. ASSUME NEW x \in Client, Fail(x) \/ Drop(x)
      PROVE  VerdictInv'
  <2>1. /\ call[x] # Idle /\ UNCHANGED <<row, serial, meant, disturbed>>
        /\ \E c \in {Idle, Retried(call[x])} : call' = [call EXCEPT ![x] = c]
    BY <1>0, <1>3, CallTypes DEF Fail, Drop
  <2>2. /\ call' \in [Client -> Call]
        /\ \A y \in Client :
             call'[y].at = "commit" => (call'[y].loaded.id = 0 => call'[y].loaded = NoRow)
        /\ Undisturbed'
    BY <1>0, <2>1, CallEnds
  <2> QED
    BY <1>0, <2>1, <2>2 DEF VerdictInv, VerdictTypes, VerdictAsAsked
<1>4. ASSUME NEW x \in Client, Return(x) \/ LoseReply(x)
      PROVE  VerdictInv'
  <2> DEFINE k == call[x].key
  <2>1. /\ call[x].at = "commit" /\ Commits(call[x]) /\ Write(call[x])
        /\ meant' = [meant EXCEPT ![k] = Becomes(call[x].asks, @)]
        /\ disturbed \subseteq disturbed'
        /\ \E c \in {Idle, Retried(call[x])} : call' = [call EXCEPT ![x] = c]
    BY <1>4 DEF Return, LoseReply
  <2>2. k \in Key /\ call[x].asks \in Verdict /\ call[x] # Idle
    BY <1>0, <2>1, CallTypes
  <2>3. /\ row' \in [Key -> Row] /\ serial' \in Nat
        /\ \A q \in Key : row'[q].id = 0 => row'[q] = NoRow
        /\ \A q \in Key : q # k => row'[q] = row[q]
        /\ k \notin disturbed => row'[k].is = Becomes(call[x].asks, row[k].is)
    BY <2>1, WriteMeans
  <2>4. \A y \in Client : y # x /\ call[y].at = "commit" /\ call[y].key \notin disturbed'
          => call[y].key \in Key /\ call[y].key # k
    BY <1>0, <2>1, <2>2, CallTypes DEF Undisturbed
  <2>5. /\ call' \in [Client -> Call]
        /\ \A y \in Client :
             call'[y].at = "commit" => (call'[y].loaded.id = 0 => call'[y].loaded = NoRow)
        /\ Undisturbed'
    BY <1>0, <2>1, <2>2, <2>3, <2>4, CallEnds
  <2>6. Becomes(call[x].asks, meant[k]) \in Verdict \cup {None}
    BY <2>2, BecomesType
  <2>7. /\ meant' \in [Key -> Verdict \cup {None}]
        /\ meant'[k] = Becomes(call[x].asks, meant[k])
        /\ \A q \in Key : q # k => meant'[q] = meant[q]
    BY <1>0, <2>1, <2>2, <2>6 DEF VerdictTypes
  <2>8. VerdictAsAsked'
    BY <1>0, <2>1, <2>2, <2>3, <2>7 DEF VerdictAsAsked
  <2> QED
    BY <2>3, <2>5, <2>7, <2>8 DEF VerdictInv, VerdictTypes
<1>5. ASSUME NEW k \in Key, Retract(k)
      PROVE  VerdictInv'
  <2>1. /\ row' = [row EXCEPT ![k].retracted = TRUE] /\ row[k] # NoRow
        /\ UNCHANGED <<call, serial, meant, disturbed>>
    BY <1>5 DEF Retract
  <2>2. row[k] \in Row
    BY <1>0 DEF VerdictTypes
  <2>3. /\ row'[k].id = row[k].id /\ row'[k].is = row[k].is /\ row'[k] \in Row
        /\ \A q \in Key : q # k => row'[q] = row[q]
    BY <1>0, <2>1, <2>2 DEF VerdictTypes, Row
  <2>4. row' \in [Key -> Row]
    BY <1>0, <2>1, <2>3 DEF VerdictTypes
  <2>5. VerdictTypes'
    BY <1>0, <2>1, <2>3, <2>4 DEF VerdictTypes
  <2>6. \A x \in Client : call[x].at = "commit" => call[x].key \in Key
    BY <1>0, CallTypes
  <2>7. Undisturbed'
    BY <1>0, <2>1, <2>3, <2>6 DEF Undisturbed
  <2> QED
    BY <1>0, <2>1, <2>3, <2>5, <2>7 DEF VerdictInv, VerdictAsAsked
<1>6. CASE UNCHANGED <<row, call, serial, meant, disturbed>>
  BY <1>0, <1>6 DEF VerdictInv, VerdictTypes, Undisturbed, VerdictAsAsked, OnKey
<1> QED
  BY <1>1, <1>2, <1>3, <1>4, <1>5, <1>6
     DEF Next, SaveRetrieved, SaveAttribution, DeleteDocument, Recompute, ReadLinks, ReadUp,
         ReadDown, ReadSteps, LoadScore, Store, Abandon, Becoming, vars

\* What is stored of a verdict is what its user's calls ask for one by one, however
\* often they are retried, unless two overlapped or a toggle ran again after its
\* reply was lost.
THEOREM StoredAsAsked == Spec => []VerdictAsAsked
<1>1. VerdictInv => VerdictAsAsked
  BY DEF VerdictInv
<1> QED
  BY <1>1, VerdictInit, VerdictStep, PTL DEF Spec

(***************************************************************************)
(* Retracted verdicts.                                                     *)
(***************************************************************************)

\* A retracted verdict does not count again, whatever its user sends and however
\* the calls overlap, until its row is gone.
THEOREM RetractionHolds == Spec => RetractedStays
<1>1. ASSUME VerdictInv, [Next]_vars, NEW k \in Key, row[k].retracted
      PROVE  row'[k].retracted \/ row'[k] = NoRow
  <2>0. row \in [Key -> Row] /\ row[k] \in Row /\ VerdictTypes
    BY <1>1 DEF VerdictInv, VerdictTypes
  <2>1. row[k] # NoRow
    BY <1>1 DEF NoRow
  <2>2. ASSUME NEW x \in Client, Return(x) \/ LoseReply(x)
        PROVE  row'[k].retracted \/ row'[k] = NoRow
    <3> DEFINE c == call[x]
    <3>1. c.at = "commit" /\ Commits(c) /\ row' = [row EXCEPT ![c.key] = Stored(c)]
      BY <2>2 DEF Return, LoseReply, Write
    <3>2. c.key \in Key /\ c.loaded \in Row /\ c.asks \in Verdict /\ serial \in Nat
      BY <2>0, <3>1, CallTypes DEF VerdictTypes
    <3>3. CASE c.key # k
      BY <1>1, <2>0, <3>1, <3>3
    <3>4. CASE c.key = k
      <4> DEFINE is == Becomes(c.asks, c.loaded.is)
      <4>1. \/ row[k] = NoRow
            \/ Stored(c) \in {row[k], [row[k] EXCEPT !.is = is], NoRow}
        <5>1. LET b == Becomes(c.asks, c.loaded.is)
              IN  \/ /\ c.loaded = NoRow /\ row[k] = NoRow
                     /\ Stored(c) = [id |-> serial + 1, is |-> b, retracted |-> FALSE]
                  \/ /\ c.loaded # NoRow /\ b # None /\ row[k].id = c.loaded.id
                     /\ Stored(c) = IF b = c.loaded.is THEN row[k]
                                    ELSE [row[k] EXCEPT !.is = b]
                  \/ /\ c.loaded # NoRow /\ b = None
                     /\ Stored(c) = IF row[k].id = c.loaded.id THEN NoRow ELSE row[k]
          BY <2>0, <3>1, <3>2, <3>4, StoredRow
        <5> QED
          BY <5>1
      <4> HIDE DEF is
      <4>2. [row[k] EXCEPT !.is = is].retracted = row[k].retracted
        BY <2>0 DEF Row
      <4>3. row'[k] = Stored(c)
        BY <2>0, <3>1, <3>2, <3>4
      <4> QED
        BY <1>1, <2>1, <4>1, <4>2, <4>3
    <3> QED
      BY <3>3, <3>4
  <2>3. ASSUME NEW q \in Key, Retract(q)
        PROVE  row'[k].retracted
    <3>1. row' = [row EXCEPT ![q].retracted = TRUE]
      BY <2>3 DEF Retract
    <3> QED
      BY <1>1, <2>0, <3>1 DEF Row
  <2>4. CASE UNCHANGED row
    BY <1>1, <2>4
  <2> QED
    BY <1>1, <2>2, <2>3, <2>4
       DEF Next, SaveRetrieved, SaveAttribution, DeleteDocument, Begin, Read, Fail, Drop,
           Recompute, ReadLinks, ReadUp, ReadDown, ReadSteps, LoadScore, Store, Abandon,
           Becoming, vars
<1>2. VerdictInv /\ [Next]_vars
        => [\A k \in Key : row[k].retracted => row'[k].retracted \/ row'[k] = NoRow]_row
  BY <1>1
<1> QED
  BY <1>2, VerdictInit, VerdictStep, PTL DEF Spec, RetractedStays

(***************************************************************************)
(* Links.                                                                  *)
(***************************************************************************)

LEMMA BagSums ==
  ASSUME NEW a, NEW b
  PROVE  BagToSet(a (+) b) = BagToSet(a) \cup BagToSet(b)
BY DEF BagToSet, (+)

\* What a verdict of the judge adds and takes away leaves every chunk linked.
LEMMA AttributionLinks ==
  ASSUME NEW c \in Chunk, Linked(c), SaveAttribution
  PROVE  Linked(c)'
<1>1. CASE UNCHANGED links
  BY <1>1 DEF Linked
<1>2. CASE ~ UNCHANGED links
  <2>1. PICK v \in saves.verdicts :
          LET attributed == {d \in Chunk : v.refs[d] > 0}
              new == [l \in {[chunk |-> d, step |-> v.step, label |-> v.label] :
                                d \in attributed} |-> v.refs[l.chunk]]
          IN  links' = Without(links, Replaced(attributed)) (+) new
    BY <1>2 DEF SaveAttribution, Saved, NotSaved
  <2> DEFINE attributed == {d \in Chunk : v.refs[d] > 0}
             added == {[chunk |-> d, step |-> v.step, label |-> v.label] : d \in attributed}
             new == [l \in added |-> v.refs[l.chunk]]
  <2>2. links' = Without(links, Replaced(attributed)) (+) new
    BY <2>1
  <2>3. BagToSet(new) = added
    BY DEF BagToSet
  <2>4. BagToSet(Without(links, Replaced(attributed)))
          = BagToSet(links) \ Replaced(attributed)
    BY DEF BagToSet, Without
  <2>5. BagToSet(links') = (BagToSet(links) \ Replaced(attributed)) \cup added
    <3> HIDE DEF new, added, attributed
    <3> QED
      BY <2>2, <2>3, <2>4, BagSums
  <2>6. PICK l \in BagToSet(links) : l.chunk = c
    BY DEF Linked
  <2>7. CASE l \notin Replaced(attributed)
    BY <2>5, <2>6, <2>7 DEF Linked
  <2>8. CASE l \in Replaced(attributed)
    <3>1. PICK d \in attributed : l = BareLink(d)
      BY <2>8 DEF Replaced
    <3>2. d = c
      BY <2>6, <3>1 DEF BareLink
    <3>3. [chunk |-> c, step |-> v.step, label |-> v.label] \in added
      BY <3>1, <3>2
    <3> QED
      BY <2>5, <3>3 DEF Linked
  <2> QED
    BY <2>7, <2>8
<1> QED
  BY <1>1, <1>2

\* A chunk once linked to the response stays linked as long as it exists.
THEOREM LinksKept == Spec => LinkedStayLinked
<1>1. ASSUME [Next]_vars, NEW c \in Chunk, Linked(c), c \in present'
      PROVE  Linked(c)'
  <2>1. CASE SaveRetrieved
    <3>1. \/ UNCHANGED links
          \/ \E new : links' = links (+) new
      BY <2>1 DEF SaveRetrieved, Saved, NotSaved
    <3>2. BagToSet(links) \subseteq BagToSet(links')
      BY <3>1, BagSums
    <3> QED
      BY <1>1, <3>2 DEF Linked
  <2>2. CASE SaveAttribution
    BY <1>1, <2>2, AttributionLinks
  <2>3. ASSUME NEW d \in Chunk, DeleteDocument(d)
        PROVE  Linked(c)'
    <3>1. c # d
      BY <1>1, <2>3 DEF DeleteDocument
    <3>2. BagToSet(links')
            = BagToSet(links) \ {l \in BagToSet(links) : l.chunk = d}
      BY <2>3 DEF DeleteDocument, BagToSet, Without
    <3> QED
      BY <1>1, <3>1, <3>2 DEF Linked
  <2>4. CASE UNCHANGED links
    BY <1>1, <2>4 DEF Linked
  <2> QED
    BY <1>1, <2>1, <2>2, <2>3, <2>4
       DEF Next, Begin, Read, Return, Fail, Drop, LoseReply, Retract, Recompute, ReadLinks,
           ReadUp, ReadDown, ReadSteps, LoadScore, Store, Abandon, Becoming, vars
<1>2. [Next]_vars => [\A c \in Chunk : Linked(c) /\ c \in present' => Linked(c)']_vars
  BY <1>1
<1> QED
  BY <1>2, PTL DEF Spec, LinkedStayLinked

(***************************************************************************)
(* The score of a chunk.  The sums stay folded: the score is the sum over  *)
(* the tables because a job reads them all before any of them changes, and *)
(* the columns it stores are the ones that differ from the cache it loaded.*)
(***************************************************************************)

\* What the tables give depends on nothing but the links and the verdicts.
LEMMA TablesKept ==
  ASSUME UNCHANGED <<links, row>>
  PROVE  /\ \A type : Votes(type)' = Votes(type)
         /\ \A c : Linked(c)' = Linked(c)
         /\ \A c : Tally(c)' = Tally(c)
<1>1. \A k : Counts(k)' = Counts(k)
  BY DEF Counts
<1>2. \A type : Votes(type)' = Votes(type)
  BY <1>1 DEF Votes, Counts
<1>3. \A c : Linked(c)' = Linked(c)
  BY DEF Linked
<1>4. \A c : Joined(c)' = Joined(c)
  BY <1>1 DEF Joined, Counts
<1>5. \A kl : Signal(kl)' = Signal(kl)
  BY DEF Signal
<1>6. \A c : Tally(c)' = Tally(c)
  BY <1>2, <1>3, <1>4, <1>5 DEF Tally, WithSteps, WithUp, WithDown
<1> QED
  BY <1>2, <1>3, <1>6

LEMMA TallyIsRecord ==
  ASSUME NEW c, NEW now
  PROVE  /\ Columns(now, Uncached, Tally(c)) = Tally(c)
         /\ Columns(now, now, Tally(c)) = Tally(c)
<1>1. \E p, n, f, a :
        Tally(c) = [positive |-> p, negative |-> n, for |-> f, against |-> a]
  BY DEF Tally, WithSteps, NoScore
<1>2. PICK p, n, f, a :
        Tally(c) = [positive |-> p, negative |-> n, for |-> f, against |-> a]
  BY <1>1
<1>3. Tally(c) = [col \in DOMAIN Tally(c) |-> Tally(c)[col]]
  BY <1>2
<1>4. Columns(now, Uncached, Tally(c)) = Tally(c)
  BY DEF Columns
<1>5. Columns(now, now, Tally(c)) = Tally(c)
  <2> DEFINE t == Tally(c)
  <2>1. t = [col \in DOMAIN t |-> t[col]]
    BY <1>3
  <2> HIDE DEF t
  <2>2. [col \in DOMAIN t |-> IF t[col] # now[col] THEN t[col] ELSE now[col]]
          = [col \in DOMAIN t |-> t[col]]
    OBVIOUS
  <2>3. Columns(now, now, t) = t
    BY <2>1, <2>2 DEF Columns
  <2> QED
    BY <2>3 DEF t
<1> QED
  BY <1>4, <1>5

\* A record of a job, whatever its sums are.
Reading(j) ==
  j \in [at : {"links", "up", "down", "steps", "load"}, chunk : Chunk, sum : {j.sum},
         clean : BOOLEAN]

Storing(j) ==
  j \in [at : {"store"}, chunk : Chunk, sum : {j.sum}, clean : BOOLEAN,
         loaded : {j.loaded}]

\* What a job has summed up when nothing was written since it read the links.
SumSoFar(j) ==
  /\ j.at \in {"up", "down", "steps"} => Linked(j.chunk)
  /\ j.at = "up" => j.sum = NoScore
  /\ j.at = "down" => j.sum = WithUp(NoScore)
  /\ j.at = "steps" => j.sum = WithDown(WithUp(NoScore))
  /\ j.at \in {"load", "store"} => j.sum = Tally(j.chunk)
  /\ j.at = "store" => j.loaded = cache[j.chunk]

ScoreTypes ==
  /\ fresh \subseteq Chunk
  /\ cache = [c \in Chunk |-> cache[c]]
  /\ job = [w \in Worker |-> job[w]]
  /\ \A w \in Worker :
       job[w] = Idle \/ Reading(job[w]) \/ Storing(job[w])

CleanSums ==
  /\ \A w \in Worker : job[w].at = "links" => job[w].sum = NoScore /\ ~ job[w].clean
  /\ \A w \in Worker : job[w] # Idle /\ job[w].clean => SumSoFar(job[w])

ScoreInv == ScoreTypes /\ CleanSums /\ ScoreIsExact

LEMMA ScoreInit == Init => ScoreInv
BY DEF Init, ScoreInv, ScoreTypes, CleanSums, ScoreIsExact, Idle

LEMMA JobKinds ==
  ASSUME ScoreTypes, NEW w \in Worker
  PROVE  /\ job[w] = Idle \/ Reading(job[w]) \/ Storing(job[w])
         /\ Idle.at = "idle"
         /\ job[w] # Idle => job[w].chunk \in Chunk /\ job[w].clean \in BOOLEAN
         /\ job[w].at \in {"links", "up", "down", "steps", "load"} => Reading(job[w])
         /\ job[w].at = "store" => Storing(job[w])
         /\ job[w].at # "idle" => job[w] # Idle
BY DEF ScoreTypes, Idle, Reading, Storing

\* A job that is told of a write keeps all but its flag.
LEMMA Cleared ==
  ASSUME ScoreTypes, NEW w \in Worker, job[w] # Idle
  PROVE  LET j == [job[w] EXCEPT !.clean = FALSE]
         IN  /\ j.at = job[w].at /\ j.chunk = job[w].chunk /\ j.sum = job[w].sum
             /\ ~ j.clean /\ j.clean \in BOOLEAN
             /\ Reading(j) \/ Storing(j)
             /\ j # Idle
<1>1. CASE Reading(job[w])
  BY <1>1 DEF Reading, Idle
<1>2. CASE Storing(job[w])
  BY <1>2 DEF Storing, Idle
<1> QED
  BY <1>1, <1>2, JobKinds

\* After a write no score is known to be exact, and no job's sum.
LEMMA ChangesForget ==
  ASSUME ScoreInv, Changes, cache' = [c \in Chunk |-> cache'[c]]
  PROVE  ScoreInv'
<1>0. ScoreTypes /\ CleanSums
  BY DEF ScoreInv
<1>1. job' = [w \in Worker |-> job'[w]]
  BY DEF Changes
<1>2. ASSUME NEW w \in Worker
      PROVE  \/ job[w] = Idle /\ job'[w] = Idle
             \/ /\ job[w] # Idle /\ job'[w] # Idle /\ ~ job'[w].clean
                /\ job'[w].clean \in BOOLEAN /\ job'[w].chunk = job[w].chunk
                /\ job'[w].at = job[w].at /\ job'[w].sum = job[w].sum
                /\ Reading(job'[w]) \/ Storing(job'[w])
  <2>1. job'[w] = IF job[w] = Idle THEN Idle ELSE [job[w] EXCEPT !.clean = FALSE]
    BY DEF Changes
  <2>2. CASE job[w] = Idle
    BY <2>1, <2>2
  <2>3. CASE job[w] # Idle
    BY <1>0, <2>1, <2>3, Cleared
  <2> QED
    BY <2>2, <2>3
<1>3. ScoreTypes'
  BY <1>0, <1>1, <1>2, JobKinds DEF ScoreTypes, Reading, Storing, Changes
<1>4. CleanSums'
  BY <1>0, <1>2, JobKinds DEF CleanSums
<1>5. ScoreIsExact'
  BY DEF ScoreIsExact, Changes
<1> QED
  BY <1>3, <1>4, <1>5 DEF ScoreInv

LEMMA SumsKept ==
  ASSUME UNCHANGED <<links, row>>, NEW j, SumSoFar(j),
         j.at = "store" => cache'[j.chunk] = cache[j.chunk]
  PROVE  SumSoFar(j)'
<1>1. /\ \A type : Votes(type)' = Votes(type)
      /\ \A c : Linked(c)' = Linked(c)
      /\ \A c : Tally(c)' = Tally(c)
  BY TablesKept
<1>2. /\ WithUp(NoScore)' = WithUp(NoScore)
      /\ WithDown(WithUp(NoScore))' = WithDown(WithUp(NoScore))
  BY <1>1 DEF WithUp, WithDown
<1> QED
  BY <1>1, <1>2 DEF SumSoFar

\* A job takes a step that reads.
LEMMA Reads ==
  ASSUME ScoreInv, NEW w \in Worker, NEW j, Becoming(w, j),
         j = Idle \/ Reading(j) \/ Storing(j),
         j.at = "links" => j.sum = NoScore /\ ~ j.clean,
         j # Idle /\ j.clean => SumSoFar(j)
  PROVE  ScoreInv'
<1>0. ScoreTypes /\ CleanSums /\ ScoreIsExact
  BY DEF ScoreInv
<1>1. UNCHANGED <<present, links, row, cache, fresh>> /\ job' = [job EXCEPT ![w] = j]
  BY DEF Becoming
<1>2. /\ job' = [v \in Worker |-> job'[v]]
      /\ job'[w] = j /\ \A v \in Worker : v # w => job'[v] = job[v]
  BY <1>0, <1>1 DEF ScoreTypes
<1>3. ScoreTypes'
  BY <1>0, <1>1, <1>2 DEF ScoreTypes, Reading, Storing
<1>4. \A c : Tally(c)' = Tally(c)
  BY <1>1, TablesKept
<1>5. ASSUME NEW i, SumSoFar(i)
      PROVE  SumSoFar(i)'
  BY <1>1, <1>5, SumsKept
<1>6. CleanSums'
  BY <1>0, <1>2, <1>5 DEF CleanSums
<1>7. ScoreIsExact'
  BY <1>0, <1>1, <1>4 DEF ScoreIsExact
<1> QED
  BY <1>3, <1>6, <1>7 DEF ScoreInv

\* The score a job stores is the sum over the tables if nothing was written since it
\* read the links, and then no other score and no other job's sum is touched.
LEMMA StoreExact == ScoreInv /\ (\E w \in Worker : Store(w)) => ScoreInv'
<1> SUFFICES ASSUME ScoreInv, NEW w \in Worker, Store(w)
             PROVE  ScoreInv'
  OBVIOUS
<1> DEFINE j == job[w]
<1>0. ScoreTypes /\ CleanSums /\ ScoreIsExact
  BY DEF ScoreInv
<1>1. /\ j.at = "store" /\ UNCHANGED <<present, links, row>>
      /\ cache' = [cache EXCEPT ![j.chunk] = Columns(@, j.loaded, j.sum)]
      /\ fresh' = IF j.clean THEN fresh \cup {j.chunk} ELSE fresh \ {j.chunk}
      /\ job' = [v \in Worker |->
                  IF v = w THEN Idle
                  ELSE IF job[v] # Idle /\ job[v].chunk = j.chunk
                    THEN [job[v] EXCEPT !.clean = FALSE] ELSE job[v]]
  BY DEF Store
<1>2. j # Idle /\ j.chunk \in Chunk
  BY <1>0, <1>1, JobKinds
<1>3. /\ cache' = [c \in Chunk |-> cache'[c]]
      /\ cache'[j.chunk] = Columns(cache[j.chunk], j.loaded, j.sum)
      /\ \A c \in Chunk : c # j.chunk => cache'[c] = cache[c]
  BY <1>0, <1>1, <1>2 DEF ScoreTypes
<1>4. ASSUME NEW v \in Worker
      PROVE  \/ job'[v] = Idle
             \/ /\ job[v] # Idle /\ job'[v] = job[v] /\ job[v].chunk # j.chunk
             \/ /\ job[v] # Idle /\ ~ job'[v].clean
                /\ job'[v].at = job[v].at /\ job'[v].sum = job[v].sum
                /\ Reading(job'[v]) \/ Storing(job'[v])
  <2>1. job'[v] = IF v = w THEN Idle
                  ELSE IF job[v] # Idle /\ job[v].chunk = j.chunk
                    THEN [job[v] EXCEPT !.clean = FALSE] ELSE job[v]
    BY <1>1
  <2>2. CASE v # w /\ job[v] # Idle /\ job[v].chunk = j.chunk
    BY <1>0, <2>1, <2>2, Cleared
  <2> QED
    BY <2>1, <2>2
<1>5. job' = [v \in Worker |-> job'[v]] /\ fresh' \subseteq Chunk
  BY <1>0, <1>1, <1>2 DEF ScoreTypes
<1>6. ScoreTypes'
  BY <1>0, <1>3, <1>4, <1>5 DEF ScoreTypes, Reading, Storing
<1>7. CleanSums'
  <2>1. \A v \in Worker : job'[v].at = "links" => job'[v].sum = NoScore /\ ~ job'[v].clean
    BY <1>0, <1>4, JobKinds DEF CleanSums
  <2>2. ASSUME NEW v \in Worker, NEW i, i = job'[v], i # Idle, i.clean
        PROVE  SumSoFar(i)'
    <3>1. job[v] # Idle /\ job[v] = i /\ i.chunk # j.chunk
      BY <1>4, <2>2
    <3>2. SumSoFar(i)
      BY <2>2, <3>1, <1>0 DEF CleanSums
    <3>3. i.chunk \in Chunk
      BY <1>0, <3>1, JobKinds
    <3> QED
      BY <1>1, <1>3, <3>1, <3>2, <3>3, SumsKept
  <2> QED
    BY <2>1, <2>2 DEF CleanSums
<1>8. ASSUME j.clean
      PROVE  cache'[j.chunk] = Tally(j.chunk)
  <2>1. j.sum = Tally(j.chunk) /\ j.loaded = cache[j.chunk]
    BY <1>0, <1>1, <1>2, <1>8 DEF CleanSums, SumSoFar
  <2> QED
    BY <1>3, <2>1, TallyIsRecord
<1>9. \A c : Tally(c)' = Tally(c)
  BY <1>1, TablesKept
<1>10. ScoreIsExact'
  <2> SUFFICES ASSUME NEW c \in Chunk, c \in fresh', c \in present
               PROVE  cache'[c] = Tally(c)
    BY <1>1, <1>5, <1>9 DEF ScoreIsExact
  <2> QED
    BY <1>0, <1>1, <1>3, <1>8 DEF ScoreIsExact
<1> QED
  BY <1>6, <1>7, <1>10 DEF ScoreInv

LEMMA ScoreStep == ScoreInv /\ [Next]_vars => ScoreInv'
<1> SUFFICES ASSUME ScoreInv, [Next]_vars
             PROVE  ScoreInv'
  OBVIOUS
<1>0. ScoreTypes /\ CleanSums /\ ScoreIsExact
  BY DEF ScoreInv
<1>1. CASE Changes /\ UNCHANGED cache
  <2>1. cache' = [c \in Chunk |-> cache'[c]]
    BY <1>0, <1>1 DEF ScoreTypes
  <2> QED
    BY <1>1, <2>1, ChangesForget
<1>2. ASSUME NEW c \in Chunk, DeleteDocument(c)
      PROVE  ScoreInv'
  <2>1. cache' = [d \in Chunk |-> cache'[d]]
    BY <1>0, <1>2 DEF DeleteDocument, ScoreTypes
  <2> QED
    BY <1>2, <2>1, ChangesForget DEF DeleteDocument
<1>3. CASE UNCHANGED <<present, links, row, cache, job, fresh>>
  <2>1. \A c : Tally(c)' = Tally(c)
    BY <1>3, TablesKept
  <2>2. \A i : SumSoFar(i) => SumSoFar(i)'
    BY <1>3, SumsKept
  <2> QED
    BY <1>0, <1>3, <2>1, <2>2 DEF ScoreInv, ScoreTypes, CleanSums, ScoreIsExact
<1>4. ASSUME NEW w \in Worker, NEW c \in Scored, Recompute(w, c)
      PROVE  ScoreInv'
  <2> DEFINE j == [at |-> "links", chunk |-> c, sum |-> NoScore, clean |-> FALSE]
  <2>1. Becoming(w, j) /\ c \in Chunk
    BY <1>4, LedgerAssumption DEF Recompute
  <2>2. Reading(j) /\ j.sum = NoScore /\ ~ j.clean
    BY <2>1 DEF Reading
  <2> QED
    BY <2>1, <2>2, Reads
<1>5. ASSUME NEW w \in Worker, ReadLinks(w)
      PROVE  ScoreInv'
  <2> DEFINE j == [job[w] EXCEPT !.at = IF Linked(job[w].chunk) THEN "up" ELSE "load",
                                 !.clean = TRUE]
  <2>1. job[w].at = "links" /\ Becoming(w, j) /\ Reading(job[w])
    BY <1>0, <1>5, JobKinds DEF ReadLinks
  <2>2. /\ Reading(j) /\ j.chunk = job[w].chunk /\ j.sum = job[w].sum
        /\ j.at = IF Linked(job[w].chunk) THEN "up" ELSE "load"
    BY <2>1 DEF Reading
  <2>3. job[w].sum = NoScore
    BY <1>0, <2>1 DEF CleanSums
  <2> HIDE DEF j
  <2>4. SumSoFar(j)
    BY <2>2, <2>3 DEF SumSoFar, Tally
  <2> QED
    BY <2>1, <2>2, <2>4, Reads
<1>6. ASSUME NEW w \in Worker, ReadUp(w) \/ ReadDown(w) \/ ReadSteps(w)
      PROVE  ScoreInv'
  <2> DEFINE k == job[w]
  <2>0. k.at \in {"up", "down", "steps"}
    BY <1>6 DEF ReadUp, ReadDown, ReadSteps
  <2>1. Reading(k) /\ k # Idle
    BY <1>0, <2>0, JobKinds
  <2>2. PICK at, sum :
          /\ Becoming(w, [k EXCEPT !.at = at, !.sum = sum])
          /\ \/ k.at = "up" /\ at = "down" /\ sum = WithUp(k.sum)
             \/ k.at = "down" /\ at = "steps" /\ sum = WithDown(k.sum)
             \/ k.at = "steps" /\ at = "load" /\ sum = WithSteps(k.sum, k.chunk)
    BY <1>6 DEF ReadUp, ReadDown, ReadSteps
  <2> DEFINE j == [k EXCEPT !.at = at, !.sum = sum]
  <2>3. /\ Reading(j) /\ j.at = at /\ j.sum = sum /\ j.chunk = k.chunk
        /\ j.clean = k.clean
    BY <2>1, <2>2 DEF Reading
  <2>4. ASSUME k.clean
        PROVE  SumSoFar(j)
    <3>1. SumSoFar(k)
      BY <1>0, <2>1, <2>4 DEF CleanSums
    <3> HIDE DEF j, k
    <3> QED
      BY <2>2, <2>3, <3>1 DEF SumSoFar, Tally
  <2>5. Becoming(w, j)
    BY <2>2
  <2> HIDE DEF j
  <2> QED
    BY <2>2, <2>3, <2>4, <2>5, Reads
<1>7. ASSUME NEW w \in Worker, LoadScore(w)
      PROVE  ScoreInv'
  <2> DEFINE k == job[w]
             j == [at |-> "store", chunk |-> k.chunk, sum |-> k.sum, clean |-> k.clean,
                   loaded |-> cache[k.chunk]]
  <2>1. k.at = "load" /\ Becoming(w, j)
    BY <1>7 DEF LoadScore
  <2>2. Reading(k) /\ k # Idle
    BY <1>0, <2>1, JobKinds
  <2>3. /\ j.at = "store" /\ j.sum = k.sum /\ j.chunk = k.chunk /\ j.clean = k.clean
        /\ j.loaded = cache[k.chunk]
    OBVIOUS
  <2>4. Storing(j)
    BY <2>2 DEF Reading, Storing
  <2>5. ASSUME k.clean
        PROVE  SumSoFar(j)
    <3>1. SumSoFar(k)
      BY <1>0, <2>2, <2>5 DEF CleanSums
    <3> HIDE DEF j, k
    <3> QED
      BY <2>1, <2>3, <3>1 DEF SumSoFar
  <2> HIDE DEF j
  <2> QED
    BY <2>1, <2>3, <2>4, <2>5, Reads
<1>8. ASSUME NEW w \in Worker, Store(w)
      PROVE  ScoreInv'
  BY <1>8, StoreExact
<1>9. ASSUME NEW w \in Worker, Abandon(w)
      PROVE  ScoreInv'
  BY <1>9, Reads DEF Abandon, Idle
<1> QED
  BY <1>1, <1>2, <1>3, <1>4, <1>5, <1>6, <1>7, <1>8, <1>9
     DEF Next, SaveRetrieved, SaveAttribution, Saved, NotSaved, Begin, Read, Return, Fail,
         Drop, LoseReply, Write, Retract, vars

\* The score of a chunk is the sum over the links and the verdicts, though it was read in
\* four queries and stored column by column, as long as nothing was written meanwhile or
\* since.
THEOREM ScoresAreExact == Spec => []ScoreIsExact
<1>1. ScoreInv => ScoreIsExact
  BY DEF ScoreInv
<1> QED
  BY <1>1, ScoreInit, ScoreStep, PTL DEF Spec
=============================================================================
