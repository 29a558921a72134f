------------------------- MODULE AlertDeliveryProofs -------------------------
(***************************************************************************)
(* Alert delivery keeps its promise for any number of accounts, signals,   *)
(* overlapping cycles, changes and faults.  The inductive invariant says   *)
(* what a cycle may rely on between its two transactions: the rows it read *)
(* are still in its batch and context, whatever else is in the batch is    *)
(* suppressed, and each of its submissions was counted.                    *)
(***************************************************************************)
EXTENDS AlertDelivery, FiniteSetTheorems, TLAPS

Row == [status : Statuses, batch : SUBSET Signals, ctx : Contexts \cup {Nil},
        attempts : 0..MaxAttempts, retry : BOOLEAN, due : BOOLEAN, refused : BOOLEAN]

CycleRow == [pc : {"idle", "read", "decide", "send", "release"} \cup Answers,
             acct : 0..NAccounts, entitled : BOOLEAN, notify : BOOLEAN,
             ctx : Contexts \cup {Nil}, keys : SUBSET Signals, batch : SUBSET Signals,
             bctx : Contexts \cup {Nil}, attempts : 0..MaxAttempts, status : Statuses]

AccountRow == [entitled : BOOLEAN, notify : BOOLEAN, ctx : Contexts, open : SUBSET Signals]

-----------------------------------------------------------------------------
(* The inductive invariant.                                                 *)

\* A row without a batch was never tried, and a row is in its own batch.
RowShape ==
    \A a \in Accounts, s \in Signals :
        /\ row[a][s].status = "none" => row[a][s].batch = {}
        /\ row[a][s].batch = {} => /\ row[a][s].status \in {"none", "queued"}
                                   /\ row[a][s].attempts = 0
        /\ row[a][s].batch # {} => s \in row[a][s].batch

\* Between its transactions a cycle holds a batch: its rows are in the batch
\* and the context it read, and the rest of the batch is suppressed.
Carrying == {"decide", "send"} \cup Answers

Carries(c) ==
    cy[c].pc \in Carrying /\ cy[c].keys # {} =>
        /\ cy[c].batch # {}
        /\ \A k \in cy[c].keys : /\ row[cy[c].acct][k].batch = cy[c].batch
                                 /\ row[cy[c].acct][k].ctx = cy[c].bctx
        /\ \A k \in Signals \ cy[c].keys :
              row[cy[c].acct][k].batch = cy[c].batch =>
                  row[cy[c].acct][k].status = "suppressed"
        /\ cy[c].pc = "decide" => cy[c].status \in {"queued", "sending", "failed", "unknown"}
        /\ cy[c].pc # "decide" => cy[c].bctx = cy[c].ctx
        /\ cy[c].pc = "accepted" => \A k \in cy[c].keys : copies[cy[c].acct][k] > 0

\* The submissions of signal k that were counted and not made yet.
Pending(a, k) == {c \in Cycles : cy[c].pc = "send" /\ cy[c].acct = a /\ k \in cy[c].keys}

\* Copies and pending submissions were all counted as attempts.
Counted ==
    \A a \in Accounts, k \in Signals :
        copies[a][k] + Cardinality(Pending(a, k)) <= row[a][k].attempts

\* A cycle that comes to an account carries nothing from the one before.
ReadsEmpty == \A c \in Cycles : cy[c].pc = "read" => cy[c].keys = {}

AlertInv ==
    /\ TypeOK
    /\ NoPoisonBatch
    /\ RowShape
    /\ \A c \in Cycles : Carries(c)
    /\ Counted
    /\ ReadsEmpty

-----------------------------------------------------------------------------
(* What the row operators return.                                           *)

\* The bounds are numbers, and Nil is neither a cycle nor a context.
LEMMA Bounds ==
    /\ NAccounts \in Nat /\ NAccounts >= 1 /\ MaxAttempts \in Nat /\ MaxAttempts >= 1
    /\ 0 \in 0..MaxAttempts /\ 1 \in 0..MaxAttempts /\ 0 \in 0..NAccounts
    /\ Accounts \subseteq 0..NAccounts /\ 1 \in Accounts
    /\ IsFiniteSet(Cycles) /\ Nil \notin Cycles /\ Nil \notin Contexts
BY ConstantsAssumption DEF Accounts

\* A row that does not exist yet, and one just queued.
LEMMA NoRowFields ==
    /\ NoRow \in Row /\ NoRow.status = "none" /\ NoRow.batch = {} /\ NoRow.attempts = 0
    /\ \A b \in SUBSET Signals, x \in Contexts \cup {Nil} :
          /\ QueuedRow(b, x) \in Row
          /\ QueuedRow(b, x).status = "queued" /\ QueuedRow(b, x).batch = b
          /\ QueuedRow(b, x).ctx = x /\ QueuedRow(b, x).attempts = 0
<1>1. NoRow \in Row
  BY Bounds DEF NoRow, Row, Statuses
<1>2. ASSUME NEW b \in SUBSET Signals, NEW x \in Contexts \cup {Nil}
      PROVE  /\ QueuedRow(b, x) \in Row
             /\ QueuedRow(b, x).status = "queued" /\ QueuedRow(b, x).batch = b
             /\ QueuedRow(b, x).ctx = x /\ QueuedRow(b, x).attempts = 0
  BY Bounds DEF NoRow, QueuedRow, Row, Statuses
<1> QED BY <1>1, <1>2 DEF NoRow

\* A closed row keeps its batch, its context and its attempts.
LEMMA ClosedFields ==
    ASSUME NEW x \in Row, NEW st \in Statuses
    PROVE  /\ Closed(x, st) \in Row
           /\ Closed(x, st).status = st /\ Closed(x, st).batch = x.batch
           /\ Closed(x, st).ctx = x.ctx /\ Closed(x, st).attempts = x.attempts
           /\ Closed(x, st).retry = FALSE /\ Closed(x, st).refused = x.refused
BY DEF Closed, Row

\* A submission counts one attempt more, while one is left.
LEMMA SendingFields ==
    ASSUME NEW x \in Row, x.attempts < MaxAttempts
    PROVE  /\ Sending(x) \in Row
           /\ Sending(x).status = "sending" /\ Sending(x).batch = x.batch
           /\ Sending(x).ctx = x.ctx /\ Sending(x).attempts = x.attempts + 1
<1>1. x.attempts \in Nat /\ x.attempts + 1 \in 0..MaxAttempts
  BY Bounds DEF Row
<1> QED BY <1>1 DEF Sending, Row, Statuses

\* A cycle that visits an account or is over carries no batch.
LEMMA IdleFields ==
    /\ Idle \in CycleRow /\ Idle.pc = "idle" /\ Idle.keys = {}
    /\ \A a \in Accounts : /\ Visiting(a) \in CycleRow /\ Visiting(a).pc = "read"
                           /\ Visiting(a).acct = a /\ Visiting(a).keys = {}
    /\ [Idle EXCEPT !.pc = "release"] \in CycleRow
    /\ [Idle EXCEPT !.pc = "release"].pc = "release"
    /\ [Idle EXCEPT !.pc = "release"].keys = {}
<1>1. Idle \in CycleRow /\ Idle.pc = "idle" /\ Idle.keys = {}
  BY Bounds DEF Idle, CycleRow, Statuses
<1>2. ASSUME NEW a \in Accounts
      PROVE  /\ Visiting(a) \in CycleRow /\ Visiting(a).pc = "read"
             /\ Visiting(a).acct = a /\ Visiting(a).keys = {}
  BY <1>1, Bounds DEF Idle, Visiting, CycleRow
<1> QED BY <1>1, <1>2 DEF Idle, CycleRow

-----------------------------------------------------------------------------
(* The type invariant in parts.                                             *)

CyclesOK ==
    /\ cy \in [Cycles -> CycleRow]
    /\ \A c \in Cycles : /\ cy[c].pc \notin {"idle", "release"} => cy[c].acct \in Accounts
                         /\ cy[c].pc \in {"send"} \cup Answers => cy[c].keys # {}

RowsOK == row \in [Accounts -> [Signals -> Row]]
JobOK == job \in [owner : Cycles \cup {Nil}, live : BOOLEAN] /\ (job.live => job.owner # Nil)
CopiesOK == copies \in [Accounts -> [Signals -> Nat]]
WorldOK ==
    /\ acct \in [Accounts -> AccountRow]
    /\ digests \in [Accounts -> Nat]
    /\ url \in BOOLEAN /\ changes \in Nat /\ faults \in Nat

\* TypeOK by the component that owns each part.
LEMMA TypeParts == TypeOK <=> CyclesOK /\ RowsOK /\ JobOK /\ CopiesOK /\ WorldOK
BY DEF TypeOK, CyclesOK, RowsOK, JobOK, CopiesOK, WorldOK, Row, CycleRow, AccountRow

\* The bounded counters stay numbers.
LEMMA FaultType ==
    ASSUME WorldOK PROVE /\ Fault => faults' \in Nat
                         /\ Change => changes' \in Nat
BY DEF WorldOK, Fault, Change

-----------------------------------------------------------------------------
(* What a step may do to the rows, and what that leaves of a cycle's claim. *)

RowsKept ==
    \A a \in Accounts, k \in Signals :
        /\ row[a][k].batch # {} =>
              /\ row'[a][k].batch = row[a][k].batch
              /\ row'[a][k].ctx = row[a][k].ctx
              /\ row[a][k].status = "suppressed" => row'[a][k].status = "suppressed"
        /\ row[a][k].batch = {} => \A j \in row'[a][k].batch : row[a][j].batch = {}

CopiesGrow == \A a \in Accounts, k \in Signals : copies'[a][k] >= copies[a][k]

AttemptsGrow == \A a \in Accounts, k \in Signals : row'[a][k].attempts >= row[a][k].attempts

\* Whatever the others write, a cycle finds its batch as it read it.
LEMMA CarriesKept ==
    ASSUME CyclesOK, RowsOK, RowShape, CopiesOK, CopiesOK', RowsKept, CopiesGrow,
           NEW c \in Cycles, Carries(c), cy'[c] = cy[c]
    PROVE  Carries(c)'
<1> SUFFICES ASSUME cy[c].pc \in Carrying, cy[c].keys # {}
             PROVE  /\ cy[c].batch # {}
                    /\ \A k \in cy[c].keys : /\ row'[cy[c].acct][k].batch = cy[c].batch
                                             /\ row'[cy[c].acct][k].ctx = cy[c].bctx
                    /\ \A k \in Signals \ cy[c].keys :
                          row'[cy[c].acct][k].batch = cy[c].batch =>
                              row'[cy[c].acct][k].status = "suppressed"
                    /\ cy[c].pc = "decide" =>
                          cy[c].status \in {"queued", "sending", "failed", "unknown"}
                    /\ cy[c].pc # "decide" => cy[c].bctx = cy[c].ctx
                    /\ cy[c].pc = "accepted" => \A k \in cy[c].keys : copies'[cy[c].acct][k] > 0
  BY DEF Carries
<1> DEFINE a == cy[c].acct
<1>1. a \in Accounts /\ cy[c].keys \subseteq Signals
  BY DEF CyclesOK, CycleRow, Carrying, Answers
<1>2. ASSUME NEW k \in cy[c].keys
      PROVE  row'[a][k].batch = cy[c].batch /\ row'[a][k].ctx = cy[c].bctx
  BY <1>1 DEF Carries, RowsKept
<1>3. ASSUME NEW k \in Signals \ cy[c].keys, row'[a][k].batch = cy[c].batch
      PROVE  row'[a][k].status = "suppressed"
  <2>1. PICK j \in cy[c].keys : TRUE
    OBVIOUS
  <2>2. j \in row[a][j].batch /\ row[a][j].batch = cy[c].batch
    BY <1>1 DEF Carries, RowShape
  <2>3. row[a][k].batch # {}
    BY <1>1, <1>3, <2>2 DEF RowsKept
  <2>4. row[a][k].batch = cy[c].batch
    BY <1>1, <1>3, <2>3 DEF RowsKept
  <2> QED BY <1>1, <2>3, <2>4 DEF Carries, RowsKept
<1>4. cy[c].pc = "accepted" => \A k \in cy[c].keys : copies'[a][k] > 0
  BY <1>1 DEF Carries, CopiesGrow, CopiesOK
<1> QED BY <1>2, <1>3, <1>4 DEF Carries

\* A step of cycle c leaves the others' claims alone.
LEMMA OthersCarry ==
    ASSUME AlertInv, RowsKept, CopiesGrow, CopiesOK', NEW c \in Cycles,
           \A d \in Cycles \ {c} : cy'[d] = cy[d], Carries(c)'
    PROVE  \A d \in Cycles : Carries(d)'
BY CarriesKept, TypeParts DEF AlertInv

\* No row, or no copy, is written.
LEMMA RowsUnchanged ==
    ASSUME RowShape, UNCHANGED row PROVE RowsKept /\ RowShape'
BY DEF RowsKept, RowShape

\* No mail is accepted: the copies stand.
LEMMA CopiesUnchanged ==
    ASSUME CopiesOK, UNCHANGED copies PROVE CopiesGrow /\ CopiesOK'
BY DEF CopiesOK, CopiesGrow

-----------------------------------------------------------------------------
(* Counting.                                                                *)

\* The cycles between a submission and its answer can be counted.
LEMMA PendingFinite ==
    \A a, k : IsFiniteSet(Pending(a, k)) /\ Cardinality(Pending(a, k)) \in Nat
BY Bounds, FS_Subset, FS_CardinalityType DEF Pending

\* Cycle c does not begin a submission.
LEMMA CountedIdle ==
    ASSUME AlertInv, RowsOK', AttemptsGrow, UNCHANGED copies, NEW c \in Cycles,
           \A d \in Cycles \ {c} : cy'[d] = cy[d], cy'[c].pc # "send" \/ cy'[c] = cy[c]
    PROVE  Counted'
<1> SUFFICES ASSUME NEW a \in Accounts, NEW k \in Signals
             PROVE  copies'[a][k] + Cardinality(Pending(a, k)') <= row'[a][k].attempts
  BY DEF Counted
<1>1. Pending(a, k)' \subseteq Pending(a, k)
  BY DEF Pending
<1>2. Cardinality(Pending(a, k)') <= Cardinality(Pending(a, k))
      /\ Cardinality(Pending(a, k)') \in Nat /\ Cardinality(Pending(a, k)) \in Nat
  BY <1>1, PendingFinite, FS_Subset, FS_CardinalityType
<1>3. copies[a][k] \in Nat /\ row[a][k].attempts \in Nat /\ row'[a][k].attempts \in Nat
  BY TypeParts DEF AlertInv, RowsOK, CopiesOK, Row
<1>4. copies[a][k] + Cardinality(Pending(a, k)) <= row[a][k].attempts
  BY DEF AlertInv, Counted
<1>5. row'[a][k].attempts >= row[a][k].attempts
  BY DEF AttemptsGrow
<1> QED BY <1>2, <1>3, <1>4, <1>5

\* Cycle c begins one: it is counted with the row.
LEMMA CountedEnter ==
    ASSUME AlertInv, RowsOK', AttemptsGrow, UNCHANGED copies, NEW c \in Cycles,
           \A d \in Cycles \ {c} : cy'[d] = cy[d],
           \A k \in cy'[c].keys : row'[cy'[c].acct][k].attempts =
                                      row[cy'[c].acct][k].attempts + 1
    PROVE  Counted'
<1> SUFFICES ASSUME NEW a \in Accounts, NEW k \in Signals
             PROVE  copies'[a][k] + Cardinality(Pending(a, k)') <= row'[a][k].attempts
  BY DEF Counted
<1>3. copies[a][k] \in Nat /\ row[a][k].attempts \in Nat /\ row'[a][k].attempts \in Nat
  BY TypeParts DEF AlertInv, RowsOK, CopiesOK, Row
<1>4. copies[a][k] + Cardinality(Pending(a, k)) <= row[a][k].attempts
  BY DEF AlertInv, Counted
<1>5. row'[a][k].attempts >= row[a][k].attempts
  BY DEF AttemptsGrow
<1>6. CASE c \in Pending(a, k)'
  <2>1. Pending(a, k)' \subseteq Pending(a, k) \cup {c}
    BY DEF Pending
  <2>a. /\ IsFiniteSet(Pending(a, k) \cup {c})
        /\ Cardinality(Pending(a, k) \cup {c}) =
              IF c \in Pending(a, k) THEN Cardinality(Pending(a, k))
                                     ELSE Cardinality(Pending(a, k)) + 1
    BY PendingFinite, FS_AddElement
  <2>2. Cardinality(Pending(a, k) \cup {c}) <= Cardinality(Pending(a, k)) + 1
        /\ IsFiniteSet(Pending(a, k) \cup {c})
        /\ Cardinality(Pending(a, k) \cup {c}) \in Nat
    BY <2>a, PendingFinite
  <2>3. Cardinality(Pending(a, k)') <= Cardinality(Pending(a, k) \cup {c})
        /\ Cardinality(Pending(a, k)') \in Nat
    BY <2>1, <2>2, FS_Subset, FS_CardinalityType
  <2>4. row'[a][k].attempts = row[a][k].attempts + 1
    BY <1>6 DEF Pending
  <2> QED BY <1>3, <1>4, <2>2, <2>3, <2>4, PendingFinite
<1>7. CASE c \notin Pending(a, k)'
  <2>1. Pending(a, k)' \subseteq Pending(a, k)
    BY <1>7 DEF Pending
  <2>2. Cardinality(Pending(a, k)') <= Cardinality(Pending(a, k))
        /\ Cardinality(Pending(a, k)') \in Nat
    BY <2>1, PendingFinite, FS_Subset, FS_CardinalityType
  <2> QED BY <1>3, <1>4, <1>5, <2>2, PendingFinite
<1> QED BY <1>6, <1>7

\* Cycle c makes the submission it had counted.
LEMMA CountedLeave ==
    ASSUME AlertInv, UNCHANGED row, NEW c \in Cycles, cy[c].pc = "send",
           \A d \in Cycles \ {c} : cy'[d] = cy[d], cy'[c].pc # "send",
           \A a \in Accounts, k \in Signals :
              copies'[a][k] = IF a = cy[c].acct /\ k \in cy[c].keys
                                THEN copies[a][k] + 1 ELSE copies[a][k]
    PROVE  Counted'
<1> SUFFICES ASSUME NEW a \in Accounts, NEW k \in Signals
             PROVE  copies'[a][k] + Cardinality(Pending(a, k)') <= row[a][k].attempts
  BY DEF Counted
<1>3. copies[a][k] \in Nat /\ row[a][k].attempts \in Nat
  BY TypeParts DEF AlertInv, RowsOK, CopiesOK, Row
<1>4. copies[a][k] + Cardinality(Pending(a, k)) <= row[a][k].attempts
  BY DEF AlertInv, Counted
<1>5. Pending(a, k)' = Pending(a, k) \ {c}
  BY DEF Pending
<1>6. Cardinality(Pending(a, k)') = IF c \in Pending(a, k) THEN Cardinality(Pending(a, k)) - 1
                                                          ELSE Cardinality(Pending(a, k))
  BY <1>5, PendingFinite, FS_RemoveElement
<1>7. a = cy[c].acct /\ k \in cy[c].keys <=> c \in Pending(a, k)
  BY DEF Pending
<1> QED BY <1>3, <1>4, <1>6, <1>7, PendingFinite

-----------------------------------------------------------------------------
(* How a cycle moves.                                                       *)

\* A cycle that is done with an account holds nothing.
LetsGo(c) ==
    /\ CyclesOK'
    /\ \A d \in Cycles \ {c} : cy'[d] = cy[d]
    /\ cy'[c].keys = {} /\ cy'[c].pc \in {"idle", "read", "release"}

\* Each way a cycle leaves an account drops the batch it carried.
LEMMA Moves ==
    ASSUME CyclesOK, NEW c \in Cycles
    PROVE  /\ cy[c].pc \notin {"idle", "release"} /\ NextAccount(c) => LetsGo(c)
           /\ AbortCycle(c) => LetsGo(c)
           /\ cy' = [cy EXCEPT ![c] = Idle] => LetsGo(c)
           /\ cy' = [cy EXCEPT ![c] = Visiting(1)] => LetsGo(c)
<1>1. ASSUME NEW v \in CycleRow, cy' = [cy EXCEPT ![c] = v],
             v.keys = {}, v.pc \in {"idle", "read", "release"},
             v.pc = "read" => v.acct \in Accounts
      PROVE  LetsGo(c)
  BY <1>1 DEF CyclesOK, LetsGo, Answers
<1>2. cy[c] \in CycleRow
  BY DEF CyclesOK
<1>3. ASSUME cy[c].pc \notin {"idle", "release"}, NextAccount(c)
      PROVE  LetsGo(c)
  <2>1. CASE cy[c].acct < NAccounts
    <3>1. cy' = [cy EXCEPT ![c] = Visiting(cy[c].acct + 1)]
      BY <1>3, <2>1 DEF NextAccount, CyclesOK
    <3>2. cy[c].acct + 1 \in Accounts
      BY <2>1, <1>2, Bounds DEF CycleRow, Accounts
    <3> DEFINE v == Visiting(cy[c].acct + 1)
    <3>3. v \in CycleRow /\ v.pc = "read" /\ v.acct \in Accounts /\ v.keys = {}
      BY <3>2, IdleFields
    <3> HIDE DEF v
    <3> QED BY <1>1, <3>1, <3>3 DEF v
  <2>2. CASE ~(cy[c].acct < NAccounts)
    <3>1. cy' = [cy EXCEPT ![c] = [Idle EXCEPT !.pc = "release"]]
      BY <1>3, <2>2 DEF NextAccount, CyclesOK
    <3> QED BY <1>1, <3>1, IdleFields
  <2> QED BY <2>1, <2>2
<1>4. AbortCycle(c) => LetsGo(c)
  BY <1>1, IdleFields DEF AbortCycle
<1>5. cy' = [cy EXCEPT ![c] = Idle] => LetsGo(c)
  BY <1>1, IdleFields
<1>6. cy' = [cy EXCEPT ![c] = Visiting(1)] => LetsGo(c)
  BY <1>1, IdleFields, Bounds
<1> QED BY <1>3, <1>4, <1>5, <1>6

\* A cycle that carries no batch owes no row anything.
LEMMA LetsGoCarries ==
    ASSUME NEW c \in Cycles, LetsGo(c) PROVE Carries(c)' /\ cy'[c].pc # "send"
BY DEF LetsGo, Carries

\* The rest of the invariant when a cycle lets go and writes no row.
LEMMA LetsGoInv ==
    ASSUME AlertInv, NEW c \in Cycles, LetsGo(c), UNCHANGED <<row, copies>>, JobOK', WorldOK'
    PROVE  AlertInv'
<1>1. RowsOK' /\ CopiesOK' /\ RowsOK /\ CopiesOK /\ AttemptsGrow
  BY TypeParts DEF AlertInv, RowsOK, CopiesOK, AttemptsGrow, Row
<1>2. TypeOK'
  BY <1>1, TypeParts DEF LetsGo, CyclesOK, RowsOK, JobOK, CopiesOK, WorldOK, TypeOK, CycleRow, Row, AccountRow
<1>3. RowsKept /\ RowShape' /\ CopiesGrow
  BY <1>1, RowsUnchanged, CopiesUnchanged DEF AlertInv
<1>4. NoPoisonBatch'
  BY DEF AlertInv, NoPoisonBatch
<1>5. \A d \in Cycles : Carries(d)'
  BY <1>1, <1>3, OthersCarry, LetsGoCarries DEF LetsGo
<1>6. Counted'
  BY <1>1, CountedIdle, LetsGoCarries DEF LetsGo
<1>7. ReadsEmpty'
  BY DEF AlertInv, ReadsEmpty, LetsGo
<1> QED BY <1>2, <1>3, <1>4, <1>5, <1>6, <1>7 DEF AlertInv

-----------------------------------------------------------------------------
(* Writing the rows of a batch.                                             *)

\* A cycle writes rows of its batch alike, and takes none back from
\* suppression.
LEMMA BatchWrite ==
    ASSUME AlertInv, NEW c \in Cycles, cy[c].pc \in Carrying, cy[c].keys # {},
           NEW new \in [Signals -> Row], row' = [row EXCEPT ![cy[c].acct] = new],
           \A k \in Signals \ cy[c].keys : new[k] = row[cy[c].acct][k],
           \A k \in cy[c].keys :
              /\ new[k].batch = row[cy[c].acct][k].batch
              /\ new[k].ctx = row[cy[c].acct][k].ctx
              /\ new[k].attempts >= row[cy[c].acct][k].attempts
              /\ new[k].status # "none"
              /\ row[cy[c].acct][k].status = "suppressed" => new[k].status = "suppressed",
           \A j, k \in cy[c].keys :
              /\ row[cy[c].acct][j] = row[cy[c].acct][k]
              /\ new[j].status # "suppressed" /\ new[k].status # "suppressed"
              => new[j] = new[k]
    PROVE  RowsOK' /\ RowsKept /\ AttemptsGrow /\ RowShape' /\ NoPoisonBatch'
<1> DEFINE a == cy[c].acct
<1>1. a \in Accounts /\ cy[c].keys \subseteq Signals /\ RowsOK
  BY TypeParts DEF AlertInv, CyclesOK, CycleRow, Carrying, Answers
<1>2. RowsOK'
  BY <1>1 DEF RowsOK
<1>3. /\ row'[a] = new
      /\ \A b \in Accounts \ {a} : row'[b] = row[b]
  BY <1>1 DEF RowsOK
<1>4. /\ cy[c].batch # {}
      /\ \A k \in cy[c].keys : row[a][k].batch = cy[c].batch
      /\ \A k \in Signals \ cy[c].keys :
            row[a][k].batch = cy[c].batch => row[a][k].status = "suppressed"
  BY DEF AlertInv, Carries
<1>5. RowsKept
  <2> SUFFICES ASSUME NEW b \in Accounts, NEW k \in Signals
               PROVE  /\ row[b][k].batch # {} =>
                            /\ row'[b][k].batch = row[b][k].batch
                            /\ row'[b][k].ctx = row[b][k].ctx
                            /\ row[b][k].status = "suppressed" =>
                                  row'[b][k].status = "suppressed"
                      /\ row[b][k].batch = {} => row'[b][k].batch = {}
    BY DEF RowsKept
  <2>1. CASE b = a /\ k \in cy[c].keys
    BY <1>3, <2>1
  <2>2. CASE ~(b = a /\ k \in cy[c].keys)
    BY <1>3, <2>2
  <2> QED BY <2>1, <2>2
<1>6. AttemptsGrow
  <2> SUFFICES ASSUME NEW b \in Accounts, NEW k \in Signals
               PROVE  row'[b][k].attempts >= row[b][k].attempts
    BY DEF AttemptsGrow
  <2>1. row[b][k].attempts \in Nat
    BY <1>1 DEF RowsOK, Row
  <2>2. CASE b = a /\ k \in cy[c].keys
    BY <1>3, <2>2
  <2>3. CASE ~(b = a /\ k \in cy[c].keys)
    BY <1>3, <2>1, <2>3
  <2> QED BY <2>2, <2>3
<1>7. RowShape'
  <2> SUFFICES ASSUME NEW b \in Accounts, NEW s \in Signals
               PROVE  /\ row'[b][s].status = "none" => row'[b][s].batch = {}
                      /\ row'[b][s].batch = {} => /\ row'[b][s].status \in {"none", "queued"}
                                                 /\ row'[b][s].attempts = 0
                      /\ row'[b][s].batch # {} => s \in row'[b][s].batch
    BY DEF RowShape
  <2>1. CASE b = a /\ s \in cy[c].keys
    BY <1>1, <1>3, <1>4, <2>1 DEF AlertInv, RowShape
  <2>2. CASE ~(b = a /\ s \in cy[c].keys)
    <3>1. row'[b][s] = row[b][s]
      BY <1>3, <2>2
    <3> QED BY <3>1 DEF AlertInv, RowShape
  <2> QED BY <2>1, <2>2
<1>8. NoPoisonBatch'
  <2> SUFFICES ASSUME NEW b \in Accounts, NEW j \in Signals, NEW k \in Signals,
                      row'[b][j].batch # {}, row'[b][j].batch = row'[b][k].batch,
                      row'[b][j].status # "suppressed", row'[b][k].status # "suppressed"
               PROVE  row'[b][j] = row'[b][k]
    BY DEF NoPoisonBatch
  <2>1. row[b][j].batch = row'[b][j].batch /\ row[b][k].batch = row'[b][k].batch
    <3>1. \A i \in Signals : row[b][i].batch = row'[b][i].batch
      BY <1>3
    <3> QED BY <3>1
  <2>2. row[b][j].status # "suppressed" /\ row[b][k].status # "suppressed"
    BY <1>5, <2>1 DEF RowsKept
  <2>3. row[b][j] = row[b][k]
    BY <2>1, <2>2 DEF AlertInv, NoPoisonBatch
  <2>4. CASE b # a
    BY <1>3, <2>3, <2>4
  <2>5. CASE b = a
    <3>1. CASE j \in cy[c].keys /\ k \in cy[c].keys
      BY <1>3, <2>3, <2>5, <3>1
    <3>2. CASE j \in cy[c].keys /\ k \notin cy[c].keys
      BY <1>4, <2>1, <2>2, <2>5, <3>2
    <3>3. CASE j \notin cy[c].keys /\ k \in cy[c].keys
      BY <1>4, <2>1, <2>2, <2>5, <3>3
    <3>4. CASE j \notin cy[c].keys /\ k \notin cy[c].keys
      BY <1>3, <2>3, <2>5, <3>4
    <3> QED BY <3>1, <3>2, <3>3, <3>4
  <2> QED BY <2>4, <2>5
<1> QED BY <1>2, <1>5, <1>6, <1>7, <1>8

\* A cycle settles its batch and goes on.
LEMMA SettlesInv ==
    ASSUME AlertInv, NEW c \in Cycles, LetsGo(c), UNCHANGED copies, JobOK', WorldOK',
           RowsOK', RowsKept, AttemptsGrow, RowShape', NoPoisonBatch'
    PROVE  AlertInv'
<1>1. CopiesOK' /\ CopiesOK
  BY TypeParts DEF AlertInv, CopiesOK
<1>2. TypeOK'
  BY <1>1 DEF LetsGo, CyclesOK, RowsOK, JobOK, CopiesOK, WorldOK, TypeOK, CycleRow, Row, AccountRow
<1>3. CopiesGrow
  BY <1>1, CopiesUnchanged
<1>5. \A d \in Cycles : Carries(d)'
  BY <1>1, <1>3, OthersCarry, LetsGoCarries DEF LetsGo
<1>6. Counted'
  BY <1>1, CountedIdle, LetsGoCarries DEF LetsGo
<1>7. ReadsEmpty'
  BY DEF AlertInv, ReadsEmpty, LetsGo
<1> QED BY <1>2, <1>5, <1>6, <1>7 DEF AlertInv

-----------------------------------------------------------------------------
(* The promise, row by row.                                                 *)

RowPromise(a, k) ==
    \/ /\ Phase(row[a][k]) \in {"new", "live"} /\ Phase(row'[a][k]) = "live"
       /\ row'[a][k].attempts \in {row[a][k].attempts, row[a][k].attempts + 1}
    \/ /\ Phase(row[a][k]) = "live" /\ Phase(row'[a][k]) \in {"sent", "closed"}
       /\ row'[a][k].attempts = row[a][k].attempts
       /\ Phase(row'[a][k]) = "sent" => copies[a][k] > 0
    \/ /\ Phase(row'[a][k]) = Phase(row[a][k])
       /\ row'[a][k].attempts = row[a][k].attempts

RowsPromise == \A a \in Accounts, k \in Signals : RowPromise(a, k)

\* What AlertPromise makes of each status.
LEMMA PhaseOf ==
    ASSUME NEW x \in Row
    PROVE  /\ x.status = "none" => Phase(x) = "new"
           /\ x.status \in {"queued", "sending"} => Phase(x) = "live"
           /\ x.status = "sent" => Phase(x) = "sent"
           /\ x.status = "suppressed" => Phase(x) = "closed"
           /\ x.status \in {"failed", "unknown"} =>
                 Phase(x) = IF x.retry THEN "live" ELSE "closed"
           /\ Due(x) => Phase(x) = "live"
BY DEF Phase, Row, Statuses, Due

\* No row is written: the promise stutters.
LEMMA RowsPromiseSame == ASSUME UNCHANGED row PROVE RowsPromise
BY DEF RowsPromise, RowPromise

\* Only rows of the batch are written.
LEMMA BatchPromise ==
    ASSUME AlertInv, NEW c \in Cycles, cy[c].pc \in Carrying,
           NEW new \in [Signals -> Row], row' = [row EXCEPT ![cy[c].acct] = new],
           \A k \in Signals \ cy[c].keys : new[k] = row[cy[c].acct][k],
           \A k \in cy[c].keys : RowPromise(cy[c].acct, k)
    PROVE  RowsPromise
<1>1. cy[c].acct \in Accounts /\ RowsOK
  BY TypeParts DEF AlertInv, CyclesOK, CycleRow, Carrying, Answers
<1> SUFFICES ASSUME NEW a \in Accounts, NEW k \in Signals,
                    ~(a = cy[c].acct /\ k \in cy[c].keys)
             PROVE  RowPromise(a, k)
  BY DEF RowsPromise
<1>2. row'[a][k] = row[a][k]
  BY <1>1 DEF RowsOK
<1> QED BY <1>2 DEF RowPromise

\* The invariant gives the types, and unchanged parts keep them.
LEMMA WorldSame ==
    ASSUME AlertInv
    PROVE  /\ UNCHANGED <<env, digests, faults>> => WorldOK'
           /\ UNCHANGED job => JobOK'
           /\ CyclesOK /\ RowsOK /\ JobOK /\ CopiesOK /\ WorldOK
BY TypeParts DEF AlertInv, WorldOK, JobOK, env

-----------------------------------------------------------------------------
(* The actions of a cycle.                                                  *)

\* What a cycle knows of the rows it carries.
LEMMA Carried ==
    ASSUME AlertInv, NEW c \in Cycles, cy[c].pc \in Carrying, cy[c].keys # {}
    PROVE  /\ cy[c] \in CycleRow /\ cy[c].acct \in Accounts /\ cy[c].keys \subseteq Signals
           /\ \A k \in Signals : row[cy[c].acct][k] \in Row
           /\ \A k \in cy[c].keys : /\ row[cy[c].acct][k].status # "none"
                                    /\ row[cy[c].acct][k].attempts \in Nat
<1>1. /\ cy[c] \in CycleRow /\ cy[c].acct \in Accounts /\ cy[c].keys \subseteq Signals
      /\ \A k \in Signals : row[cy[c].acct][k] \in Row
  BY TypeParts DEF AlertInv, CyclesOK, RowsOK, CycleRow, Carrying, Answers
<1>2. \A k \in cy[c].keys : row[cy[c].acct][k].status # "none"
  BY <1>1 DEF AlertInv, Carries, RowShape
<1>3. \A k \in Signals : row[cy[c].acct][k].attempts \in Nat
  BY <1>1, Bounds DEF Row
<1> QED BY <1>1, <1>2, <1>3

\* SuppressBatch: a batch whose account may not be mailed is closed.
LEMMA StepSuppressBatch ==
    ASSUME AlertInv, NEW c \in Cycles, SuppressBatch(c) PROVE AlertInv' /\ RowsPromise
<1> DEFINE a == cy[c].acct
           new == [k \in Signals |->
                     IF k \in cy[c].keys THEN Closed(row[a][k], "suppressed") ELSE row[a][k]]
<1>1. /\ cy[c].pc = "decide" /\ cy[c].keys # {} /\ MaySuppress(c, cy[c].keys)
      /\ row' = [row EXCEPT ![a] = new] /\ NextAccount(c)
      /\ UNCHANGED <<env, digests, job, copies, faults>>
  BY DEF SuppressBatch, Withdrawn
<1>2. cy[c].pc \in Carrying
  BY <1>1 DEF Carrying
<1>3. \A k \in Signals : row[a][k] \in Row
  BY <1>1, <1>2, Carried
<1>4. \A k \in cy[c].keys :
         /\ Closed(row[a][k], "suppressed") \in Row
         /\ Closed(row[a][k], "suppressed").status = "suppressed"
         /\ Closed(row[a][k], "suppressed").batch = row[a][k].batch
         /\ Closed(row[a][k], "suppressed").ctx = row[a][k].ctx
         /\ Closed(row[a][k], "suppressed").attempts = row[a][k].attempts
  BY <1>1, <1>2, <1>3, ClosedFields, Carried DEF Statuses
<1>5. new \in [Signals -> Row]
  BY <1>3, <1>4
<1>6. RowsOK' /\ RowsKept /\ AttemptsGrow /\ RowShape' /\ NoPoisonBatch'
  BY <1>1, <1>2, <1>4, <1>5, BatchWrite, Carried
<1>7. LetsGo(c) /\ JobOK' /\ WorldOK'
  BY <1>1, Moves, WorldSame
<1>8. ASSUME NEW k \in cy[c].keys PROVE RowPromise(a, k)
  <2>1. row'[a][k] = Closed(row[a][k], "suppressed")
    BY <1>1, <1>2, Carried, WorldSame DEF RowsOK
  <2>2. Phase(row'[a][k]) = "closed"
    BY <1>4, <2>1, PhaseOf
  <2>3. row[a][k].status \in Statuses \ {"none", "sent"}
    BY <1>1, <1>2, <1>3, Carried DEF MaySuppress, Row
  <2>4. Phase(row[a][k]) \in {"live", "closed"}
    BY <1>1, <1>2, <1>3, <2>3, Carried, PhaseOf DEF Statuses
  <2> QED BY <1>4, <2>1, <2>2, <2>4 DEF RowPromise
<1>9. RowsPromise
  BY <1>1, <1>2, <1>5, <1>8, BatchPromise
<1> QED BY <1>1, <1>6, <1>7, <1>9, SettlesInv

\* The batch of a retry, split in what is left of it and what has gone.
LEMMA KeptFields ==
    ASSUME AlertInv, NEW c \in Cycles, Retrying(c), MaySuppress(c, Gone(c))
    PROVE  /\ cy[c].pc \in Carrying /\ cy[c].keys # {} /\ cy[c].bctx = cy[c].ctx
           /\ cy[c].keys = Left(c) \cup Gone(c) /\ Left(c) \cap Gone(c) = {}
           /\ WithoutGone(c) \in [Signals -> Row]
           /\ \A k \in Signals \ Gone(c) : WithoutGone(c)[k] = row[cy[c].acct][k]
           /\ \A k \in Gone(c) :
                 /\ WithoutGone(c)[k].status = "suppressed"
                 /\ WithoutGone(c)[k].batch = row[cy[c].acct][k].batch
                 /\ WithoutGone(c)[k].ctx = row[cy[c].acct][k].ctx
                 /\ WithoutGone(c)[k].attempts = row[cy[c].acct][k].attempts
                 /\ Phase(WithoutGone(c)[k]) = "closed"
                 /\ Phase(row[cy[c].acct][k]) \in {"live", "closed"}
<1> DEFINE a == cy[c].acct
<1>1. cy[c].pc \in Carrying /\ cy[c].keys # {} /\ cy[c].bctx = cy[c].ctx
  BY DEF Retrying, Withdrawn, Carrying
<1>2. cy[c].keys = Left(c) \cup Gone(c) /\ Left(c) \cap Gone(c) = {}
  BY DEF Left, Gone
<1>3. /\ \A k \in Signals : row[a][k] \in Row
      /\ cy[c].keys \subseteq Signals
      /\ \A k \in cy[c].keys : row[a][k].status # "none"
  BY <1>1, Carried
<1>4. \A k \in Gone(c) :
         /\ Closed(row[a][k], "suppressed") \in Row
         /\ Closed(row[a][k], "suppressed").status = "suppressed"
         /\ Closed(row[a][k], "suppressed").batch = row[a][k].batch
         /\ Closed(row[a][k], "suppressed").ctx = row[a][k].ctx
         /\ Closed(row[a][k], "suppressed").attempts = row[a][k].attempts
  BY <1>2, <1>3, ClosedFields DEF Statuses
<1>5. WithoutGone(c) \in [Signals -> Row]
  BY <1>3, <1>4 DEF WithoutGone
<1>6. \A k \in Signals \ Gone(c) : WithoutGone(c)[k] = row[a][k]
  BY DEF WithoutGone
<1>7. \A k \in Gone(c) : WithoutGone(c)[k] = Closed(row[a][k], "suppressed")
  BY <1>2, <1>3 DEF WithoutGone
<1>8. ASSUME NEW k \in Gone(c)
      PROVE  /\ Phase(WithoutGone(c)[k]) = "closed"
             /\ Phase(row[a][k]) \in {"live", "closed"}
  <2>1. k \in cy[c].keys /\ k \in Signals
    BY <1>2, <1>3
  <2>2. row[a][k].status \in Statuses \ {"none", "sent"}
    BY <1>3, <2>1 DEF MaySuppress, Row
  <2>3. Phase(row[a][k]) \in {"live", "closed"}
    BY <1>3, <2>1, <2>2, PhaseOf DEF Statuses
  <2> QED BY <1>4, <1>7, <2>3, PhaseOf
<1> QED BY <1>1, <1>2, <1>4, <1>5, <1>6, <1>7, <1>8

\* AllGone: every signal of a retried batch has gone.
LEMMA StepAllGone ==
    ASSUME AlertInv, NEW c \in Cycles, AllGone(c) PROVE AlertInv' /\ RowsPromise
<1> DEFINE a == cy[c].acct
           new == WithoutGone(c)
<1>1. /\ Retrying(c) /\ MaySuppress(c, Gone(c)) /\ Left(c) = {}
      /\ row' = [row EXCEPT ![a] = new] /\ NextAccount(c)
      /\ UNCHANGED <<env, digests, job, copies, faults>>
  BY DEF AllGone
<1>2. cy[c].pc = "decide"
  BY <1>1 DEF Retrying
<1>3. /\ cy[c].pc \in Carrying /\ cy[c].keys # {} /\ cy[c].keys = Gone(c)
      /\ new \in [Signals -> Row]
      /\ \A k \in Signals \ cy[c].keys : new[k] = row[a][k]
      /\ \A k \in cy[c].keys : /\ new[k].status = "suppressed"
                               /\ new[k].batch = row[a][k].batch
                               /\ new[k].ctx = row[a][k].ctx
                               /\ new[k].attempts = row[a][k].attempts
                               /\ Phase(new[k]) = "closed"
                               /\ Phase(row[a][k]) \in {"live", "closed"}
  BY ZenonT(60), <1>1, KeptFields
<1>4. \A k \in cy[c].keys : row[a][k].attempts \in Nat
  BY <1>3, Carried
<1> HIDE DEF new
<1>5. RowsOK' /\ RowsKept /\ AttemptsGrow /\ RowShape' /\ NoPoisonBatch'
  <2>1. \A k \in cy[c].keys :
           /\ new[k].batch = row[a][k].batch /\ new[k].ctx = row[a][k].ctx
           /\ new[k].attempts >= row[a][k].attempts /\ new[k].status # "none"
           /\ row[a][k].status = "suppressed" => new[k].status = "suppressed"
    BY <1>3, <1>4
  <2>2. \A j, k \in cy[c].keys :
           row[a][j] = row[a][k] /\ new[j].status # "suppressed" /\ new[k].status # "suppressed"
              => new[j] = new[k]
    BY <1>3
  <2> QED BY ZenonT(60), <1>1, <1>3, <2>1, <2>2, BatchWrite
<1>6. LetsGo(c) /\ JobOK' /\ WorldOK'
  BY <1>1, <1>2, Moves, WorldSame
<1>7. ASSUME NEW k \in cy[c].keys PROVE RowPromise(a, k)
  <2>1. row'[a][k] = new[k]
    BY <1>1, <1>3, Carried, WorldSame DEF RowsOK
  <2> QED BY <1>3, <2>1 DEF RowPromise
<1>8. RowsPromise
  BY <1>1, <1>3, <1>7, BatchPromise
<1> QED BY <1>1, <1>5, <1>6, <1>8, SettlesInv

\* Exhaust: a batch without an attempt left ends as it stands.
LEMMA StepExhaust ==
    ASSUME AlertInv, NEW c \in Cycles, Exhaust(c) PROVE AlertInv' /\ RowsPromise
<1> DEFINE a == cy[c].acct
           kept == WithoutGone(c)
           st == IF cy[c].status = "sending" THEN "unknown" ELSE cy[c].status
           end(x) == [Closed(x, st) EXCEPT !.refused = @ /\ cy[c].status # "sending"]
           new == [k \in Signals |-> IF k \in Left(c) THEN end(kept[k]) ELSE kept[k]]
<1>1. /\ Retrying(c) /\ MaySuppress(c, Gone(c)) /\ MayExhaust(c)
      /\ row' = [row EXCEPT ![a] = new] /\ NextAccount(c)
      /\ UNCHANGED <<env, digests, job, copies, faults>>
  BY DEF Exhaust
<1>2. cy[c].pc = "decide"
  BY <1>1 DEF Retrying
<1>3. /\ cy[c].pc \in Carrying /\ cy[c].keys # {}
      /\ cy[c].keys = Left(c) \cup Gone(c) /\ Left(c) \cap Gone(c) = {}
      /\ kept \in [Signals -> Row]
      /\ \A k \in Signals \ Gone(c) : kept[k] = row[a][k]
      /\ \A k \in Gone(c) : /\ kept[k].status = "suppressed"
                            /\ kept[k].batch = row[a][k].batch
                            /\ kept[k].ctx = row[a][k].ctx
                            /\ kept[k].attempts = row[a][k].attempts
                            /\ Phase(kept[k]) = "closed"
                            /\ Phase(row[a][k]) \in {"live", "closed"}
  BY <1>1, KeptFields
<1>4. /\ \A k \in cy[c].keys : row[a][k].attempts \in Nat
      /\ cy[c].keys \subseteq Signals /\ a \in Accounts
      /\ \A k \in Signals : row[a][k] \in Row
  BY <1>3, Carried
<1>5. st \in {"failed", "unknown"} /\ st \in Statuses
  <2>1. cy[c].status \in {"queued", "sending", "failed", "unknown"}
    BY <1>2, <1>3 DEF AlertInv, Carries
  <2>2. cy[c].status # "queued"
    BY <1>1 DEF MayExhaust
  <2> QED BY <2>1, <2>2 DEF Statuses
<1>6. ASSUME NEW x \in Row
      PROVE  /\ end(x) \in Row /\ end(x).status = st /\ end(x).batch = x.batch
             /\ end(x).ctx = x.ctx /\ end(x).attempts = x.attempts /\ end(x).retry = FALSE
  <2> HIDE DEF st
  <2> DEFINE y == Closed(x, st)
  <2>1. /\ y \in Row /\ y.status = st /\ y.batch = x.batch
        /\ y.ctx = x.ctx /\ y.attempts = x.attempts /\ y.retry = FALSE
    BY <1>5, ClosedFields
  <2> HIDE DEF y
  <2>2. end(x) = [y EXCEPT !.refused = @ /\ cy[c].status # "sending"]
    BY DEF y
  <2>3. y.refused \in BOOLEAN
    BY <2>1 DEF Row
  <2> QED BY <2>1, <2>2, <2>3 DEF Row
<1> HIDE DEF end, st, kept
<1>7. /\ \A k \in Left(c) : new[k] = end(row[a][k])
      /\ \A k \in Signals \ Left(c) : new[k] = kept[k]
      /\ new \in [Signals -> Row]
  BY <1>3, <1>4, <1>6
<1> HIDE DEF new
<1>8. RowsOK' /\ RowsKept /\ AttemptsGrow /\ RowShape' /\ NoPoisonBatch'
  <2>1. \A k \in Signals \ cy[c].keys : new[k] = row[a][k]
    BY <1>3, <1>7
  <2>2. ASSUME NEW k \in Left(c)
        PROVE  /\ new[k].batch = row[a][k].batch /\ new[k].ctx = row[a][k].ctx
               /\ new[k].attempts = row[a][k].attempts
               /\ new[k].status \notin {"none", "suppressed"}
               /\ row[a][k].status # "suppressed"
    <3>1. Due(row[a][k])
      BY <1>1 DEF MayExhaust
    <3>2. row[a][k].status # "suppressed"
      BY <3>1 DEF Due
    <3>3. row[a][k] \in Row
      BY <1>3, <1>4
    <3>4. /\ end(row[a][k]).status = st /\ end(row[a][k]).batch = row[a][k].batch
          /\ end(row[a][k]).ctx = row[a][k].ctx
          /\ end(row[a][k]).attempts = row[a][k].attempts
      BY <1>6, <3>3
    <3> QED BY <1>5, <1>7, <3>2, <3>4
  <2>3. ASSUME NEW k \in Gone(c)
        PROVE  /\ new[k].batch = row[a][k].batch /\ new[k].ctx = row[a][k].ctx
               /\ new[k].attempts = row[a][k].attempts
               /\ new[k].status = "suppressed"
    BY <1>3, <1>4, <1>7
  <2>4. \A k \in cy[c].keys :
           /\ new[k].batch = row[a][k].batch /\ new[k].ctx = row[a][k].ctx
           /\ new[k].attempts >= row[a][k].attempts /\ new[k].status # "none"
           /\ row[a][k].status = "suppressed" => new[k].status = "suppressed"
    BY <1>3, <1>4, <2>2, <2>3
  <2>5. \A j, k \in cy[c].keys :
           row[a][j] = row[a][k] /\ new[j].status # "suppressed" /\ new[k].status # "suppressed"
              => new[j] = new[k]
    BY <1>3, <1>7, <2>3
  <2>6. /\ row' = [row EXCEPT ![a] = new] /\ new \in [Signals -> Row]
        /\ cy[c].pc \in Carrying /\ cy[c].keys # {}
    BY <1>1, <1>3, <1>7
  <2> QED BY ZenonT(60), <2>1, <2>4, <2>5, <2>6, BatchWrite
<1>9. LetsGo(c) /\ JobOK' /\ WorldOK'
  BY <1>1, <1>2, Moves, WorldSame
<1>10. ASSUME NEW k \in cy[c].keys PROVE RowPromise(a, k)
  <2>1. row'[a][k] = new[k]
    BY <1>1, <1>4, WorldSame DEF RowsOK
  <2>2. CASE k \in Gone(c)
    BY <1>3, <1>4, <1>7, <2>1, <2>2 DEF RowPromise
  <2>3. CASE k \in Left(c)
    <3>1. Phase(row[a][k]) = "live"
      BY <1>1, <1>4, <2>3, PhaseOf DEF MayExhaust
    <3>2. new[k] \in Row /\ new[k].status \in {"failed", "unknown"} /\ new[k].retry = FALSE
          /\ new[k].attempts = row[a][k].attempts
      <4>1. row[a][k] \in Row
        BY <1>3, <1>4
      <4>2. /\ end(row[a][k]) \in Row /\ end(row[a][k]).status = st
            /\ end(row[a][k]).retry = FALSE /\ end(row[a][k]).attempts = row[a][k].attempts
        BY <1>6, <4>1
      <4> QED BY <1>5, <1>7, <2>3, <4>2
    <3>3. Phase(new[k]) = "closed"
      BY <3>2, PhaseOf
    <3> QED BY <2>1, <3>1, <3>2, <3>3 DEF RowPromise
  <2> QED BY <1>3, <2>2, <2>3
<1>11. RowsPromise
  <2>1. \A k \in Signals \ cy[c].keys : new[k] = row[a][k]
    BY <1>3, <1>7
  <2> QED BY <1>1, <1>3, <1>7, <1>10, <2>1, BatchPromise
<1> QED BY <1>1, <1>8, <1>9, <1>11, SettlesInv

\* A cycle goes on to submit a batch that it has just counted.
LEMMA EntersInv ==
    ASSUME AlertInv, NEW c \in Cycles, CyclesOK', \A d \in Cycles \ {c} : cy'[d] = cy[d],
           UNCHANGED <<env, digests, job, copies, faults>>,
           RowsOK', RowsKept, AttemptsGrow, RowShape', NoPoisonBatch', Carries(c)',
           cy'[c].pc = "send",
           \A k \in cy'[c].keys : row'[cy'[c].acct][k].attempts =
                                      row[cy'[c].acct][k].attempts + 1
    PROVE  AlertInv'
<1>1. CopiesOK' /\ CopiesOK /\ JobOK' /\ WorldOK'
  BY WorldSame, CopiesUnchanged
<1>2. TypeOK'
  BY <1>1 DEF CyclesOK, RowsOK, JobOK, CopiesOK, WorldOK, TypeOK, CycleRow, Row, AccountRow
<1>3. CopiesGrow
  BY <1>1, CopiesUnchanged
<1>5. \A d \in Cycles : Carries(d)'
  BY <1>1, <1>3, OthersCarry
<1>6. Counted'
  BY <1>1, CountedEnter
<1>7. ReadsEmpty'
  BY DEF AlertInv, ReadsEmpty
<1> QED BY <1>2, <1>5, <1>6, <1>7 DEF AlertInv

\* RetryBatch: what is left of the batch is submitted again.
LEMMA StepRetryBatch ==
    ASSUME AlertInv, NEW c \in Cycles, RetryBatch(c) PROVE AlertInv' /\ RowsPromise
<1> DEFINE a == cy[c].acct
           kept == WithoutGone(c)
           new == [k \in Signals |-> IF k \in Left(c) THEN Sending(kept[k]) ELSE kept[k]]
           v == [cy[c] EXCEPT !.pc = "send", !.keys = Left(c),
                            !.attempts = cy[c].attempts + 1]
<1>1. /\ Retrying(c) /\ MaySuppress(c, Gone(c)) /\ MaySend(c) /\ Left(c) # {}
      /\ row' = [row EXCEPT ![a] = new] /\ cy' = [cy EXCEPT ![c] = v]
      /\ cy[c].attempts < MaxAttempts
      /\ UNCHANGED <<env, digests, job, copies, faults>>
  <2>1. cy' = [cy EXCEPT ![c] = v]
    BY DEF RetryBatch
  <2>2. /\ Retrying(c) /\ MaySuppress(c, Gone(c)) /\ MaySend(c) /\ Left(c) # {}
        /\ row' = [row EXCEPT ![a] = new] /\ cy[c].attempts < MaxAttempts
        /\ UNCHANGED <<env, digests, job, copies, faults>>
    BY DEF RetryBatch
  <2> QED BY <2>1, <2>2
<1>2. cy[c].pc = "decide"
  BY <1>1 DEF Retrying
<1>3. /\ cy[c].pc \in Carrying /\ cy[c].keys # {} /\ cy[c].bctx = cy[c].ctx
      /\ cy[c].keys = Left(c) \cup Gone(c) /\ Left(c) \cap Gone(c) = {}
      /\ kept \in [Signals -> Row]
      /\ \A k \in Signals \ Gone(c) : kept[k] = row[a][k]
      /\ \A k \in Gone(c) : /\ kept[k].status = "suppressed"
                            /\ kept[k].batch = row[a][k].batch
                            /\ kept[k].ctx = row[a][k].ctx
                            /\ kept[k].attempts = row[a][k].attempts
                            /\ Phase(kept[k]) = "closed"
                            /\ Phase(row[a][k]) \in {"live", "closed"}
  BY <1>1, KeptFields
<1>4. /\ \A k \in cy[c].keys : row[a][k].attempts \in Nat
      /\ cy[c].keys \subseteq Signals /\ a \in Accounts /\ cy[c] \in CycleRow
      /\ \A k \in Signals : row[a][k] \in Row
  BY <1>3, Carried
<1> HIDE DEF kept
<1>5. ASSUME NEW k \in Left(c)
      PROVE  /\ k \in Signals /\ kept[k] = row[a][k] /\ row[a][k] \in Row
             /\ Sending(row[a][k]) \in Row
             /\ Sending(row[a][k]).status = "sending"
             /\ Sending(row[a][k]).batch = row[a][k].batch
             /\ Sending(row[a][k]).ctx = row[a][k].ctx
             /\ Sending(row[a][k]).attempts = row[a][k].attempts + 1
             /\ row[a][k].status # "suppressed"
             /\ Phase(row[a][k]) = "live"
  <2>1. Due(row[a][k]) /\ row[a][k].attempts < MaxAttempts
    BY <1>1 DEF MaySend
  <2>2. k \in Signals /\ kept[k] = row[a][k] /\ row[a][k] \in Row
    BY <1>3, <1>4
  <2>3. row[a][k].status # "suppressed"
    BY <2>1 DEF Due
  <2> QED BY <2>1, <2>2, <2>3, SendingFields, PhaseOf
<1>6. /\ \A k \in Left(c) : new[k] = Sending(row[a][k])
      /\ \A k \in Signals \ Left(c) : new[k] = kept[k]
      /\ new \in [Signals -> Row]
  BY <1>3, <1>5
<1> HIDE DEF new
<1>7. \A k \in Signals \ cy[c].keys : new[k] = row[a][k]
  BY <1>3, <1>6
<1>8. \A k \in Gone(c) :
         /\ new[k].batch = row[a][k].batch /\ new[k].ctx = row[a][k].ctx
         /\ new[k].attempts = row[a][k].attempts /\ new[k].status = "suppressed"
  BY <1>3, <1>4, <1>6
<1>9. RowsOK' /\ RowsKept /\ AttemptsGrow /\ RowShape' /\ NoPoisonBatch'
  <2>4. ASSUME NEW k \in cy[c].keys
        PROVE  /\ new[k].batch = row[a][k].batch /\ new[k].ctx = row[a][k].ctx
               /\ new[k].attempts >= row[a][k].attempts /\ new[k].status # "none"
               /\ row[a][k].status = "suppressed" => new[k].status = "suppressed"
    <3>1. CASE k \in Gone(c)
      BY <1>4, <1>8, <3>1
    <3>2. CASE k \in Left(c)
      BY <1>4, <1>5, <1>6, <3>2
    <3> QED BY <1>3, <3>1, <3>2
  <2>5. \A j, k \in cy[c].keys :
           row[a][j] = row[a][k] /\ new[j].status # "suppressed" /\ new[k].status # "suppressed"
              => new[j] = new[k]
    BY <1>3, <1>6, <1>8
  <2>6. /\ row' = [row EXCEPT ![a] = new] /\ new \in [Signals -> Row]
        /\ cy[c].pc \in Carrying /\ cy[c].keys # {}
    BY <1>1, <1>3, <1>6
  <2> QED BY ZenonT(60), <1>7, <2>4, <2>5, <2>6, BatchWrite
<1>10. \A k \in Signals : row'[a][k] = new[k]
  BY <1>1, <1>4, WorldSame DEF RowsOK
<1>11. /\ v \in CycleRow /\ v.pc = "send" /\ v.keys = Left(c) /\ v.acct = a
       /\ v.batch = cy[c].batch /\ v.bctx = cy[c].bctx /\ v.ctx = cy[c].ctx
  <2>1. cy[c].attempts + 1 \in 0..MaxAttempts
    BY <1>1, <1>4, Bounds DEF CycleRow
  <2>2. Left(c) \subseteq Signals
    BY <1>3, <1>4
  <2> QED BY <1>4, <2>1, <2>2 DEF CycleRow
<1> HIDE DEF v
<1>12. /\ CyclesOK' /\ \A d \in Cycles \ {c} : cy'[d] = cy[d]
       /\ cy'[c] = v
  BY <1>1, <1>4, <1>11, WorldSame DEF CyclesOK, Answers
<1>13. Carries(c)'
  <2>1. /\ cy[c].batch # {}
        /\ \A k \in cy[c].keys : row[a][k].batch = cy[c].batch /\ row[a][k].ctx = cy[c].bctx
        /\ \A k \in Signals \ cy[c].keys :
              row[a][k].batch = cy[c].batch => row[a][k].status = "suppressed"
    BY <1>3 DEF AlertInv, Carries
  <2>2. \A k \in Left(c) : row'[a][k].batch = v.batch /\ row'[a][k].ctx = v.bctx
    BY <1>3, <1>5, <1>6, <1>10, <1>11, <2>1
  <2>3. \A k \in Signals \ Left(c) :
           row'[a][k].batch = v.batch => row'[a][k].status = "suppressed"
    BY <1>3, <1>7, <1>8, <1>10, <1>11, <2>1
  <2> QED BY <1>3, <1>11, <1>12, <2>1, <2>2, <2>3 DEF Carries
<1>14. \A k \in Left(c) : row'[a][k].attempts = row[a][k].attempts + 1
  BY <1>5, <1>6, <1>10
<1>15. AlertInv'
  BY <1>1, <1>9, <1>11, <1>12, <1>13, <1>14, EntersInv
<1>16. ASSUME NEW k \in cy[c].keys PROVE RowPromise(a, k)
  <2>1. CASE k \in Gone(c)
    BY <1>3, <1>4, <1>6, <1>8, <1>10, <2>1 DEF RowPromise
  <2>2. CASE k \in Left(c)
    <3>1. Phase(row'[a][k]) = "live"
      BY <1>5, <1>6, <1>10, <2>2, PhaseOf
    <3> QED BY <1>5, <1>14, <2>2, <3>1 DEF RowPromise
  <2> QED BY <1>3, <2>1, <2>2
<1>17. RowsPromise
  <2>1. row' = [row EXCEPT ![a] = new]
    BY <1>1
  <2> QED BY <1>3, <1>6, <1>7, <1>16, <2>1, BatchPromise
<1> QED BY <1>15, <1>17

\* The second transaction writes one result to all rows of the batch.
LEMMA RecordInv ==
    ASSUME AlertInv, NEW c \in Cycles, cy[c].pc \in Answers, MayRecord(c),
           NEW new \in [Signals -> Row], row' = [row EXCEPT ![cy[c].acct] = new],
           \A k \in Signals \ cy[c].keys : new[k] = row[cy[c].acct][k],
           \A k \in cy[c].keys :
              /\ new[k].batch = row[cy[c].acct][k].batch
              /\ new[k].ctx = row[cy[c].acct][k].ctx
              /\ new[k].attempts = row[cy[c].acct][k].attempts
              /\ new[k].status \notin {"none", "suppressed"}
              /\ Phase(new[k]) \in {"live", "sent", "closed"}
              /\ Phase(new[k]) = "sent" => cy[c].pc = "accepted",
           \A j, k \in cy[c].keys :
              row[cy[c].acct][j] = row[cy[c].acct][k] => new[j] = new[k],
           NextAccount(c), UNCHANGED <<job, copies>>, WorldOK'
    PROVE  AlertInv' /\ RowsPromise
<1> DEFINE a == cy[c].acct
<1>1. cy[c].pc \in Carrying /\ cy[c].keys # {} /\ cy[c].pc \notin {"idle", "release"}
  BY WorldSame DEF CyclesOK, Carrying, Answers
<1>2. /\ \A k \in cy[c].keys : row[a][k].attempts \in Nat
      /\ cy[c].keys \subseteq Signals /\ a \in Accounts
      /\ \A k \in Signals : row[a][k] \in Row
  BY <1>1, Carried
<1>3. \A k \in cy[c].keys : row[a][k].status = "sending"
  BY DEF MayRecord
<1>5. RowsOK' /\ RowsKept /\ AttemptsGrow /\ RowShape' /\ NoPoisonBatch'
  <2>4. \A k \in cy[c].keys :
           /\ new[k].batch = row[a][k].batch /\ new[k].ctx = row[a][k].ctx
           /\ new[k].attempts >= row[a][k].attempts /\ new[k].status # "none"
           /\ row[a][k].status = "suppressed" => new[k].status = "suppressed"
    BY <1>2, <1>3
  <2>5. \A j, k \in cy[c].keys :
           row[a][j] = row[a][k] /\ new[j].status # "suppressed" /\ new[k].status # "suppressed"
              => new[j] = new[k]
    OBVIOUS
  <2>6. /\ row' = [row EXCEPT ![a] = new] /\ new \in [Signals -> Row]
        /\ \A k \in Signals \ cy[c].keys : new[k] = row[a][k]
    OBVIOUS
  <2> QED BY ONLY ZenonT(60), AlertInv, c \in Cycles, <1>1, <2>4, <2>5, <2>6, BatchWrite
<1>6. LetsGo(c) /\ JobOK'
  BY <1>1, Moves, WorldSame
<1>7. ASSUME NEW k \in cy[c].keys PROVE RowPromise(a, k)
  <2>1. row'[a][k] = new[k]
    BY <1>2, WorldSame DEF RowsOK
  <2>2. Phase(row[a][k]) = "live"
    BY <1>2, <1>3, PhaseOf
  <2>3. cy[c].pc = "accepted" => copies[a][k] > 0
    BY <1>1 DEF AlertInv, Carries
  <2> QED BY <1>3, <2>1, <2>2, <2>3 DEF RowPromise
<1>8. RowsPromise
  BY <1>1, <1>7, BatchPromise
<1> QED BY <1>5, <1>6, <1>8, SettlesInv

\* MarkSent: the accepted batch is closed as sent.
LEMMA StepMarkSent ==
    ASSUME AlertInv, NEW c \in Cycles, MarkSent(c) PROVE AlertInv' /\ RowsPromise
<1> DEFINE a == cy[c].acct
           f(x) == [Closed(x, "sent") EXCEPT !.refused = FALSE]
           new == [k \in Signals |-> IF k \in cy[c].keys THEN f(row[a][k]) ELSE row[a][k]]
<1>1. /\ cy[c].pc = "accepted" /\ MayRecord(c) /\ NextAccount(c)
      /\ row' = [row EXCEPT ![a] = new]
      /\ digests' = [digests EXCEPT ![a] = @ + 1]
      /\ UNCHANGED <<env, job, copies, faults>>
  BY DEF MarkSent
<1>2. ASSUME NEW x \in Row
      PROVE  /\ f(x) \in Row /\ f(x).batch = x.batch /\ f(x).ctx = x.ctx
             /\ f(x).attempts = x.attempts /\ f(x).status = "sent"
  <2> DEFINE y == Closed(x, "sent")
  <2>1. y \in Row /\ y.status = "sent" /\ y.batch = x.batch /\ y.ctx = x.ctx
        /\ y.attempts = x.attempts
    BY ClosedFields DEF Statuses
  <2> HIDE DEF y
  <2>2. f(x) = [y EXCEPT !.refused = FALSE]
    BY DEF y
  <2> QED BY <2>1, <2>2 DEF Row
<1>3. WorldOK'
  BY <1>1, WorldSame DEF WorldOK, env
<1> HIDE DEF f
<1>5. cy[c].pc \in Answers /\ cy[c].pc \in Carrying /\ cy[c].keys # {}
  BY <1>1, WorldSame DEF Answers, Carrying, CyclesOK
<1>6. cy[c].keys \subseteq Signals /\ \A k \in Signals : row[a][k] \in Row
  BY <1>5, Carried
<1>7. /\ new \in [Signals -> Row]
      /\ \A k \in Signals \ cy[c].keys : new[k] = row[a][k]
      /\ \A k \in cy[c].keys : new[k] = f(row[a][k])
  BY <1>2, <1>6
<1> HIDE DEF new
<1>8. \A k \in cy[c].keys :
         /\ new[k].batch = row[a][k].batch /\ new[k].ctx = row[a][k].ctx
         /\ new[k].attempts = row[a][k].attempts
         /\ new[k].status \notin {"none", "suppressed"}
         /\ Phase(new[k]) \in {"live", "sent", "closed"}
         /\ Phase(new[k]) = "sent" => cy[c].pc = "accepted"
  BY <1>1, <1>2, <1>6, <1>7, PhaseOf
<1>9. \A j, k \in cy[c].keys : row[a][j] = row[a][k] => new[j] = new[k]
  BY <1>7
<1> QED BY <1>1, <1>3, <1>5, <1>7, <1>8, <1>9, RecordInv

\* MarkUnsuccessful: a refusal, a failure or a lost answer is recorded.
LEMMA StepMarkUnsuccessful ==
    ASSUME AlertInv, NEW c \in Cycles, MarkUnsuccessful(c) PROVE AlertInv' /\ RowsPromise
<1> DEFINE a == cy[c].acct
           status == IF cy[c].pc = "uncertain" THEN "unknown" ELSE "failed"
           again == cy[c].pc \in {"transient", "uncertain"} /\ cy[c].attempts < MaxAttempts
           bad == (cy[c].pc = "refused")
           f(x) == [Closed(x, status) EXCEPT !.retry = again, !.refused = bad]
           new == [k \in Signals |-> IF k \in cy[c].keys THEN f(row[a][k]) ELSE row[a][k]]
<1>1. /\ cy[c].pc \in {"refused", "rejected", "transient", "uncertain"}
      /\ MayRecord(c) /\ NextAccount(c)
      /\ row' = [row EXCEPT ![a] = new]
      /\ UNCHANGED <<env, digests, job, copies, faults>>
  BY DEF MarkUnsuccessful
<1>a. /\ status \in {"failed", "unknown"} /\ status \in Statuses
      /\ again \in BOOLEAN /\ bad \in BOOLEAN
  BY DEF Statuses
<1> HIDE DEF status, again, bad
<1>2. ASSUME NEW x \in Row
      PROVE  /\ f(x) \in Row /\ f(x).batch = x.batch /\ f(x).ctx = x.ctx
             /\ f(x).attempts = x.attempts /\ f(x).status \in {"failed", "unknown"}
  <2> DEFINE y == Closed(x, status)
  <2>1. y \in Row /\ y.status \in {"failed", "unknown"} /\ y.batch = x.batch /\ y.ctx = x.ctx
        /\ y.attempts = x.attempts
    BY <1>a, ClosedFields
  <2> HIDE DEF y
  <2>2. f(x) = [y EXCEPT !.retry = again, !.refused = bad]
    BY DEF y
  <2> QED BY <1>a, <2>1, <2>2 DEF Row
<1>3. WorldOK'
  BY <1>1, WorldSame
<1> HIDE DEF f
<1>5. cy[c].pc \in Answers /\ cy[c].pc \in Carrying /\ cy[c].keys # {}
  BY <1>1, WorldSame DEF Answers, Carrying, CyclesOK
<1>6. cy[c].keys \subseteq Signals /\ \A k \in Signals : row[a][k] \in Row
  BY <1>5, Carried
<1>7. /\ new \in [Signals -> Row]
      /\ \A k \in Signals \ cy[c].keys : new[k] = row[a][k]
      /\ \A k \in cy[c].keys : new[k] = f(row[a][k])
  BY <1>2, <1>6
<1> HIDE DEF new
<1>8. \A k \in cy[c].keys :
         /\ new[k].batch = row[a][k].batch /\ new[k].ctx = row[a][k].ctx
         /\ new[k].attempts = row[a][k].attempts
         /\ new[k].status \notin {"none", "suppressed"}
         /\ Phase(new[k]) \in {"live", "sent", "closed"}
         /\ Phase(new[k]) = "sent" => cy[c].pc = "accepted"
  BY <1>1, <1>2, <1>6, <1>7, PhaseOf
<1>9. \A j, k \in cy[c].keys : row[a][j] = row[a][k] => new[j] = new[k]
  BY <1>7
<1> QED BY <1>1, <1>3, <1>5, <1>7, <1>8, <1>9, RecordInv

\* The rows a new batch takes belong to none, and no batch has its name.
LEMMA FreshRows ==
    ASSUME AlertInv, NEW a \in Accounts, NEW fresh \in SUBSET Signals,
           fresh # {}, fresh \subseteq Eligible(a)
    PROVE  /\ fresh \subseteq Signals
           /\ \A k \in fresh : /\ row[a][k].batch = {} /\ row[a][k].attempts = 0
                               /\ Phase(row[a][k]) \in {"new", "live"}
           /\ \A k \in Signals : row[a][k] \in Row
           /\ \A k \in Signals \ fresh : row[a][k].batch # fresh
<1>1. /\ \A k \in Signals : row[a][k] \in Row
      /\ acct[a].open \subseteq Signals
  BY WorldSame DEF RowsOK, WorldOK, AccountRow
<1>2. fresh \subseteq Signals
  BY <1>1 DEF Eligible
<1>3. ASSUME NEW k \in fresh
      PROVE  /\ row[a][k].batch = {} /\ row[a][k].attempts = 0
             /\ Phase(row[a][k]) \in {"new", "live"}
  <2>1. row[a][k].batch = {} /\ row[a][k].status \in {"none", "queued"}
    BY <1>2 DEF Eligible, AlertInv, RowShape
  <2> QED BY <1>1, <1>2, <2>1, PhaseOf DEF AlertInv, RowShape
<1>4. \A k \in Signals \ fresh : row[a][k].batch # fresh
  <2>1. \A k \in Signals : row[a][k].batch # {} => k \in row[a][k].batch
    BY DEF AlertInv, RowShape
  <2> QED BY <2>1
<1> QED BY <1>1, <1>2, <1>3, <1>4

\* The rows of account a become `new', with a batch of the fresh ones.
Opens(a, fresh, new) ==
    /\ fresh # {} /\ fresh \subseteq Eligible(a)
    /\ new \in [Signals -> Row] /\ row' = [row EXCEPT ![a] = new]
    /\ \A k \in Signals \ fresh : new[k] = row[a][k]
    /\ \A k \in fresh : /\ new[k].batch = fresh /\ new[k].status \in {"queued", "sending"}
                        /\ new[k].attempts \in {0, 1}
    /\ \A j, k \in fresh : new[j] = new[k]

\* A new batch is written to rows of its own.
LEMMA FreshWrite ==
    ASSUME AlertInv, NEW a \in Accounts, NEW fresh \in SUBSET Signals, NEW new,
           Opens(a, fresh, new)
    PROVE  /\ RowsOK' /\ RowsKept /\ AttemptsGrow /\ RowShape' /\ NoPoisonBatch' /\ RowsPromise
           /\ \A k \in fresh : row'[a][k] = new[k] /\ row[a][k].attempts = 0
           /\ \A k \in Signals \ fresh : row'[a][k] = row[a][k] /\ row[a][k].batch # fresh
<1>0. /\ fresh # {} /\ fresh \subseteq Eligible(a)
      /\ new \in [Signals -> Row] /\ row' = [row EXCEPT ![a] = new]
      /\ \A k \in Signals \ fresh : new[k] = row[a][k]
      /\ \A k \in fresh : /\ new[k].batch = fresh /\ new[k].status \in {"queued", "sending"}
                          /\ new[k].attempts \in {0, 1}
      /\ \A j, k \in fresh : new[j] = new[k]
  BY DEF Opens
<1>1. /\ fresh \subseteq Signals
      /\ \A k \in fresh : /\ row[a][k].batch = {} /\ row[a][k].attempts = 0
                          /\ Phase(row[a][k]) \in {"new", "live"}
      /\ \A k \in Signals : row[a][k] \in Row
      /\ \A k \in Signals \ fresh : row[a][k].batch # fresh
  BY ONLY AlertInv, <1>0, FreshRows
<1>2. RowsOK
  BY WorldSame
<1>3. /\ \A k \in fresh : row'[a][k] = new[k]
      /\ \A k \in Signals \ fresh : row'[a][k] = row[a][k]
      /\ \A b \in Accounts \ {a}, k \in Signals : row'[b][k] = row[b][k]
  BY <1>0, <1>1, <1>2 DEF RowsOK
<1>4. RowsOK'
  BY <1>0, <1>1, <1>2 DEF RowsOK
<1>5. \A b \in Accounts, k \in Signals :
         ~(b = a /\ k \in fresh) => row'[b][k] = row[b][k] /\ row[b][k] \in Row
  BY <1>0, <1>2, <1>3 DEF RowsOK
<1>6. RowsKept
  <2> SUFFICES ASSUME NEW b \in Accounts, NEW k \in Signals
               PROVE  /\ row[b][k].batch # {} =>
                            /\ row'[b][k].batch = row[b][k].batch
                            /\ row'[b][k].ctx = row[b][k].ctx
                            /\ row[b][k].status = "suppressed" =>
                                  row'[b][k].status = "suppressed"
                      /\ row[b][k].batch = {} =>
                            \A j \in row'[b][k].batch : row[b][j].batch = {}
    BY DEF RowsKept
  <2>1. CASE b = a /\ k \in fresh
    BY <1>0, <1>1, <1>3, <2>1
  <2>2. CASE ~(b = a /\ k \in fresh)
    BY <1>0, <1>5, <2>2
  <2> QED BY <2>1, <2>2
<1>7. AttemptsGrow
  <2> SUFFICES ASSUME NEW b \in Accounts, NEW k \in Signals
               PROVE  row'[b][k].attempts >= row[b][k].attempts
    BY DEF AttemptsGrow
  <2>1. CASE b = a /\ k \in fresh
    BY <1>0, <1>1, <1>3, <2>1
  <2>2. CASE ~(b = a /\ k \in fresh)
    BY <1>0, <1>5, <2>2, Bounds DEF Row
  <2> QED BY <2>1, <2>2
<1>8. RowShape'
  <2> SUFFICES ASSUME NEW b \in Accounts, NEW s \in Signals
               PROVE  /\ row'[b][s].status = "none" => row'[b][s].batch = {}
                      /\ row'[b][s].batch = {} => /\ row'[b][s].status \in {"none", "queued"}
                                                 /\ row'[b][s].attempts = 0
                      /\ row'[b][s].batch # {} => s \in row'[b][s].batch
    BY DEF RowShape
  <2>1. CASE b = a /\ s \in fresh
    BY <1>0, <1>3, <2>1
  <2>2. CASE ~(b = a /\ s \in fresh)
    BY <1>0, <1>5, <2>2 DEF AlertInv, RowShape
  <2> QED BY <2>1, <2>2
<1>9. NoPoisonBatch'
  <2> SUFFICES ASSUME NEW b \in Accounts, NEW j \in Signals, NEW k \in Signals,
                      row'[b][j].batch # {}, row'[b][j].batch = row'[b][k].batch,
                      row'[b][j].status # "suppressed", row'[b][k].status # "suppressed"
               PROVE  row'[b][j] = row'[b][k]
    BY DEF NoPoisonBatch
  <2>1. CASE b = a /\ j \in fresh /\ k \in fresh
    BY <1>0, <1>3, <2>1
  <2>2. CASE b = a /\ j \in fresh /\ k \notin fresh
    BY <1>0, <1>1, <1>3, <2>2
  <2>3. CASE b = a /\ j \notin fresh /\ k \in fresh
    BY <1>0, <1>1, <1>3, <2>3
  <2>4. CASE ~(b = a /\ j \in fresh) /\ ~(b = a /\ k \in fresh)
    BY <1>0, <1>5, <2>4 DEF AlertInv, NoPoisonBatch
  <2> QED BY <2>1, <2>2, <2>3, <2>4
<1>10. RowsPromise
  <2> SUFFICES ASSUME NEW b \in Accounts, NEW k \in Signals PROVE RowPromise(b, k)
    BY DEF RowsPromise
  <2>1. CASE b = a /\ k \in fresh
    <3>1. Phase(new[k]) = "live"
      BY <1>0, <2>1, PhaseOf
    <3> QED BY <1>0, <1>1, <1>3, <2>1, <3>1 DEF RowPromise
  <2>2. CASE ~(b = a /\ k \in fresh)
    BY <1>0, <1>5, <2>2 DEF RowPromise
  <2> QED BY <2>1, <2>2
<1> QED BY <1>1, <1>3, <1>4, <1>6, <1>7, <1>8, <1>9, <1>10

\* QueueBatch: new signals become one batch, submitted at once if it may be.
LEMMA StepQueueBatch ==
    ASSUME AlertInv, NEW c \in Cycles, NEW fresh \in SUBSET Signals, QueueBatch(c, fresh)
    PROVE  AlertInv' /\ RowsPromise
<1> DEFINE a == cy[c].acct
           queued == QueuedRow(fresh, cy[c].ctx)
           x == IF url THEN Sending(queued) ELSE queued
           v == [cy[c] EXCEPT !.pc = "send", !.keys = fresh, !.batch = fresh,
                              !.bctx = cy[c].ctx, !.attempts = 1]
<1>1. /\ cy[c].pc = "decide" /\ fresh # {} /\ fresh \subseteq Eligible(a)
      /\ row' = [row EXCEPT ![a] = [k \in Signals |-> IF k \notin fresh THEN row[a][k] ELSE x]]
      /\ UNCHANGED <<env, digests, job, copies, faults>>
      /\ url => cy' = [cy EXCEPT ![c] = v]
      /\ ~url => NextAccount(c)
  BY DEF QueueBatch
<1>2. cy[c] \in CycleRow /\ a \in Accounts
  BY <1>1, WorldSame DEF CyclesOK
<1>3. /\ queued \in Row /\ queued.status = "queued" /\ queued.batch = fresh
      /\ queued.ctx = cy[c].ctx /\ queued.attempts = 0
  BY <1>2, NoRowFields DEF CycleRow
<1>4. /\ Sending(queued) \in Row /\ Sending(queued).status = "sending"
      /\ Sending(queued).batch = fresh /\ Sending(queued).ctx = cy[c].ctx
      /\ Sending(queued).attempts = 1
  <2> HIDE DEF queued
  <2>1. queued.attempts < MaxAttempts
    BY <1>3, Bounds
  <2> QED BY <1>3, <2>1, SendingFields
<1> HIDE DEF queued
<1>5. /\ x \in Row /\ x.batch = fresh /\ x.status \in {"queued", "sending"}
      /\ x.attempts \in {0, 1} /\ x.ctx = cy[c].ctx /\ (url => x.attempts = 1)
  BY <1>3, <1>4
<1> DEFINE new == [k \in Signals |-> IF k \notin fresh THEN row[a][k] ELSE x]
<1>a. row' = [row EXCEPT ![a] = new]
  BY <1>1
<1> HIDE DEF x
<1>b. /\ new \in [Signals -> Row] /\ \A k \in Signals \ fresh : new[k] = row[a][k]
      /\ \A k \in fresh : new[k] = x
  BY <1>2, <1>5, WorldSame DEF RowsOK
<1>d. /\ \A k \in fresh : /\ new[k].batch = fresh /\ new[k].status \in {"queued", "sending"}
                          /\ new[k].attempts \in {0, 1}
      /\ \A j, k \in fresh : new[j] = new[k]
  BY <1>5, <1>b
<1> HIDE DEF new
<1>c. fresh # {} /\ fresh \subseteq Eligible(a)
  BY <1>1
<1>e. Opens(a, fresh, new)
  BY <1>a, <1>b, <1>c, <1>d DEF Opens
<1>6. /\ RowsOK' /\ RowsKept /\ AttemptsGrow /\ RowShape' /\ NoPoisonBatch' /\ RowsPromise
      /\ \A k \in fresh : row'[a][k] = new[k] /\ row[a][k].attempts = 0
      /\ \A k \in Signals \ fresh : row'[a][k] = row[a][k] /\ row[a][k].batch # fresh
  BY <1>2, <1>e, FreshWrite
<1>7. CASE ~url
  <2>1. LetsGo(c) /\ JobOK' /\ WorldOK'
    BY <1>1, <1>7, Moves, WorldSame
  <2> QED BY <1>1, <1>6, <2>1, SettlesInv
<1>8. CASE url
  <2>1. /\ v \in CycleRow /\ v.pc = "send" /\ v.keys = fresh /\ v.acct = a
        /\ v.batch = fresh /\ v.bctx = cy[c].ctx /\ v.ctx = cy[c].ctx
    BY <1>2, Bounds DEF CycleRow
  <2>2. cy' = [cy EXCEPT ![c] = v]
    BY <1>1, <1>8
  <2> HIDE DEF v
  <2>3. /\ CyclesOK' /\ \A d \in Cycles \ {c} : cy'[d] = cy[d]
        /\ cy'[c] = v
    BY <1>1, <1>2, <2>1, <2>2, WorldSame DEF CyclesOK, Answers
  <2>4. Carries(c)'
    <3>1. \A k \in fresh : row'[a][k].batch = fresh /\ row'[a][k].ctx = cy[c].ctx
      BY <1>5, <1>6, <1>b
    <3>2. \A k \in Signals \ fresh : row'[a][k].batch # fresh
      BY <1>6
    <3> QED BY ZenonT(60), <1>1, <2>1, <2>3, <3>1, <3>2 DEF Carries
  <2>5. \A k \in fresh : row'[a][k].attempts = row[a][k].attempts + 1
    BY <1>5, <1>6, <1>8, <1>b
  <2>6. /\ cy'[c].pc = "send"
        /\ \A k \in cy'[c].keys :
              row'[cy'[c].acct][k].attempts = row[cy'[c].acct][k].attempts + 1
    BY <2>1, <2>3, <2>5
  <2>7. UNCHANGED <<env, digests, job, copies, faults>>
    BY <1>1
  <2> QED BY ONLY AlertInv, <1>6, <2>3, <2>4, <2>6, <2>7, EntersInv
<1> QED BY <1>7, <1>8

\* What a read brings back: the due rows of one batch, which agree.
LEMMA DueRows ==
    ASSUME AlertInv, NEW a \in Accounts, NEW s \in Signals, Due(row[a][s])
    PROVE  /\ s \in DueWith(a, s) /\ DueWith(a, s) \subseteq Signals
           /\ row[a][s] \in Row /\ row[a][s].batch # {}
           /\ row[a][s].status \in {"queued", "sending", "failed", "unknown"}
           /\ \A k \in DueWith(a, s) : row[a][k] = row[a][s]
           /\ \A k \in Signals \ DueWith(a, s) :
                 row[a][k].batch = row[a][s].batch => row[a][k].status = "suppressed"
           /\ Max({row[a][j].attempts : j \in DueWith(a, s)}) = row[a][s].attempts
<1>1. \A k \in Signals : row[a][k] \in Row
  BY WorldSame DEF RowsOK
<1>2. \A k \in Signals : Due(row[a][k]) => row[a][k].batch # {} /\ row[a][k].status # "suppressed"
  BY DEF Due
<1>3. s \in DueWith(a, s) /\ DueWith(a, s) \subseteq Signals
  BY DEF DueWith
<1>4. \A k \in DueWith(a, s) : row[a][k] = row[a][s]
  BY <1>2 DEF DueWith, AlertInv, NoPoisonBatch
<1>5. ASSUME NEW k \in Signals \ DueWith(a, s), row[a][k].batch = row[a][s].batch
      PROVE  row[a][k].status = "suppressed"
  <2>1. ~Due(row[a][k])
    BY <1>5 DEF DueWith
  <2> QED BY <1>2, <1>5, <2>1 DEF AlertInv, NoPoisonBatch
<1>6. {row[a][j].attempts : j \in DueWith(a, s)} = {row[a][s].attempts}
  BY <1>3, <1>4
<1>7. \A n \in Nat : Max({n}) = n
  BY DEF Max
<1>8. row[a][s].attempts \in Nat
  BY <1>1, Bounds DEF Row
<1> QED BY <1>1, <1>2, <1>3, <1>4, <1>5, <1>6, <1>7, <1>8 DEF Due

\* A step that writes neither rows nor copies and begins no submission.
LEMMA MovesInv ==
    ASSUME AlertInv, NEW c \in Cycles, CyclesOK', \A d \in Cycles \ {c} : cy'[d] = cy[d],
           cy'[c].pc \notin {"send", "read"}, Carries(c)',
           UNCHANGED <<row, copies>>, JobOK', WorldOK'
    PROVE  AlertInv' /\ RowsPromise
<1>1. /\ RowsOK' /\ CopiesOK' /\ RowsOK /\ CopiesOK /\ AttemptsGrow
  BY WorldSame DEF RowsOK, CopiesOK, AttemptsGrow, Row
<1>2. TypeOK'
  BY <1>1 DEF CyclesOK, RowsOK, JobOK, CopiesOK, WorldOK, TypeOK, CycleRow, Row, AccountRow
<1>3. RowsKept /\ RowShape' /\ CopiesGrow
  BY <1>1, RowsUnchanged, CopiesUnchanged DEF AlertInv
<1>4. NoPoisonBatch'
  BY DEF AlertInv, NoPoisonBatch
<1>5. \A d \in Cycles : Carries(d)'
  BY <1>1, <1>3, OthersCarry
<1>6. Counted'
  BY <1>1, CountedIdle
<1>7. ReadsEmpty'
  BY DEF AlertInv, ReadsEmpty
<1> QED BY <1>2, <1>3, <1>4, <1>5, <1>6, <1>7, RowsPromiseSame DEF AlertInv

\* Read: a cycle takes up the batch the account has open, or none.
LEMMA StepRead ==
    ASSUME AlertInv, NEW c \in Cycles, Read(c) PROVE AlertInv' /\ RowsPromise
<1> DEFINE a == cy[c].acct
<1>1. cy[c].pc = "read" /\ UNCHANGED <<env, row, digests, job, copies, faults>>
  BY DEF Read
<1>2. /\ cy[c] \in CycleRow /\ a \in Accounts /\ cy[c].keys = {} /\ CyclesOK
      /\ JobOK' /\ WorldOK'
      /\ acct[a] \in AccountRow
  BY <1>1, WorldSame DEF CyclesOK, AlertInv, ReadsEmpty, WorldOK
<1>3. CASE AbortCycle(c)
  BY <1>1, <1>2, <1>3, Moves, LetsGoInv, RowsPromiseSame
<1>4. CASE cy' = [cy EXCEPT ![c] = NoBatch(cy[c], a)]
  <2> DEFINE v == NoBatch(cy[c], a)
  <2>1. v \in CycleRow /\ v.pc = "decide" /\ v.keys = {} /\ v.acct = a
    BY <1>2 DEF NoBatch, CycleRow, AccountRow
  <2> HIDE DEF v
  <2>2. cy'[c] = v /\ CyclesOK' /\ \A d \in Cycles \ {c} : cy'[d] = cy[d]
    BY <1>2, <1>4, <2>1 DEF CyclesOK, Answers, v
  <2>3. Carries(c)' /\ cy'[c].pc \notin {"send", "read"}
    BY <2>1, <2>2 DEF Carries
  <2> QED BY <1>1, <1>2, <2>2, <2>3, MovesInv
<1>5. ASSUME NEW s \in Signals, Due(row[a][s]),
             cy' = [cy EXCEPT ![c] = Snapshot(cy[c], a, DueWith(a, s), s)]
      PROVE  AlertInv' /\ RowsPromise
  <2> DEFINE v == Snapshot(cy[c], a, DueWith(a, s), s)
  <2>1. /\ s \in DueWith(a, s) /\ DueWith(a, s) \subseteq Signals
        /\ row[a][s] \in Row /\ row[a][s].batch # {}
        /\ row[a][s].status \in {"queued", "sending", "failed", "unknown"}
        /\ \A k \in DueWith(a, s) : row[a][k] = row[a][s]
        /\ \A k \in Signals \ DueWith(a, s) :
              row[a][k].batch = row[a][s].batch => row[a][k].status = "suppressed"
        /\ Max({row[a][j].attempts : j \in DueWith(a, s)}) = row[a][s].attempts
    BY ZenonT(60), <1>2, <1>5, DueRows
  <2>2. /\ v = [cy[c] EXCEPT !.pc = "decide", !.keys = DueWith(a, s),
                  !.entitled = acct[a].entitled, !.notify = acct[a].notify,
                  !.ctx = acct[a].ctx, !.batch = row[a][s].batch, !.bctx = row[a][s].ctx,
                  !.status = row[a][s].status, !.attempts = row[a][s].attempts]
    BY <2>1 DEF Snapshot
  <2> HIDE DEF v
  <2>3. /\ v \in CycleRow /\ v.pc = "decide" /\ v.keys = DueWith(a, s) /\ v.acct = a
        /\ v.batch = row[a][s].batch /\ v.bctx = row[a][s].ctx
        /\ v.status = row[a][s].status
    BY <1>2, <2>1, <2>2 DEF CycleRow, AccountRow, Row
  <2>4. cy'[c] = v /\ CyclesOK' /\ \A d \in Cycles \ {c} : cy'[d] = cy[d]
    BY <1>2, <1>5, <2>3 DEF CyclesOK, Answers, v
  <2>5. Carries(c)' /\ cy'[c].pc \notin {"send", "read"}
    BY <1>1, <2>1, <2>3, <2>4 DEF Carries
  <2> QED BY <1>1, <1>2, <2>4, <2>5, MovesInv
<1> QED BY <1>2, <1>3, <1>4, <1>5 DEF Read, CyclesOK

\* The answer of the mail server, with or without a copy delivered.
LEMMA StepSmtpSend ==
    ASSUME AlertInv, NEW c \in Cycles, SmtpSend(c)
    PROVE  AlertInv' /\ RowsPromise
<1> DEFINE a == cy[c].acct
<1>1. /\ cy[c].pc = "send" /\ UNCHANGED <<env, row, digests, job>>
      /\ UNCHANGED faults \/ Fault
  BY DEF SmtpSend
<1>2. /\ cy[c] \in CycleRow /\ a \in Accounts /\ CyclesOK /\ cy[c].keys # {}
      /\ cy[c].keys \subseteq Signals /\ JobOK' /\ WorldOK'
  BY <1>1, WorldSame, FaultType DEF CyclesOK, CycleRow, WorldOK, env
<1>3. CASE AbortCycle(c) /\ UNCHANGED copies
  BY <1>1, <1>2, <1>3, Moves, LetsGoInv, RowsPromiseSame
<1>4. ASSUME NEW pc \in Answers, Answered(c, pc)
      PROVE  /\ CyclesOK' /\ \A d \in Cycles \ {c} : cy'[d] = cy[d]
             /\ cy'[c].pc = pc /\ cy'[c].pc \notin {"send", "read", "decide"}
             /\ cy'[c].keys = cy[c].keys /\ cy'[c].acct = a
             /\ cy'[c].batch = cy[c].batch /\ cy'[c].bctx = cy[c].bctx
             /\ cy'[c].ctx = cy[c].ctx
  <2> DEFINE v == [cy[c] EXCEPT !.pc = pc]
  <2>1. /\ v \in CycleRow /\ v.pc = pc /\ v.keys = cy[c].keys /\ v.acct = a
        /\ v.batch = cy[c].batch /\ v.bctx = cy[c].bctx /\ v.ctx = cy[c].ctx
    BY <1>2 DEF CycleRow
  <2>2. cy' = [cy EXCEPT ![c] = v]
    BY <1>4 DEF Answered
  <2> HIDE DEF v
  <2>3. cy'[c] = v /\ CyclesOK' /\ \A d \in Cycles \ {c} : cy'[d] = cy[d]
    BY <1>2, <2>1, <2>2 DEF CyclesOK, Answers
  <2> QED BY <2>1, <2>3 DEF Answers
<1>5. /\ cy[c].batch # {} /\ cy[c].bctx = cy[c].ctx
      /\ \A k \in cy[c].keys : row[a][k].batch = cy[c].batch /\ row[a][k].ctx = cy[c].bctx
      /\ \A k \in Signals \ cy[c].keys :
            row[a][k].batch = cy[c].batch => row[a][k].status = "suppressed"
  BY <1>1, <1>2 DEF AlertInv, Carries, Carrying
<1>6. ASSUME NEW pc \in {"refused", "rejected", "transient", "uncertain"},
             Answered(c, pc), UNCHANGED copies
      PROVE  AlertInv' /\ RowsPromise
  <2>1. pc \in Answers /\ pc # "accepted"
    BY DEF Answers
  <2>2. Carries(c)'
    BY <1>1, <1>4, <1>5, <1>6, <2>1 DEF Carries
  <2> QED BY <1>1, <1>2, <1>4, <1>6, <2>1, <2>2, MovesInv
<1>7. ASSUME NEW pc \in {"accepted", "uncertain"}, Answered(c, pc), Delivered(c)
      PROVE  AlertInv' /\ RowsPromise
  <2>1. pc \in Answers
    BY DEF Answers
  <2>2. \A b \in Accounts, k \in Signals :
           copies'[b][k] = IF b = cy[c].acct /\ k \in cy[c].keys
                             THEN copies[b][k] + 1 ELSE copies[b][k]
    BY <1>2, <1>7, WorldSame DEF Delivered, CopiesOK
  <2>3. CopiesOK' /\ CopiesOK /\ RowsOK /\ RowsOK' /\ AttemptsGrow
    BY <1>1, <1>2, <1>7, WorldSame DEF Delivered, CopiesOK, RowsOK, AttemptsGrow, Row
  <2>4. CopiesGrow
    BY <2>2, <2>3 DEF CopiesGrow, CopiesOK
  <2>5. \A k \in cy[c].keys : copies'[a][k] > 0
    BY <1>2, <2>2, <2>3 DEF CopiesOK
  <2>6. Carries(c)'
    BY <1>1, <1>4, <1>5, <1>7, <2>1, <2>5 DEF Carries
  <2>7. TypeOK'
    BY <1>2, <1>4, <1>7, <2>1, <2>3 DEF CyclesOK, RowsOK, JobOK, CopiesOK, WorldOK,
       TypeOK, CycleRow, Row, AccountRow
  <2>8. RowsKept /\ RowShape' /\ NoPoisonBatch'
    BY <1>1, RowsUnchanged DEF AlertInv, NoPoisonBatch
  <2>9. \A d \in Cycles : Carries(d)'
    BY <1>4, <1>7, <2>1, <2>3, <2>4, <2>6, <2>8, OthersCarry
  <2>10. Counted'
    BY <1>1, <1>4, <1>7, <2>1, <2>2, CountedLeave
  <2>11. ReadsEmpty'
    BY <1>4, <1>7, <2>1 DEF AlertInv, ReadsEmpty
  <2> QED BY <1>1, <2>7, <2>8, <2>9, <2>10, <2>11, RowsPromiseSame DEF AlertInv
<1> QED BY <1>3, <1>6, <1>7 DEF SmtpSend

\* The steps with which a cycle goes on, ends, starts or dies.
LEMMA StepMoves ==
    ASSUME AlertInv, NEW c \in Cycles,
           \/ NothingToDo(c) \/ Blocked(c) \/ StateConflict(c) \/ PersistenceFails(c)
           \/ Release(c) \/ Start(c) \/ Crash(c)
    PROVE  AlertInv' /\ RowsPromise
<1>1. UNCHANGED <<row, copies>>
  BY DEF NothingToDo, Blocked, StateConflict, PersistenceFails, Release, Start, Crash, Retrying
<1>2. LetsGo(c)
  <2>1. CASE NothingToDo(c) \/ Blocked(c) \/ PersistenceFails(c)
    <3>1. cy[c].pc \notin {"idle", "release"} /\ NextAccount(c)
      BY <2>1 DEF NothingToDo, Blocked, PersistenceFails, Retrying
    <3> QED BY <3>1, Moves, WorldSame
  <2>2. CASE StateConflict(c)
    BY <2>2, Moves, WorldSame DEF StateConflict
  <2>3. CASE Release(c) \/ Crash(c)
    BY <2>3, Moves, WorldSame DEF Release, Crash
  <2>4. CASE Start(c)
    BY <2>4, Moves, WorldSame DEF Start
  <2> QED BY <2>1, <2>2, <2>3, <2>4
<1>3. JobOK'
  <2>1. CASE Release(c)
    BY <2>1, WorldSame DEF Release, JobOK
  <2>2. CASE Start(c)
    BY <2>2, WorldSame, Bounds DEF Start, JobOK
  <2>3. CASE ~Release(c) /\ ~Start(c)
    BY <2>3, WorldSame DEF NothingToDo, Blocked, StateConflict, PersistenceFails, Crash
  <2> QED BY <2>1, <2>2, <2>3
<1>4. WorldOK'
  <2>1. UNCHANGED <<env, digests>> /\ (UNCHANGED faults \/ Fault)
    BY DEF NothingToDo, Blocked, StateConflict, PersistenceFails, Release, Start, Crash
  <2> QED BY <2>1, WorldSame, FaultType DEF WorldOK, env
<1> QED BY <1>1, <1>2, <1>3, <1>4, LetsGoInv, RowsPromiseSame

\* No cycle moves and no mail is delivered.
LEMMA StillInv ==
    ASSUME AlertInv, UNCHANGED <<cy, copies>>, JobOK', WorldOK',
           RowsOK', RowsKept, AttemptsGrow, RowShape', NoPoisonBatch'
    PROVE  AlertInv'
<1>1. /\ CyclesOK /\ RowsOK /\ CopiesOK /\ CopiesOK' /\ CopiesGrow
  BY WorldSame, CopiesUnchanged
<1>2. TypeOK'
  BY <1>1 DEF CyclesOK, RowsOK, JobOK, CopiesOK, WorldOK, TypeOK, CycleRow, Row, AccountRow
<1>3. ASSUME NEW d \in Cycles PROVE Carries(d)'
  BY <1>1, CarriesKept DEF AlertInv
<1>4. Counted'
  <2> SUFFICES ASSUME NEW a \in Accounts, NEW k \in Signals
               PROVE  copies[a][k] + Cardinality(Pending(a, k)') <= row'[a][k].attempts
    BY DEF Counted
  <2>1. Pending(a, k)' = Pending(a, k)
    BY DEF Pending
  <2>2. copies[a][k] \in Nat /\ row[a][k].attempts \in Nat /\ row'[a][k].attempts \in Nat
    BY <1>1 DEF RowsOK, CopiesOK, Row
  <2>3. row'[a][k].attempts >= row[a][k].attempts
    BY DEF AttemptsGrow
  <2>4. copies[a][k] + Cardinality(Pending(a, k)) <= row[a][k].attempts
    BY DEF AlertInv, Counted
  <2> QED BY <2>1, <2>2, <2>3, <2>4, PendingFinite
<1>5. ReadsEmpty'
  BY DEF AlertInv, ReadsEmpty
<1> QED BY <1>2, <1>3, <1>4, <1>5 DEF AlertInv

\* A step that touches neither rows nor cycles nor copies.
LEMMA StillRows ==
    ASSUME AlertInv, UNCHANGED <<row, cy, copies>>, JobOK', WorldOK'
    PROVE  AlertInv' /\ RowsPromise
<1>1. RowsOK' /\ RowsKept /\ AttemptsGrow /\ RowShape' /\ NoPoisonBatch'
  BY WorldSame, RowsUnchanged DEF AlertInv, RowsOK, AttemptsGrow, Row, NoPoisonBatch
<1> QED BY <1>1, StillInv, RowsPromiseSame

\* A lease or a backoff runs out for a whole batch at once.
LEMMA StepBatchComesDue ==
    ASSUME AlertInv, NEW a \in Accounts, NEW s \in Signals, BatchComesDue(a, s)
    PROVE  AlertInv' /\ RowsPromise
<1> DEFINE b == row[a][s].batch
           hit(x) == x.batch = b /\ Timed(x)
           new == [k \in Signals |-> IF hit(row[a][k]) THEN [row[a][k] EXCEPT !.due = TRUE]
                                                       ELSE row[a][k]]
<1>1. /\ row' = [row EXCEPT ![a] = new] /\ UNCHANGED <<env, digests, job, cy, copies>>
      /\ UNCHANGED faults \/ Fault
  BY DEF BatchComesDue
<1>2. RowsOK /\ \A k \in Signals : row[a][k] \in Row
  BY WorldSame DEF RowsOK
<1>3. ASSUME NEW x \in Row
      PROVE  LET y == [x EXCEPT !.due = TRUE]
             IN  /\ y \in Row /\ y.batch = x.batch /\ y.ctx = x.ctx /\ y.status = x.status
                 /\ y.attempts = x.attempts /\ y.retry = x.retry
  BY DEF Row
<1>4. \A k \in Signals :
         /\ new[k] \in Row /\ new[k].batch = row[a][k].batch /\ new[k].ctx = row[a][k].ctx
         /\ new[k].status = row[a][k].status /\ new[k].attempts = row[a][k].attempts
         /\ new[k].retry = row[a][k].retry
  BY <1>2, <1>3
<1>5. \A j, k \in Signals : row[a][j] = row[a][k] => new[j] = new[k]
  OBVIOUS
<1>6. new \in [Signals -> Row]
  BY <1>4
<1> HIDE DEF new, hit
<1>7. /\ RowsOK' /\ \A k \in Signals : row'[a][k] = new[k]
      /\ \A e \in Accounts \ {a}, k \in Signals : row'[e][k] = row[e][k]
  BY <1>1, <1>2, <1>6 DEF RowsOK
<1>8. \A e \in Accounts, k \in Signals :
         /\ row'[e][k] \in Row /\ row[e][k] \in Row
         /\ row'[e][k].batch = row[e][k].batch /\ row'[e][k].ctx = row[e][k].ctx
         /\ row'[e][k].status = row[e][k].status /\ row'[e][k].attempts = row[e][k].attempts
         /\ row'[e][k].retry = row[e][k].retry
  BY <1>2, <1>4, <1>7 DEF RowsOK
<1>9. \A e \in Accounts, j, k \in Signals : row[e][j] = row[e][k] => row'[e][j] = row'[e][k]
  BY <1>5, <1>7
<1>10. RowsKept /\ RowShape'
  BY <1>8 DEF RowsKept, RowShape, AlertInv
<1>11. AttemptsGrow
  BY <1>8, Bounds DEF AttemptsGrow, Row
<1>12. NoPoisonBatch'
  BY <1>8, <1>9 DEF NoPoisonBatch, AlertInv
<1>13. RowsPromise
  BY <1>8 DEF RowsPromise, RowPromise, Phase
<1>14. JobOK' /\ WorldOK'
  BY <1>1, WorldSame, FaultType DEF WorldOK, env
<1> QED BY <1>1, <1>7, <1>10, <1>11, <1>12, <1>13, <1>14, StillInv

\* Changes of the world leave rows, cycles and copies alone.
LEMMA StepWorld ==
    ASSUME AlertInv,
           \/ \E a \in Accounts : IntervalElapses(a)
           \/ \E a \in Accounts, s \in Signals : ToggleSignal(a, s)
           \/ \E a \in Accounts, e, n \in BOOLEAN, x \in Contexts : ChangeAccount(a, e, n, x)
           \/ JobLeaseExpires \/ ToggleUrl \/ UNCHANGED vars
    PROVE  AlertInv' /\ RowsPromise
<1>1. JobOK /\ WorldOK
  BY WorldSame
<1>2. ASSUME NEW a \in Accounts, IntervalElapses(a) PROVE JobOK' /\ WorldOK'
  BY <1>1, <1>2 DEF IntervalElapses, JobOK, WorldOK, env
<1>3. ASSUME NEW a \in Accounts, NEW s \in Signals, ToggleSignal(a, s) PROVE JobOK' /\ WorldOK'
  <2> DEFINE open == (acct[a].open \ {s}) \cup ({s} \ acct[a].open)
             y == [acct[a] EXCEPT !.open = open]
  <2>1. acct[a] \in AccountRow /\ open \in SUBSET Signals
    BY <1>1 DEF WorldOK, AccountRow
  <2>2. acct' = [acct EXCEPT ![a] = y]
    BY <1>3 DEF ToggleSignal
  <2> HIDE DEF open
  <2>3. y \in AccountRow
    BY <2>1 DEF AccountRow
  <2> HIDE DEF y
  <2> QED BY <1>1, <1>3, <2>2, <2>3, FaultType DEF ToggleSignal, JobOK, WorldOK
<1>4. ASSUME NEW a \in Accounts, NEW e \in BOOLEAN, NEW n \in BOOLEAN, NEW x \in Contexts,
             ChangeAccount(a, e, n, x)
      PROVE  JobOK' /\ WorldOK'
  <2> DEFINE y == [acct[a] EXCEPT !.entitled = e, !.notify = n, !.ctx = x]
  <2>1. acct[a] \in AccountRow
    BY <1>1 DEF WorldOK
  <2>2. acct' = [acct EXCEPT ![a] = y]
    BY <1>4 DEF ChangeAccount
  <2>3. y \in AccountRow
    BY <2>1 DEF AccountRow
  <2> HIDE DEF y
  <2> QED BY <1>1, <1>4, <2>2, <2>3, FaultType DEF ChangeAccount, JobOK, WorldOK
<1>5. ASSUME JobLeaseExpires PROVE JobOK' /\ WorldOK'
  BY <1>1, <1>5, FaultType DEF JobLeaseExpires, JobOK, WorldOK, env
<1>6. ASSUME ToggleUrl PROVE JobOK' /\ WorldOK'
  BY <1>1, <1>6, FaultType DEF ToggleUrl, JobOK, WorldOK
<1>7. UNCHANGED vars => JobOK' /\ WorldOK'
  BY <1>1 DEF vars, JobOK, WorldOK
<1>8. UNCHANGED <<row, cy, copies>>
  BY DEF IntervalElapses, ToggleSignal, ChangeAccount, JobLeaseExpires, ToggleUrl, vars
<1> QED BY <1>2, <1>3, <1>4, <1>5, <1>6, <1>7, <1>8, StillRows

-----------------------------------------------------------------------------
(* The theorems.                                                            *)

\* The rows of earlier releases are where the invariant wants them.
LEMMA AlertInit == ASSUME Init PROVE AlertInv
<1>1. /\ acct \in [Accounts -> AccountRow] /\ url = TRUE /\ changes = 0 /\ faults = 0
      /\ digests = [a \in Accounts |-> 0] /\ job = [owner |-> Nil, live |-> FALSE]
      /\ cy = [c \in Cycles |-> Idle]
      /\ copies = [a \in Accounts |-> [s \in Signals |-> 0]]
  BY DEF Init, AccountRow
<1>2. \A s \in Signals : \A x \in LegacyRows(s) :
         /\ x \in Row /\ x.attempts = 0
         /\ \/ x.batch = {} /\ x.status \in {"none", "queued"}
            \/ x.batch = {s} /\ x.status = "queued"
  <2> SUFFICES ASSUME NEW s \in Signals, NEW x \in LegacyRows(s)
               PROVE  /\ x \in Row /\ x.attempts = 0
                      /\ \/ x.batch = {} /\ x.status \in {"none", "queued"}
                         \/ x.batch = {s} /\ x.status = "queued"
    OBVIOUS
  <2>1. {} \in SUBSET Signals /\ {s} \in SUBSET Signals /\ Nil \in Contexts \cup {Nil}
    OBVIOUS
  <2> QED BY <2>1, NoRowFields DEF LegacyRows
<1>3. /\ row \in [Accounts -> [Signals -> UNION {LegacyRows(s) : s \in Signals}]]
      /\ \A a \in Accounts, s \in Signals : row[a][s] \in LegacyRows(s)
  BY DEF Init
<1>4. RowsOK
  BY <1>2, <1>3 DEF RowsOK
<1>5. JobOK /\ CopiesOK /\ WorldOK
  BY <1>1 DEF JobOK, CopiesOK, WorldOK
<1>6. CyclesOK
  BY <1>1, IdleFields DEF CyclesOK, Answers
<1>7. RowShape
  BY <1>2, <1>3 DEF RowShape
<1>8. NoPoisonBatch
  <2> SUFFICES ASSUME NEW a \in Accounts, NEW j \in Signals, NEW k \in Signals,
                      row[a][j].batch # {}, row[a][j].batch = row[a][k].batch
               PROVE  row[a][j] = row[a][k]
    BY DEF NoPoisonBatch
  <2>1. row[a][j].batch = {j} /\ row[a][k].batch = {k}
    BY <1>2, <1>3
  <2> QED BY <2>1
<1>9. \A c \in Cycles : Carries(c)
  BY <1>1, IdleFields DEF Carries
<1>10. Counted
  <2>1. ASSUME NEW a \in Accounts, NEW k \in Signals
        PROVE  copies[a][k] = 0 /\ row[a][k].attempts = 0 /\ Pending(a, k) = {}
    BY <1>1, <1>2, <1>3, IdleFields DEF Pending
  <2> QED BY <2>1, FS_EmptySet DEF Counted
<1>11. ReadsEmpty
  BY <1>1, IdleFields DEF ReadsEmpty
<1> QED BY <1>4, <1>5, <1>6, <1>7, <1>8, <1>9, <1>10, <1>11, TypeParts DEF AlertInv

\* Every step keeps the invariant and the promise.
LEMMA AlertStep == ASSUME AlertInv, [Next]_vars PROVE AlertInv' /\ RowsPromise
<1>1. ASSUME NEW c \in Cycles, Start(c) \/ CycleStep(c) \/ Crash(c)
      PROVE  AlertInv' /\ RowsPromise
  <2>1. ASSUME NEW fresh \in SUBSET Signals, QueueBatch(c, fresh)
        PROVE  AlertInv' /\ RowsPromise
    BY <2>1, StepQueueBatch
  <2> QED BY <1>1, <2>1, StepMoves, StepRead, StepSuppressBatch, StepAllGone, StepExhaust,
             StepRetryBatch, StepSmtpSend, StepMarkSent, StepMarkUnsuccessful DEF CycleStep
<1>2. ASSUME NEW a \in Accounts, NEW s \in Signals, BatchComesDue(a, s)
      PROVE  AlertInv' /\ RowsPromise
  BY <1>2, StepBatchComesDue
<1> QED BY <1>1, <1>2, StepWorld DEF Next

\* The invariant holds always.
LEMMA AlertAlways == Spec => []AlertInv
<1>1. Init => AlertInv
  BY AlertInit
<1>2. AlertInv /\ [Next]_vars => AlertInv'
  BY AlertStep
<1> QED BY <1>1, <1>2, PTL DEF Spec

\* Rows, accounts, leases and cycles stay well formed, and no attempt counter
\* passes the budget (delivery.py, job.py, lease.py), for any number of
\* accounts, signals and overlapping cycles.
THEOREM AlertTypeOK == Spec => []TypeOK
<1>1. AlertInv => TypeOK
  BY DEF AlertInv
<1> QED BY <1>1, AlertAlways, PTL

\* next_due_batch never meets a batch whose rows disagree, so no batch keeps
\* the accounts behind it from being visited.
THEOREM AlertNoPoisonBatch == Spec => []NoPoisonBatch
<1>1. AlertInv => NoPoisonBatch
  BY DEF AlertInv
<1> QED BY <1>1, AlertAlways, PTL

\* A mail under way goes to the recipient context its signals were queued for,
\* although the context is compared in one transaction and the mail submitted
\* after it.
THEOREM AlertMailedUnderItsContext == Spec => []MailedUnderItsContext
<1>1. AlertInv => MailedUnderItsContext
  <2> SUFFICES ASSUME AlertInv, NEW c \in Cycles, cy[c].pc \in {"send"} \cup Answers,
                      NEW k \in cy[c].keys
               PROVE  row[cy[c].acct][k].ctx = cy[c].ctx
    BY DEF MailedUnderItsContext
  <2>1. cy[c].pc \in Carrying /\ cy[c].pc # "decide" /\ cy[c].keys # {}
    BY DEF Carrying, Answers
  <2> QED BY <2>1 DEF AlertInv, Carries
<1> QED BY <1>1, AlertAlways, PTL

\* A step delivers at most one copy of each signal.
LEMMA CopiesStep ==
    ASSUME AlertInv, [Next]_vars
    PROVE  \A a \in Accounts, k \in Signals : copies'[a][k] \in {copies[a][k], copies[a][k] + 1}
<1>1. ASSUME NEW c \in Cycles, Delivered(c)
      PROVE  \A a \in Accounts, k \in Signals :
                copies'[a][k] \in {copies[a][k], copies[a][k] + 1}
  BY <1>1, WorldSame DEF Delivered, CopiesOK
<1>2. (\E c \in Cycles : Delivered(c)) \/ UNCHANGED copies
  <2>1. ASSUME NEW c \in Cycles, Start(c) \/ CycleStep(c) \/ Crash(c)
        PROVE  Delivered(c) \/ UNCHANGED copies
    BY <2>1 DEF CycleStep, Start, Crash, Read, SuppressBatch, NothingToDo, QueueBatch, Blocked,
       AllGone, Exhaust, RetryBatch, StateConflict, SmtpSend, MarkSent, MarkUnsuccessful,
       PersistenceFails, Release
  <2>2. ASSUME NEW a \in Accounts, NEW s \in Signals, ToggleSignal(a, s) \/ BatchComesDue(a, s)
        PROVE  UNCHANGED copies
    BY <2>2 DEF ToggleSignal, BatchComesDue
  <2> QED BY ZenonT(60), <2>1, <2>2 DEF Next, IntervalElapses, ChangeAccount, JobLeaseExpires, ToggleUrl, vars
<1> QED BY <1>1, <1>2

\* Alert delivery implements AlertPromise: through crashes, lost answers,
\* overlapping cycles and late results, a signal is tried at most MaxAttempts
\* times, no more copies go out than were tried, and a settled signal stays so.
THEOREM AlertKeepsPromise == Spec => KeepsPromise
<1>1. Init => Promise!Init
  <2> SUFFICES ASSUME Init PROVE Promise!Init
    OBVIOUS
  <2>1. AlertInv
    BY AlertInit
  <2>2. \A a \in Accounts, s \in Signals :
           Phase(row[a][s]) \in {"new", "live"} /\ row[a][s].attempts = 0
    <3> SUFFICES ASSUME NEW a \in Accounts, NEW s \in Signals
                 PROVE  Phase(row[a][s]) \in {"new", "live"} /\ row[a][s].attempts = 0
      OBVIOUS
    <3>1. row[a][s] \in LegacyRows(s)
      BY DEF Init
    <3>2. {} \in SUBSET Signals /\ {s} \in SUBSET Signals /\ Nil \in Contexts \cup {Nil}
      OBVIOUS
    <3>3. row[a][s] \in Row /\ row[a][s].status \in {"none", "queued"} /\ row[a][s].attempts = 0
      BY <3>1, <3>2, NoRowFields DEF LegacyRows
    <3> QED BY <3>3, PhaseOf
  <2> QED BY <2>2 DEF Promise!Init, Init
<1>2. AlertInv /\ AlertInv' /\ [Next]_vars => [Promise!Next]_(Promise!promised)
  <2> SUFFICES ASSUME AlertInv, AlertInv', [Next]_vars PROVE Promise!Next
    OBVIOUS
  <2> SUFFICES ASSUME NEW a \in Accounts, NEW s \in Signals
               PROVE  /\ Promise!TakenUp(a, s) \/ Promise!Settles(a, s) \/ Promise!LeftAlone(a, s)
                      /\ Promise!Copied(a, s)
    BY DEF Promise!Next
  <2>1. RowPromise(a, s)
    BY AlertStep DEF RowsPromise
  <2>2. row'[a][s].attempts <= MaxAttempts /\ row'[a][s].attempts \in Nat
    BY Bounds DEF AlertInv, TypeOK
  <2>3. copies'[a][s] \in {copies[a][s], copies[a][s] + 1}
    BY CopiesStep
  <2>4. copies'[a][s] <= row'[a][s].attempts
    <3>1. /\ copies'[a][s] + Cardinality(Pending(a, s)') <= row'[a][s].attempts
          /\ copies'[a][s] \in Nat
      BY DEF AlertInv, Counted, TypeOK
    <3>2. Cardinality(Pending(a, s)') \in Nat
      BY Bounds, FS_Subset, FS_CardinalityType DEF Pending
    <3> QED BY <2>2, <3>1, <3>2
  <2>5. Promise!Copied(a, s)
    BY <2>3, <2>4 DEF Promise!Copied
  <2>6. Promise!TakenUp(a, s) \/ Promise!Settles(a, s) \/ Promise!LeftAlone(a, s)
    BY <2>1, <2>2 DEF RowPromise, Promise!TakenUp, Promise!Settles, Promise!LeftAlone
  <2> QED BY <2>5, <2>6
<1> QED BY <1>1, <1>2, AlertAlways, PTL DEF Spec, KeepsPromise, Promise!Spec
=============================================================================
