-------------------------- MODULE RunPinningProofs --------------------------
(***************************************************************************)
(* The ledger of observations and the run pins that rest on it.            *)
(***************************************************************************)
EXTENDS RunPinning, ReceiptRegistryProofs, SequenceTheorems

-----------------------------------------------------------------------------
(***************************************************************************)
(* For any number of Releases, observations, events and clock readings:    *)
(* the chains always verify, the provider's story only goes forward, a     *)
(* withdrawal is final, and the ledger implements AccessGate.              *)
(*                                                                         *)
(* append_observation looks at the head, at the event of the highest       *)
(* sequence and at equal event names; ChainsVerify speaks of neighbours in *)
(* the rebuilt history.  EventsOrdered is what joins the two: it makes the *)
(* event of the highest sequence the last one observed.                    *)
(***************************************************************************)

LedgerInv == LedgerTypeOK /\ ChainsVerify /\ StoryGoesForward

(***************************************************************************)
(* Appending one row to a chain.                                           *)
(***************************************************************************)
LEMMA AppendRow ==
    ASSUME NEW T, NEW s \in Seq(T), NEW o \in T
    PROVE  /\ Append(s, o) \in Seq(T)
           /\ Len(s) \in Nat /\ DOMAIN s = 1..Len(s)
           /\ DOMAIN Append(s, o) = 1..(Len(s) + 1)
           /\ \A i \in 1..Len(s) : Append(s, o)[i] = s[i]
           /\ Append(s, o)[Len(s) + 1] = o
           /\ Len(Append(s, o)) = Len(s) + 1
           /\ s = <<>> <=> Len(s) = 0
           /\ s # <<>> => LastRow(s) = s[Len(s)] /\ Len(s) \in DOMAIN s
           /\ Append(s, o) # <<>> /\ LastRow(Append(s, o)) = o
<1>1. /\ Append(s, o) \in Seq(T)
      /\ Len(s) \in Nat /\ DOMAIN s = 1..Len(s)
      /\ Len(Append(s, o)) = Len(s) + 1
      /\ DOMAIN Append(s, o) = 1..(Len(s) + 1)
      /\ \A i \in 1..Len(s) : Append(s, o)[i] = s[i]
      /\ Append(s, o)[Len(s) + 1] = o
  BY AppendProperties, LenProperties
<1>2. s = <<>> <=> Len(s) = 0
  BY EmptySeq, <1>1
<1>3. Append(s, o) # <<>>
  BY <1>1
<1>. QED
  BY <1>1, <1>2, <1>3 DEF LastRow

LEMMA LinearAppend ==
    ASSUME NEW T, NEW s \in Seq(T), NEW o \in T, NEW head,
           LinearChain(s, head),
           o.supersedes = head,
           s # <<>> => LastRow(s).at <= o.at,
           o.id \notin RowIds(s)
    PROVE  LinearChain(Append(s, o), o.id)
<1>. DEFINE n == Len(s)
            t == Append(s, o)
<1>1. /\ n \in Nat /\ DOMAIN s = 1..n /\ DOMAIN t = 1..(n + 1)
      /\ \A i \in 1..n : t[i] = s[i]
      /\ t[n + 1] = o /\ Len(t) = n + 1
      /\ s = <<>> <=> n = 0
      /\ s # <<>> => LastRow(s) = s[n]
      /\ t # <<>> /\ LastRow(t) = o
  BY AppendRow
<1>. HIDE DEF n, t
<1>2. \A i \in DOMAIN t : t[i].supersedes = IF i = 1 THEN None ELSE t[i - 1].id
  <2>1. ASSUME NEW i \in 1..n
        PROVE  t[i].supersedes = IF i = 1 THEN None ELSE t[i - 1].id
    <3>1. i # 1 => i - 1 \in 1..n
      BY <1>1
    <3>. QED
      BY <1>1, <3>1 DEF LinearChain
  <2>2. t[n + 1].supersedes = IF n + 1 = 1 THEN None ELSE t[(n + 1) - 1].id
    <3>1. CASE n = 0
      BY <1>1, <3>1 DEF LinearChain
    <3>2. CASE n # 0
      <4>1. n \in 1..n /\ (n + 1) - 1 = n /\ n + 1 # 1
        BY <1>1, <3>2
      <4>. QED
        BY <1>1, <3>2, <4>1 DEF LinearChain
    <3>. QED
      BY <3>1, <3>2
  <2>. QED
    BY <1>1, <2>1, <2>2
<1>3. \A i \in DOMAIN t : i > 1 => t[i - 1].at <= t[i].at
  <2>1. ASSUME NEW i \in 1..n, i > 1
        PROVE  t[i - 1].at <= t[i].at
    <3>1. i - 1 \in 1..n
      BY <1>1, <2>1
    <3>. QED
      BY <1>1, <2>1, <3>1 DEF LinearChain
  <2>2. n + 1 > 1 => t[(n + 1) - 1].at <= t[n + 1].at
    <3>. SUFFICES ASSUME n + 1 > 1
                  PROVE  t[(n + 1) - 1].at <= t[n + 1].at
      OBVIOUS
    <3>1. n # 0 /\ n \in 1..n /\ (n + 1) - 1 = n
      BY <1>1
    <3>. QED
      BY <1>1, <3>1
  <2>. QED
    BY <1>1, <2>1, <2>2
<1>4. \A i, j \in DOMAIN t : t[i].id = t[j].id => i = j
  <2>1. \A i \in 1..n : t[i].id # o.id
    BY <1>1 DEF RowIds
  <2>. QED
    BY <1>1, <2>1 DEF LinearChain
<1>. QED
  BY <1>1, <1>2, <1>3, <1>4 DEF LinearChain, t

(* The last row is the one the head names. *)
LEMMA HeadIsLast ==
    ASSUME NEW T, NEW s \in Seq(T), NEW head, LinearChain(s, head),
           NEW i \in DOMAIN s, s[i].id = head
    PROVE  i = Len(s) /\ s # <<>> /\ LastRow(s) = s[i]
<1>1. Len(s) \in Nat /\ DOMAIN s = 1..Len(s)
  BY LenProperties
<1>2. s # <<>> /\ Len(s) \in DOMAIN s
  BY <1>1
<1>. QED
  BY <1>1, <1>2 DEF LinearChain, LastRow

LEMMA PassedEventsOf ==
    ASSUME NEW s
    PROVE  /\ \A i \in DOMAIN s : s[i].event # None => s[i].event \in PassedEvents(s)
           /\ \A e \in PassedEvents(s) : e # None /\ \E i \in DOMAIN s : s[i].event = e
BY DEF PassedEvents

(* The event _validate_status_observation compares with is the last one observed. *)
LEMMA PriorIsLast ==
    ASSUME NEW s \in Seq(StatusRow), EventsOrdered(s),
           NEW p \in PassedEvents(s), \A f \in PassedEvents(s) : f.seq <= p.seq,
           NEW i \in DOMAIN s, s[i].event # None,
           \A k \in DOMAIN s : i < k => s[k].event = None
    PROVE  s[i].event = p
<1>1. Len(s) \in Nat /\ DOMAIN s = 1..Len(s)
  BY LenProperties
<1>2. PICK k \in DOMAIN s : s[k].event = p /\ p # None
  BY PassedEventsOf
<1>3. k <= i
  BY <1>1, <1>2
<1>4. CASE k = i
  BY <1>2, <1>4
<1>5. CASE k < i
  <2>1. s[k].event.seq <= s[i].event.seq /\ s[i].event.seq <= p.seq
    BY <1>2, <1>5, PassedEventsOf DEF EventsOrdered
  <2>2. s[i].event \in StatusEvents /\ p \in StatusEvents
    <3>1. s[i] \in StatusRow /\ s[k] \in StatusRow
      BY <1>1, ElementOfSeq
    <3>. QED
      BY <1>2, <3>1 DEF StatusRow, StatusRows
  <2>3. s[i].event.seq \in Nat /\ p.seq \in Nat
    BY <2>2, EventsAssumption DEF EventShape
  <2>4. s[i].event.seq = p.seq
    BY <1>2, <2>1, <2>3
  <2>. QED
    BY <1>2, <1>5, <2>4 DEF EventsOrdered
<1>. QED
  BY <1>1, <1>3, <1>4, <1>5

LEMMA StatusAppend ==
    ASSUME NEW s \in Seq(StatusRow), NEW o \in StatusRow,
           StatusHistoryVerifies(s), EventsOrdered(s),
           o.event # None => StatusAdmissible(s, o.event)
    PROVE  StatusHistoryVerifies(Append(s, o)) /\ EventsOrdered(Append(s, o))
<1>. DEFINE n == Len(s)
            t == Append(s, o)
            e == o.event
<1>1. /\ n \in Nat /\ DOMAIN s = 1..n /\ DOMAIN t = 1..(n + 1)
      /\ \A i \in 1..n : t[i] = s[i]
      /\ t[n + 1] = o
  BY AppendRow
<1>. HIDE DEF n, t
<1>2. ASSUME NEW i \in 1..n, t[i].event # None
      PROVE  /\ s[i] = t[i] /\ t[i].event \in PassedEvents(s)
             /\ t[i].event \in StatusEvents /\ t[i].event.seq \in Nat
  <2>1. s[i] = t[i] /\ s[i] \in StatusRow
    BY <1>1, ElementOfSeq
  <2>2. t[i].event \in StatusEvents
    BY <1>2, <2>1 DEF StatusRow, StatusRows
  <2>. QED
    BY <1>1, <1>2, <2>1, <2>2, EventsAssumption, PassedEventsOf DEF EventShape
<1>3. e # None => e \in StatusEvents /\ e.seq \in Nat
  BY EventsAssumption DEF StatusRow, StatusRows, EventShape
(* The new event against any earlier one. *)
<1>4. ASSUME e # None, NEW i \in 1..n, t[i].event # None
      PROVE  /\ SameEventIdentity(t[i].event, e) => t[i].event = e
             /\ t[i].event.seq <= e.seq
             /\ t[i].event.seq = e.seq => t[i].event = e
             /\ t[i].event.status = "withdrawn" => e = t[i].event
  <2>1. t[i].event \in PassedEvents(s) /\ s[i].event = t[i].event /\ t[i].event.seq \in Nat
    BY <1>2, <1>4
  <2>2. SameEventIdentity(t[i].event, e) => t[i].event = e
    BY <1>4, <2>1 DEF StatusAdmissible, SameEventIdentity
  <2>3. PICK p \in PassedEvents(s) : /\ \A f \in PassedEvents(s) : f.seq <= p.seq
                                     /\ e = p \/ Succeeds(p, e)
    BY <1>4, <2>1 DEF StatusAdmissible
  <2>4. PICK k \in 1..n : s[k].event = p /\ p # None
    BY <1>1, <2>3, PassedEventsOf
  <2>5. t[i].event.seq <= p.seq /\ p.seq \in Nat
    BY <1>1, <1>2, <2>1, <2>3, <2>4
  <2>6. t[i].event.seq = p.seq => t[i].event = p
    <3>1. CASE i = k
      BY <2>1, <2>4, <3>1
    <3>2. CASE i < k
      BY <1>1, <1>4, <2>1, <2>4, <3>2 DEF EventsOrdered
    <3>3. CASE k < i
      BY <1>1, <1>4, <2>1, <2>4, <3>3 DEF EventsOrdered
    <3>. QED
      BY <3>1, <3>2, <3>3
  <2>7. t[i].event.status = "withdrawn" => t[i].event = p
    <3>1. CASE i < k
      BY <1>1, <1>4, <2>1, <2>4, <3>1 DEF EventsOrdered
    <3>2. CASE k < i
      <4>1. p.seq <= t[i].event.seq
        BY <1>1, <1>4, <2>1, <2>4, <3>2 DEF EventsOrdered
      <4>. QED
        BY <2>1, <2>5, <2>6, <4>1
    <3>3. CASE i = k
      BY <2>1, <2>4, <3>3
    <3>. QED
      BY <3>1, <3>2, <3>3
  <2>8. CASE e = p
    BY <2>2, <2>5, <2>6, <2>7, <2>8
  <2>9. CASE Succeeds(p, e)
    <3>1. e.seq = p.seq + 1 /\ p.status # "withdrawn"
      BY <2>9 DEF Succeeds
    <3>. QED
      BY <2>1, <2>2, <2>5, <2>7, <3>1
  <2>. QED
    BY <2>3, <2>8, <2>9
<1>5. EventsOrdered(t)
  <2>. SUFFICES ASSUME NEW i \in 1..(n + 1), NEW j \in 1..(n + 1),
                       i < j, t[i].event # None, t[j].event # None
                PROVE  /\ t[i].event.seq <= t[j].event.seq
                       /\ t[i].event.seq = t[j].event.seq => t[i].event = t[j].event
                       /\ t[i].event.status = "withdrawn" => t[j].event = t[i].event
    BY <1>1 DEF EventsOrdered
  <2>1. i \in 1..n
    BY <1>1
  <2>2. CASE j = n + 1
    BY <1>1, <1>4, <2>1, <2>2
  <2>3. CASE j \in 1..n
    BY <1>1, <2>1, <2>3 DEF EventsOrdered
  <2>. QED
    BY <1>1, <2>2, <2>3
<1>6. StatusHistoryVerifies(t)
  <2>. DEFINE Verifies(j) ==
         /\ \A i \in DOMAIN t : (/\ i < j /\ t[i].event # None
                                /\ SameEventIdentity(t[i].event, t[j].event))
                                => t[i].event = t[j].event
         /\ (\A i \in DOMAIN t : i < j => t[i].event = None)
                => t[j].event.seq = 1 /\ t[j].event.status = "building"
         /\ \A i \in DOMAIN t : FollowsPassed(t, i, j) =>
                t[i].event = t[j].event \/ Succeeds(t[i].event, t[j].event)
  <2>1. ASSUME NEW j \in 1..n, t[j].event # None
        PROVE  Verifies(j)
    <3>1. \A i \in DOMAIN t : i < j => i \in DOMAIN s /\ i \in 1..n /\ t[i] = s[i]
      BY <1>1
    <3>2. \A i \in DOMAIN t : FollowsPassed(t, i, j) => FollowsPassed(s, i, j)
      BY <1>1, <3>1 DEF FollowsPassed
    <3>3. \A i \in DOMAIN s : i \in DOMAIN t /\ t[i] = s[i]
      BY <1>1
    <3>4. \A i \in DOMAIN t : FollowsPassed(t, i, j) => i < j
      BY DEF FollowsPassed
    <3>. QED
      BY <1>1, <2>1, <3>1, <3>2, <3>3, <3>4 DEF StatusHistoryVerifies
  <2>2. ASSUME e # None
        PROVE  Verifies(n + 1)
    <3>1. t[n + 1].event = e
      BY <1>1
    <3>2. \A i \in DOMAIN t : i < n + 1 => i \in 1..n
      BY <1>1
    <3>3. (\A i \in DOMAIN t : i < n + 1 => t[i].event = None)
              => e.seq = 1 /\ e.status = "building"
      <4>. SUFFICES ASSUME \A i \in DOMAIN t : i < n + 1 => t[i].event = None
                    PROVE  e.seq = 1 /\ e.status = "building"
        OBVIOUS
      <4>1. \A i \in DOMAIN s : s[i].event = None
        BY <1>1
      <4>2. PassedEvents(s) = {}
        BY <4>1, PassedEventsOf
      <4>. QED
        BY <2>2, <4>2, <1>3, EventsAssumption DEF StatusAdmissible, EventShape
    <3>4. ASSUME NEW i \in DOMAIN t, FollowsPassed(t, i, n + 1)
          PROVE  t[i].event = e \/ Succeeds(t[i].event, e)
      <4>1. i \in 1..n /\ t[i].event # None /\ s[i] = t[i]
        BY <1>1, <3>2, <3>4 DEF FollowsPassed
      <4>2. \A k \in DOMAIN s : i < k => s[k].event = None
        BY <1>1, <3>4 DEF FollowsPassed
      <4>3. PICK p \in PassedEvents(s) : /\ \A f \in PassedEvents(s) : f.seq <= p.seq
                                         /\ e = p \/ Succeeds(p, e)
        BY <2>2, <4>1, <1>2 DEF StatusAdmissible
      <4>4. s[i].event = p
        BY <1>1, <4>1, <4>2, <4>3, PriorIsLast
      <4>. QED
        BY <4>1, <4>3, <4>4
    <3>. QED
      BY <2>2, <1>4, <3>1, <3>2, <3>3, <3>4
  <2>. QED
    BY <1>1, <2>1, <2>2 DEF StatusHistoryVerifies
<1>. QED
  BY <1>5, <1>6 DEF t

(***************************************************************************)
(* Types.                                                                  *)
(***************************************************************************)
LEMMA NewRowTypes ==
    ASSUME LedgerTypeOK, NEW r \in Releases
    PROVE  /\ \A o \in FetchRows(Recent, RowIds(fetches[r]), {now}) :
                 o \in FetchRow /\ o.at <= o.persisted
           /\ \A o \in StatusRows(Recent, RowIds(statuses[r]), {now}) :
                 o \in StatusRow /\ o.at <= o.persisted
           /\ \A o \in AdmissionRows(Recent, RowIds(admissions[r]), {now}, RowIds(statuses[r])) :
                 o \in AdmissionRow /\ o.at <= o.persisted
<1>1. Recent \subseteq Times /\ now \in Times /\ \A t \in Recent : t <= now
  BY DEF Recent, LedgerTypeOK, RegistryTypeOK
<1>2. /\ RowIds(fetches[r]) \subseteq ObsIds
      /\ RowIds(statuses[r]) \subseteq ObsIds
      /\ RowIds(admissions[r]) \subseteq ObsIds
  <2>1. fetches[r] \in Seq(FetchRow) /\ statuses[r] \in Seq(StatusRow) /\ admissions[r] \in Seq(AdmissionRow)
    BY DEF LedgerTypeOK
  <2>2. /\ \A i \in DOMAIN fetches[r] : fetches[r][i] \in FetchRow
        /\ \A i \in DOMAIN statuses[r] : statuses[r][i] \in StatusRow
        /\ \A i \in DOMAIN admissions[r] : admissions[r][i] \in AdmissionRow
    BY <2>1, ElementOfSeq, LenProperties
  <2>. QED
    BY <2>2 DEF RowIds, FetchRow, FetchRows, StatusRow, StatusRows, AdmissionRow, AdmissionRows
<1>3. /\ FetchRows(Recent, RowIds(fetches[r]), {now}) \subseteq FetchRow
      /\ StatusRows(Recent, RowIds(statuses[r]), {now}) \subseteq StatusRow
      /\ AdmissionRows(Recent, RowIds(admissions[r]), {now}, RowIds(statuses[r])) \subseteq AdmissionRow
  BY <1>1, <1>2 DEF FetchRow, FetchRows, StatusRow, StatusRows, AdmissionRow, AdmissionRows
<1>. QED
  BY <1>1, <1>3 DEF FetchRows, StatusRows, AdmissionRows

LEMMA EnsureIdentityType ==
    ASSUME RegistryTypeOK, NEW r \in Releases, NEW ident \in Identities,
           EnsureIdentity(r, ident)
    PROVE  RegistryTypeOK'
BY DEF RegistryTypeOK, EnsureIdentity

LEMMA LedgerTypeStep ==
    ASSUME LedgerTypeOK, [LedgerNext]_ledgerVars
    PROVE  LedgerTypeOK'
<1>1. CASE RegistryNext /\ UNCHANGED chainVars
  BY <1>1, RegistryTypeStep DEF LedgerTypeOK, chainVars
<1>2. ASSUME NEW r \in Releases, AppendObservation(r)
      PROVE  LedgerTypeOK'
  <2>1. ASSUME NEW o \in FetchRows(Recent, RowIds(fetches[r]), {now}), AppendFetch(r, o)
        PROVE  LedgerTypeOK'
    <3>1. o \in FetchRow
      BY NewRowTypes
    <3>2. o.id \in ObsIds /\ o.ident \in Identities
      BY <3>1 DEF FetchRow, FetchRows
    <3>3. Append(fetches[r], o) \in Seq(FetchRow)
      BY <3>1, AppendRow DEF LedgerTypeOK
    <3>. QED
      BY <2>1, <3>2, <3>3, EnsureIdentityType DEF AppendFetch, LedgerTypeOK
  <2>2. ASSUME NEW o \in StatusRows(Recent, RowIds(statuses[r]), {now}), AppendStatus(r, o)
        PROVE  LedgerTypeOK'
    <3>1. o \in StatusRow
      BY NewRowTypes
    <3>2. o.id \in ObsIds /\ o.ident \in Identities
      BY <3>1 DEF StatusRow, StatusRows
    <3>3. Append(statuses[r], o) \in Seq(StatusRow)
      BY <3>1, AppendRow DEF LedgerTypeOK
    <3>. QED
      BY <2>2, <3>2, <3>3, EnsureIdentityType DEF AppendStatus, LedgerTypeOK
  <2>3. ASSUME NEW o \in AdmissionRows(Recent, RowIds(admissions[r]), {now}, RowIds(statuses[r])),
               AppendAdmission(r, o)
        PROVE  LedgerTypeOK'
    <3>1. o \in AdmissionRow
      BY NewRowTypes
    <3>2. o.id \in ObsIds /\ o.ident \in Identities
      BY <3>1 DEF AdmissionRow, AdmissionRows
    <3>3. Append(admissions[r], o) \in Seq(AdmissionRow)
      BY <3>1, AppendRow DEF LedgerTypeOK
    <3>. QED
      BY <2>3, <3>2, <3>3, EnsureIdentityType DEF AppendAdmission, LedgerTypeOK
  <2>. QED
    BY <1>2, <2>1, <2>2, <2>3 DEF AppendObservation
<1>3. CASE UNCHANGED ledgerVars
  BY <1>3 DEF LedgerTypeOK, RegistryTypeOK, ledgerVars, registryVars, chainVars
<1>. QED
  BY <1>1, <1>2, <1>3 DEF LedgerNext

(* Every row, head and identity of the ledger has its column's type. *)
THEOREM LedgerTypeCorrect == LedgerSpec => []LedgerTypeOK
<1>1. LedgerInit => LedgerTypeOK
  <2>1. RegistryInit => RegistryTypeOK
    BY DEF RegistryInit, RegistryTypeOK
  <2>2. \A T : <<>> \in Seq(T)
    BY EmptySeq
  <2>. QED
    BY <2>1, <2>2 DEF LedgerInit, LedgerTypeOK
<1>2. LedgerTypeOK /\ [LedgerNext]_ledgerVars => LedgerTypeOK'
  BY LedgerTypeStep
<1>. QED
  BY <1>1, <1>2, PTL DEF LedgerSpec

(***************************************************************************)
(* The chains.  One lemma per action, each for one Release q: the chain of *)
(* r grows, those of the others are untouched.                             *)
(***************************************************************************)
LEMMA ChainTypes ==
    ASSUME LedgerTypeOK, NEW r \in Releases
    PROVE  /\ fetches[r] \in Seq(FetchRow)
           /\ statuses[r] \in Seq(StatusRow)
           /\ admissions[r] \in Seq(AdmissionRow)
           /\ \A i \in DOMAIN fetches[r] : fetches[r][i] \in FetchRow
           /\ \A i \in DOMAIN statuses[r] : statuses[r][i] \in StatusRow
           /\ \A i \in DOMAIN admissions[r] : admissions[r][i] \in AdmissionRow
<1>1. /\ fetches[r] \in Seq(FetchRow)
      /\ statuses[r] \in Seq(StatusRow)
      /\ admissions[r] \in Seq(AdmissionRow)
  BY DEF LedgerTypeOK
<1>. QED
  BY <1>1, ElementOfSeq, LenProperties

(* Ids in use, seen from one chain. *)
LEMMA IdsInUse ==
    ASSUME NEW r \in Releases
    PROVE  /\ RowIds(fetches[r]) \subseteq UsedIds
           /\ RowIds(statuses[r]) \subseteq UsedIds
           /\ RowIds(admissions[r]) \subseteq UsedIds
BY DEF UsedIds

(* An identity that some row was stored under is the one that was stored. *)
LEMMA TimelyAppend ==
    ASSUME NEW T, NEW s \in Seq(T), NEW o \in T, NEW r, NEW newIdentity,
           \A i \in DOMAIN s : s[i].at <= s[i].persisted /\ s[i].ident = newIdentity,
           o.at <= o.persisted, o.ident = newIdentity
    PROVE  LET t == Append(s, o) IN
           \A i \in DOMAIN t : t[i].at <= t[i].persisted /\ t[i].ident = newIdentity
<1>. DEFINE t == Append(s, o)
<1>1. /\ Len(s) \in Nat /\ DOMAIN s = 1..Len(s) /\ DOMAIN t = 1..(Len(s) + 1)
      /\ \A i \in 1..Len(s) : t[i] = s[i]
      /\ t[Len(s) + 1] = o
  BY AppendRow
<1>. QED
  BY <1>1

LEMMA IdentityStays ==
    ASSUME LedgerTypeOK, NEW r \in Releases, NEW q \in Releases, ReleaseVerifies(q),
           NEW ident \in Identities, IdentityAgrees(r, ident), EnsureIdentity(r, ident)
    PROVE  /\ RowsTimely(q, fetches[q]) => \A i \in DOMAIN fetches[q] :
                  fetches[q][i].at <= fetches[q][i].persisted /\ fetches[q][i].ident = identity'[q]
           /\ RowsTimely(q, statuses[q]) => \A i \in DOMAIN statuses[q] :
                  statuses[q][i].at <= statuses[q][i].persisted /\ statuses[q][i].ident = identity'[q]
           /\ RowsTimely(q, admissions[q]) => \A i \in DOMAIN admissions[q] :
                  admissions[q][i].at <= admissions[q][i].persisted /\ admissions[q][i].ident = identity'[q]
<1>1. /\ \A i \in DOMAIN fetches[q] : fetches[q][i].ident \in Identities
      /\ \A i \in DOMAIN statuses[q] : statuses[q][i].ident \in Identities
      /\ \A i \in DOMAIN admissions[q] : admissions[q][i].ident \in Identities
  BY ChainTypes DEF FetchRow, FetchRows, StatusRow, StatusRows, AdmissionRow, AdmissionRows
<1>2. identity[q] # None => identity'[q] = identity[q]
  BY DEF EnsureIdentity, IdentityAgrees, LedgerTypeOK, RegistryTypeOK
<1>. QED
  BY <1>1, <1>2, NoneAssumption DEF RowsTimely

LEMMA FetchStep ==
    ASSUME LedgerInv, NEW r \in Releases,
           NEW o \in FetchRows(Recent, RowIds(fetches[r]), {now}), AppendFetch(r, o)
    PROVE  ChainsVerify' /\ StoryGoesForward'
<1>. USE DEF LedgerInv
<1>1. o \in FetchRow /\ o.at <= o.persisted /\ o.ident \in Identities
  BY NewRowTypes DEF FetchRow, FetchRows
<1>2. /\ EnsureIdentity(r, o.ident) /\ IdentityAgrees(r, o.ident)
      /\ identity'[r] = o.ident /\ receipts' = receipts
      /\ statuses' = statuses /\ admissions' = admissions
      /\ statusHead' = statusHead /\ admissionHead' = admissionHead
  BY DEF AppendFetch, MayAppend, EnsureIdentity, LedgerTypeOK, RegistryTypeOK
<1>3. StoryGoesForward'
  BY <1>2 DEF StoryGoesForward
<1>4. ASSUME NEW q \in Releases
      PROVE  ReleaseVerifies(q)'
  <2>1. ReleaseVerifies(q) /\ fetches[q] \in Seq(FetchRow)
    BY ChainTypes DEF ChainsVerify
  <2>2. /\ \A i \in DOMAIN fetches[q] :
               fetches[q][i].at <= fetches[q][i].persisted /\ fetches[q][i].ident = identity'[q]
        /\ RowsTimely(q, statuses[q])' /\ RowsTimely(q, admissions[q])'
    BY <1>1, <1>2, <2>1, IdentityStays DEF ReleaseVerifies, RowsTimely
  <2>3. /\ LinearChain(statuses[q], statusHead[q])' /\ LinearChain(admissions[q], admissionHead[q])'
        /\ StatusHistoryVerifies(statuses[q])' /\ AdmissionHistoryVerifies(q)'
    BY <1>2, <2>1 DEF ReleaseVerifies, AdmissionHistoryVerifies
  <2>4. CASE q # r
    <3>1. fetches'[q] = fetches[q] /\ fetchHead'[q] = fetchHead[q]
      BY <2>4 DEF AppendFetch, LedgerTypeOK
    <3>2. LinearChain(fetches[q], fetchHead[q])' /\ RowsTimely(q, fetches[q])'
      BY <2>1, <2>2, <3>1 DEF ReleaseVerifies, RowsTimely
    <3>3. FetchHistoryVerifies(q)'
      BY <1>2, <2>1, <3>1 DEF ReleaseVerifies, FetchHistoryVerifies, FetchAdmissible
    <3>. QED
      BY <2>2, <2>3, <3>2, <3>3 DEF ReleaseVerifies
  <2>5. CASE q = r
    <3>1. fetches'[q] = Append(fetches[q], o) /\ fetchHead'[q] = o.id
      BY <2>5 DEF AppendFetch, LedgerTypeOK
    <3>2. LinearChain(Append(fetches[q], o), o.id)
      BY <1>1, <2>1, <2>5, LinearAppend, IdsInUse DEF AppendFetch, MayAppend, ReleaseVerifies
    <3>3. RowsTimely(q, fetches[q])'
      BY <1>1, <1>2, <2>1, <2>2, <2>5, <3>1, TimelyAppend DEF RowsTimely
    <3>4. FetchHistoryVerifies(q)'
      <4>1. /\ DOMAIN fetches[q] = 1..Len(fetches[q]) /\ Len(fetches[q]) \in Nat
            /\ DOMAIN fetches'[q] = 1..(Len(fetches[q]) + 1)
            /\ \A i \in 1..Len(fetches[q]) : fetches'[q][i] = fetches[q][i]
            /\ fetches'[q][Len(fetches[q]) + 1] = o
        BY <1>1, <2>1, <3>1, AppendRow
      <4>2. FetchAdmissible(q, o.receipt)
        BY <2>5 DEF AppendFetch
      <4>. QED
        BY <1>2, <2>1, <4>1, <4>2 DEF ReleaseVerifies, FetchHistoryVerifies, FetchAdmissible
    <3>. QED
      BY <2>2, <2>3, <3>1, <3>2, <3>3, <3>4 DEF ReleaseVerifies
  <2>. QED
    BY <2>4, <2>5
<1>. QED
  BY <1>3, <1>4 DEF ChainsVerify

LEMMA StatusStep ==
    ASSUME LedgerInv, NEW r \in Releases,
           NEW o \in StatusRows(Recent, RowIds(statuses[r]), {now}), AppendStatus(r, o)
    PROVE  ChainsVerify' /\ StoryGoesForward'
<1>. USE DEF LedgerInv
<1>1. o \in StatusRow /\ o.at <= o.persisted /\ o.ident \in Identities
  BY NewRowTypes DEF StatusRow, StatusRows
<1>2. /\ EnsureIdentity(r, o.ident) /\ IdentityAgrees(r, o.ident)
      /\ identity'[r] = o.ident /\ receipts' = receipts
      /\ fetches' = fetches /\ admissions' = admissions
      /\ fetchHead' = fetchHead /\ admissionHead' = admissionHead
  BY DEF AppendStatus, MayAppend, EnsureIdentity, LedgerTypeOK, RegistryTypeOK
<1>3. ASSUME NEW q \in Releases
      PROVE  ReleaseVerifies(q)' /\ EventsOrdered(statuses[q])'
  <2>1. ReleaseVerifies(q) /\ statuses[q] \in Seq(StatusRow) /\ EventsOrdered(statuses[q])
    BY ChainTypes DEF ChainsVerify, StoryGoesForward
  <2>2. /\ \A i \in DOMAIN statuses[q] :
               statuses[q][i].at <= statuses[q][i].persisted /\ statuses[q][i].ident = identity'[q]
        /\ RowsTimely(q, fetches[q])' /\ RowsTimely(q, admissions[q])'
    BY <1>1, <1>2, <2>1, IdentityStays DEF ReleaseVerifies, RowsTimely
  <2>3. /\ LinearChain(fetches[q], fetchHead[q])' /\ LinearChain(admissions[q], admissionHead[q])'
        /\ FetchHistoryVerifies(q)'
    BY <1>2, <2>1 DEF ReleaseVerifies, FetchHistoryVerifies, FetchAdmissible
  <2>4. CASE q # r
    <3>1. statuses'[q] = statuses[q] /\ statusHead'[q] = statusHead[q]
      BY <2>4 DEF AppendStatus, LedgerTypeOK
    <3>2. LinearChain(statuses[q], statusHead[q])' /\ RowsTimely(q, statuses[q])'
      BY <2>1, <2>2, <3>1 DEF ReleaseVerifies, RowsTimely
    <3>3. StatusHistoryVerifies(statuses[q])' /\ EventsOrdered(statuses[q])'
      BY <2>1, <3>1 DEF ReleaseVerifies
    <3>4. AdmissionHistoryVerifies(q)'
      BY <1>2, <2>1, <3>1 DEF ReleaseVerifies, AdmissionHistoryVerifies
    <3>. QED
      BY <2>2, <2>3, <3>2, <3>3, <3>4 DEF ReleaseVerifies
  <2>5. CASE q = r
    <3>1. statuses'[q] = Append(statuses[q], o) /\ statusHead'[q] = o.id
      BY <2>5 DEF AppendStatus, LedgerTypeOK
    <3>2. LinearChain(Append(statuses[q], o), o.id)
      BY <1>1, <2>1, <2>5, LinearAppend, IdsInUse DEF AppendStatus, MayAppend, ReleaseVerifies
    <3>3. RowsTimely(q, statuses[q])'
      BY <1>1, <1>2, <2>1, <2>2, <2>5, <3>1, TimelyAppend DEF RowsTimely
    <3>4. StatusHistoryVerifies(Append(statuses[q], o)) /\ EventsOrdered(Append(statuses[q], o))
      BY <1>1, <2>1, <2>5, StatusAppend DEF AppendStatus, ReleaseVerifies
    <3>5. AdmissionHistoryVerifies(q)'
      <4>1. /\ DOMAIN statuses[q] \subseteq DOMAIN statuses'[q]
            /\ \A i \in DOMAIN statuses[q] : statuses'[q][i] = statuses[q][i]
        BY <1>1, <2>1, <3>1, AppendRow
      <4>. QED
        BY <1>2, <2>1, <4>1 DEF ReleaseVerifies, AdmissionHistoryVerifies
    <3>. QED
      BY <2>2, <2>3, <3>1, <3>2, <3>3, <3>4, <3>5 DEF ReleaseVerifies
  <2>. QED
    BY <2>4, <2>5
<1>. QED
  BY <1>3 DEF ChainsVerify, StoryGoesForward

LEMMA AdmissionStep ==
    ASSUME LedgerInv, NEW r \in Releases,
           NEW o \in AdmissionRows(Recent, RowIds(admissions[r]), {now}, RowIds(statuses[r])),
           AppendAdmission(r, o)
    PROVE  ChainsVerify' /\ StoryGoesForward'
<1>. USE DEF LedgerInv
<1>1. o \in AdmissionRow /\ o.at <= o.persisted /\ o.ident \in Identities
  BY NewRowTypes DEF AdmissionRow, AdmissionRows
<1>2. /\ EnsureIdentity(r, o.ident) /\ IdentityAgrees(r, o.ident)
      /\ identity'[r] = o.ident /\ receipts' = receipts
      /\ fetches' = fetches /\ statuses' = statuses
      /\ fetchHead' = fetchHead /\ statusHead' = statusHead
  BY DEF AppendAdmission, MayAppend, EnsureIdentity, LedgerTypeOK, RegistryTypeOK
<1>3. StoryGoesForward'
  BY <1>2 DEF StoryGoesForward
<1>4. ASSUME NEW q \in Releases
      PROVE  ReleaseVerifies(q)'
  <2>1. ReleaseVerifies(q) /\ admissions[q] \in Seq(AdmissionRow)
    BY ChainTypes DEF ChainsVerify
  <2>2. /\ \A i \in DOMAIN admissions[q] :
               admissions[q][i].at <= admissions[q][i].persisted /\ admissions[q][i].ident = identity'[q]
        /\ RowsTimely(q, fetches[q])' /\ RowsTimely(q, statuses[q])'
    BY <1>1, <1>2, <2>1, IdentityStays DEF ReleaseVerifies, RowsTimely
  <2>3. /\ LinearChain(fetches[q], fetchHead[q])' /\ LinearChain(statuses[q], statusHead[q])'
        /\ FetchHistoryVerifies(q)' /\ StatusHistoryVerifies(statuses[q])'
    BY <1>2, <2>1 DEF ReleaseVerifies, FetchHistoryVerifies, FetchAdmissible
  <2>4. CASE q # r
    <3>1. admissions'[q] = admissions[q] /\ admissionHead'[q] = admissionHead[q]
      BY <2>4 DEF AppendAdmission, LedgerTypeOK
    <3>2. LinearChain(admissions[q], admissionHead[q])' /\ RowsTimely(q, admissions[q])'
      BY <2>1, <2>2, <3>1 DEF ReleaseVerifies, RowsTimely
    <3>3. AdmissionHistoryVerifies(q)'
      BY <1>2, <2>1, <3>1 DEF ReleaseVerifies, AdmissionHistoryVerifies
    <3>. QED
      BY <2>2, <2>3, <3>2, <3>3 DEF ReleaseVerifies
  <2>5. CASE q = r
    <3>1. admissions'[q] = Append(admissions[q], o) /\ admissionHead'[q] = o.id
      BY <2>5 DEF AppendAdmission, LedgerTypeOK
    <3>2. LinearChain(Append(admissions[q], o), o.id)
      BY <1>1, <2>1, <2>5, LinearAppend, IdsInUse DEF AppendAdmission, MayAppend, ReleaseVerifies
    <3>3. RowsTimely(q, admissions[q])'
      BY <1>1, <1>2, <2>1, <2>2, <2>5, <3>1, TimelyAppend DEF RowsTimely
    <3>4. AdmissionHistoryVerifies(q)'
      <4>1. /\ DOMAIN admissions[q] = 1..Len(admissions[q]) /\ Len(admissions[q]) \in Nat
            /\ DOMAIN admissions'[q] = 1..(Len(admissions[q]) + 1)
            /\ \A i \in 1..Len(admissions[q]) : admissions'[q][i] = admissions[q][i]
            /\ admissions'[q][Len(admissions[q]) + 1] = o
        BY <1>1, <2>1, <3>1, AppendRow
      <4>2. \E i \in DOMAIN statuses[q] : TargetAdmits(statuses[q][i], o)
        BY <2>5 DEF AppendAdmission
      <4>. QED
        BY <1>2, <2>1, <4>1, <4>2 DEF ReleaseVerifies, AdmissionHistoryVerifies
    <3>. QED
      BY <2>2, <2>3, <3>1, <3>2, <3>3, <3>4 DEF ReleaseVerifies
  <2>. QED
    BY <2>4, <2>5
<1>. QED
  BY <1>3, <1>4 DEF ChainsVerify

LEMMA RegistryStep ==
    ASSUME LedgerInv, RegistryNext, UNCHANGED chainVars
    PROVE  ChainsVerify' /\ StoryGoesForward'
<1>. USE DEF LedgerInv, chainVars
<1>1. /\ \A q \in Releases : identity[q] # None => identity'[q] = identity[q]
      /\ \A rc \in ReceiptDocs : receipts[rc] # None => receipts'[rc] # None
  <2>1. CASE ClockMoves
    BY <2>1 DEF ClockMoves, registryVars
  <2>2. ASSUME NEW b \in Bundles, RecordVerifiedConsumption(b)
        PROVE  /\ \A q \in Releases : identity[q] # None => identity'[q] = identity[q]
               /\ \A rc \in ReceiptDocs : receipts[rc] # None => receipts'[rc] # None
    BY <2>2 DEF RecordVerifiedConsumption, Recordable, IdentityAgrees, LedgerTypeOK, RegistryTypeOK
  <2>. QED
    BY <2>1, <2>2 DEF RegistryNext
<1>2. ASSUME NEW q \in Releases
      PROVE  ReleaseVerifies(q)'
  <2>1. ReleaseVerifies(q)
    BY DEF ChainsVerify
  <2>2. /\ \A i \in DOMAIN fetches[q] : fetches[q][i].ident \in Identities
        /\ \A i \in DOMAIN statuses[q] : statuses[q][i].ident \in Identities
        /\ \A i \in DOMAIN admissions[q] : admissions[q][i].ident \in Identities
    BY ChainTypes DEF FetchRow, FetchRows, StatusRow, StatusRows, AdmissionRow, AdmissionRows
  <2>3. RowsTimely(q, fetches[q])' /\ RowsTimely(q, statuses[q])' /\ RowsTimely(q, admissions[q])'
    BY <1>1, <2>1, <2>2, NoneAssumption DEF ReleaseVerifies, RowsTimely
  <2>4. FetchHistoryVerifies(q)'
    <3>1. \A i \in DOMAIN fetches[q] : fetches[q][i].receipt \in ReceiptDocs \cup {None}
      BY ChainTypes DEF FetchRow, FetchRows
    <3>. QED
      BY <1>1, <2>1, <3>1 DEF ReleaseVerifies, FetchHistoryVerifies, FetchAdmissible
  <2>5. AdmissionHistoryVerifies(q)'
    BY <2>1 DEF ReleaseVerifies, AdmissionHistoryVerifies
  <2>. QED
    BY <2>1, <2>3, <2>4, <2>5 DEF ReleaseVerifies
<1>3. StoryGoesForward'
  BY DEF StoryGoesForward
<1>. QED
  BY <1>2, <1>3 DEF ChainsVerify

LEMMA LedgerInvStep ==
    ASSUME LedgerInv, [LedgerNext]_ledgerVars
    PROVE  LedgerInv'
<1>1. LedgerTypeOK'
  BY LedgerTypeStep DEF LedgerInv
<1>2. CASE UNCHANGED ledgerVars
  BY <1>1, <1>2 DEF LedgerInv, ledgerVars, registryVars, chainVars, ChainsVerify, StoryGoesForward,
     ReleaseVerifies, RowsTimely, FetchHistoryVerifies, FetchAdmissible, AdmissionHistoryVerifies
<1>3. CASE RegistryNext /\ UNCHANGED chainVars
  BY <1>1, <1>3, RegistryStep DEF LedgerInv
<1>4. ASSUME NEW r \in Releases, AppendObservation(r)
      PROVE  LedgerInv'
  BY <1>1, <1>4, FetchStep, StatusStep, AdmissionStep DEF AppendObservation, LedgerInv
<1>. QED
  BY <1>2, <1>3, <1>4 DEF LedgerNext

(* An empty store verifies. *)
LEMMA LedgerInitInv ==
    ASSUME LedgerInit
    PROVE  LedgerInv
<1>1. LedgerTypeOK
  <2>1. RegistryInit => RegistryTypeOK
    BY DEF RegistryInit, RegistryTypeOK
  <2>. QED
    BY <2>1, EmptySeq DEF LedgerInit, LedgerTypeOK
<1>2. \A i : i \notin DOMAIN <<>>
  OBVIOUS
<1>3. ASSUME NEW r \in Releases
      PROVE  ReleaseVerifies(r) /\ EventsOrdered(statuses[r])
  <2>1. /\ fetches[r] = <<>> /\ statuses[r] = <<>> /\ admissions[r] = <<>>
        /\ fetchHead[r] = None /\ statusHead[r] = None /\ admissionHead[r] = None
    BY DEF LedgerInit
  <2>. QED
    BY <1>2, <2>1 DEF ReleaseVerifies, LinearChain, RowsTimely, FetchHistoryVerifies,
       StatusHistoryVerifies, AdmissionHistoryVerifies, EventsOrdered
<1>. QED
  BY <1>1, <1>3 DEF LedgerInv, ChainsVerify, StoryGoesForward

LEMMA LedgerInvariant == LedgerSpec => []LedgerInv
<1>1. LedgerInit => LedgerInv
  BY LedgerInitInv
<1>2. LedgerInv /\ [LedgerNext]_ledgerVars => LedgerInv'
  BY LedgerInvStep
<1>. QED
  BY <1>1, <1>2, PTL DEF LedgerSpec

(* Every committed history passes the full verification that each later    *)
(* append, pin and read repeats on it: the store never locks itself out.   *)
THEOREM LedgerChainsVerify == LedgerSpec => []ChainsVerify
BY LedgerInvariant, PTL DEF LedgerInv

(* However many observations lie between, the provider's events go forward *)
(* one story, and stop at a withdrawal.                                    *)
THEOREM LedgerStoryGoesForward == LedgerSpec => []StoryGoesForward
BY LedgerInvariant, PTL DEF LedgerInv

(***************************************************************************)
(* Authorization, read off the last rows instead of the heads.             *)
(***************************************************************************)
LEMMA LastRowIndex ==
    ASSUME NEW T, NEW s \in Seq(T), s # <<>>
    PROVE  Len(s) \in DOMAIN s /\ LastRow(s) = s[Len(s)] /\ LastRow(s) \in T
<1>1. Len(s) \in Nat /\ DOMAIN s = 1..Len(s) /\ Len(s) # 0
  BY LenProperties, EmptySeq
<1>. QED
  BY <1>1, ElementOfSeq DEF LastRow

LEMMA AuthorizedByLastRows ==
    ASSUME NEW s \in Seq(StatusRow), NEW status, LinearChain(s, status),
           NEW a \in Seq(AdmissionRow), NEW admission, LinearChain(a, admission)
    PROVE  AuthorizedBy(s, status, a, admission) <=>
             /\ s # <<>> /\ Published(LastRow(s))
             /\ a # <<>> /\ LastRow(a).admission = "authorized" /\ LastRow(a).target = status
<1>1. ASSUME AuthorizedBy(s, status, a, admission)
      PROVE  /\ s # <<>> /\ Published(LastRow(s))
             /\ a # <<>> /\ LastRow(a).admission = "authorized" /\ LastRow(a).target = status
  BY <1>1, HeadIsLast DEF AuthorizedBy
<1>2. ASSUME s # <<>>, Published(LastRow(s)),
             a # <<>>, LastRow(a).admission = "authorized", LastRow(a).target = status
      PROVE  AuthorizedBy(s, status, a, admission)
  <2>1. /\ Len(s) \in DOMAIN s /\ s[Len(s)] = LastRow(s)
        /\ Len(a) \in DOMAIN a /\ a[Len(a)] = LastRow(a)
    BY <1>2, LastRowIndex
  <2>2. LastRow(s).id = status /\ LastRow(a).id = admission
    BY <1>2 DEF LinearChain
  <2>. QED
    BY <1>2, <2>1, <2>2 DEF AuthorizedBy
<1>. QED
  BY <1>1, <1>2

LEMMA AuthorizedMeans ==
    ASSUME LedgerInv, NEW r \in Releases
    PROVE  /\ LinearChain(statuses[r], statusHead[r]) /\ LinearChain(admissions[r], admissionHead[r])
           /\ Authorized(r) <=>
                /\ statuses[r] # <<>> /\ Published(LastRow(statuses[r]))
                /\ admissions[r] # <<>> /\ LastRow(admissions[r]).admission = "authorized"
                /\ LastRow(admissions[r]).target = statusHead[r]
<1>1. LinearChain(statuses[r], statusHead[r]) /\ LinearChain(admissions[r], admissionHead[r])
  BY DEF LedgerInv, ChainsVerify, ReleaseVerifies
<1>. QED
  BY <1>1, ChainTypes, AuthorizedByLastRows DEF LedgerInv, Authorized

(* The event of the highest sequence is unique, so CHOOSE finds it. *)
LEMMA LatestIsHighest ==
    ASSUME NEW s \in Seq(StatusRow), EventsOrdered(s),
           NEW p \in PassedEvents(s), \A f \in PassedEvents(s) : f.seq <= p.seq
    PROVE  LatestOf(s) = p
<1>1. DOMAIN s = 1..Len(s) /\ Len(s) \in Nat /\ \A i \in DOMAIN s : s[i] \in StatusRow
  BY LenProperties, ElementOfSeq
<1>2. ASSUME NEW f \in PassedEvents(s), \A g \in PassedEvents(s) : g.seq <= f.seq
      PROVE  f = p
  <2>1. PICK i \in DOMAIN s : s[i].event = f /\ f # None
    BY PassedEventsOf
  <2>2. PICK j \in DOMAIN s : s[j].event = p /\ p # None
    BY PassedEventsOf
  <2>3. f.seq \in Nat /\ p.seq \in Nat
    BY <1>1, <2>1, <2>2, EventsAssumption DEF StatusRow, StatusRows, EventShape
  <2>4. f.seq = p.seq
    BY <1>2, <2>3
  <2>. QED
    BY <1>1, <2>1, <2>2, <2>4 DEF EventsOrdered
<1>. QED
  BY <1>2 DEF LatestOf

LEMMA LatestIsLastPassed ==
    ASSUME NEW s \in Seq(StatusRow), EventsOrdered(s), s # <<>>, LastRow(s).event # None
    PROVE  LatestOf(s) = LastRow(s).event
<1>1. /\ DOMAIN s = 1..Len(s) /\ Len(s) \in Nat
      /\ Len(s) \in DOMAIN s /\ LastRow(s) = s[Len(s)]
  BY LenProperties, LastRowIndex
<1>2. LastRow(s).event \in PassedEvents(s)
  BY <1>1, PassedEventsOf
<1>3. ASSUME NEW f \in PassedEvents(s)
      PROVE  f.seq <= LastRow(s).event.seq
  <2>1. PICK i \in DOMAIN s : s[i].event = f /\ f # None
    BY PassedEventsOf
  <2>2. f \in StatusEvents
    <3>1. s[i] \in StatusRow
      BY <1>1, ElementOfSeq
    <3>. QED
      BY <2>1, <3>1 DEF StatusRow, StatusRows
  <2>3. f.seq \in Nat
    BY <2>2, EventsAssumption DEF EventShape
  <2>. QED
    BY <1>1, <2>1, <2>3 DEF EventsOrdered
<1>. QED
  BY <1>2, <1>3, LatestIsHighest

(***************************************************************************)
(* A withdrawal, once observed, is never followed by an authorization.     *)
(***************************************************************************)
LEMMA WithdrawnClosed == LedgerInv => WithdrawnNeverAuthorized
<1>. SUFFICES ASSUME LedgerInv, NEW r \in Releases,
                     NEW e \in PassedEvents(statuses[r]), e.status = "withdrawn", Authorized(r)
              PROVE  FALSE
  BY DEF WithdrawnNeverAuthorized, Withdrawn
<1>1. statuses[r] # <<>> /\ Published(LastRow(statuses[r]))
  BY AuthorizedMeans
<1>2. statuses[r] \in Seq(StatusRow) /\ EventsOrdered(statuses[r])
  BY ChainTypes DEF LedgerInv, StoryGoesForward
<1>3. /\ DOMAIN statuses[r] = 1..Len(statuses[r]) /\ Len(statuses[r]) \in Nat
      /\ LastRow(statuses[r]) = statuses[r][Len(statuses[r])] /\ Len(statuses[r]) \in DOMAIN statuses[r]
  BY <1>1, <1>2, LenProperties, LastRowIndex
<1>4. PICK i \in DOMAIN statuses[r] : statuses[r][i].event = e /\ e # None
  BY PassedEventsOf
<1>5. LastRow(statuses[r]).event = e
  BY <1>1, <1>2, <1>3, <1>4 DEF EventsOrdered, Published
<1>. QED
  BY <1>1, <1>5 DEF Published

THEOREM LedgerWithdrawnNeverAuthorized == LedgerSpec => []WithdrawnNeverAuthorized
BY LedgerInvariant, WithdrawnClosed, PTL

(***************************************************************************)
(* Refinement: what one appended status row does to the gate.              *)
(***************************************************************************)
LEMMA LatestAfterAppend ==
    ASSUME NEW s \in Seq(StatusRow), NEW o \in StatusRow,
           EventsOrdered(s), EventsOrdered(Append(s, o)),
           o.event # None => StatusAdmissible(s, o.event)
    PROVE  /\ o.event = None => LatestOf(Append(s, o)) = LatestOf(s)
           /\ o.event # None => LatestOf(Append(s, o)) = o.event
           /\ o.event # None => Gate!Continues(LatestOf(s), o.event)
<1>. DEFINE t == Append(s, o)
<1>1. /\ Len(s) \in Nat /\ DOMAIN s = 1..Len(s) /\ DOMAIN t = 1..(Len(s) + 1)
      /\ \A i \in 1..Len(s) : t[i] = s[i]
      /\ t[Len(s) + 1] = o
      /\ t \in Seq(StatusRow) /\ t # <<>> /\ LastRow(t) = o
  BY AppendRow
<1>2. CASE o.event = None
  <2>1. PassedEvents(t) = PassedEvents(s)
    BY <1>1, <1>2 DEF PassedEvents
  <2>. QED
    BY <1>2, <2>1 DEF LatestOf
<1>3. CASE o.event # None
  <2>1. LatestOf(t) = o.event
    BY <1>1, <1>3, LatestIsLastPassed
  <2>2. CASE PassedEvents(s) = {}
    BY <1>3, <2>1, <2>2 DEF LatestOf, StatusAdmissible, Gate!Continues
  <2>3. CASE PassedEvents(s) # {}
    <3>1. PICK p \in PassedEvents(s) : /\ \A f \in PassedEvents(s) : f.seq <= p.seq
                                       /\ o.event = p \/ Succeeds(p, o.event)
      BY <1>3, <2>3 DEF StatusAdmissible
    <3>2. LatestOf(s) = p /\ p # None
      BY <3>1, LatestIsHighest, PassedEventsOf
    <3>. QED
      BY <1>3, <2>1, <3>1, <3>2 DEF Succeeds, Gate!Continues
  <2>. QED
    BY <2>2, <2>3
<1>. QED
  BY <1>2, <1>3

(* A new status row closes its own Release and no other. *)
LEMMA StatusCloses ==
    ASSUME LedgerInv, LedgerInv', NEW r \in Releases,
           NEW o \in StatusRows(Recent, RowIds(statuses[r]), {now}), AppendStatus(r, o)
    PROVE  /\ ~Authorized(r)'
           /\ \A q \in Releases \ {r} : Authorized(q)' <=> Authorized(q)
           /\ admissions' = admissions
<1>1. /\ statuses'[r] = Append(statuses[r], o) /\ statusHead'[r] = o.id
      /\ \A q \in Releases \ {r} : statuses'[q] = statuses[q] /\ statusHead'[q] = statusHead[q]
      /\ admissions' = admissions /\ admissionHead' = admissionHead
  BY DEF AppendStatus, LedgerInv, LedgerTypeOK
<1>2. \A j \in DOMAIN admissions[r] : admissions[r][j].target # o.id
  <2>1. o.id \notin RowIds(statuses[r])
    BY IdsInUse DEF AppendStatus, MayAppend
  <2>2. \A j \in DOMAIN admissions[r] : admissions[r][j].target \in RowIds(statuses[r])
    BY DEF LedgerInv, ChainsVerify, ReleaseVerifies, AdmissionHistoryVerifies, TargetAdmits, RowIds
  <2>. QED
    BY <2>1, <2>2
<1>3. ~Authorized(r)'
  BY <1>1, <1>2 DEF Authorized, AuthorizedBy
<1>4. ASSUME NEW q \in Releases \ {r}
      PROVE  Authorized(q)' <=> Authorized(q)
  BY <1>1, <1>4 DEF Authorized, AuthorizedBy
<1>. QED
  BY <1>1, <1>3, <1>4

(* A new admission opens or closes its own Release; only a current, valid, *)
(* published answer of the provider lets it open.                          *)
LEMMA AdmissionDecides ==
    ASSUME LedgerInv, LedgerInv', NEW r \in Releases,
           NEW o \in AdmissionRows(Recent, RowIds(admissions[r]), {now}, RowIds(statuses[r])),
           AppendAdmission(r, o)
    PROVE  /\ statuses' = statuses
           /\ admissions'[r] # admissions[r]
           /\ \A q \in Releases \ {r} : Authorized(q)' <=> Authorized(q)
           /\ Authorized(r)' <=> o.admission = "authorized"
           /\ o.admission = "authorized" =>
                 /\ Confirmed(r)
                 /\ LatestEvent(r) # None /\ LatestEvent(r).status = "published"
<1>1. /\ admissions'[r] = Append(admissions[r], o) /\ admissionHead'[r] = o.id
      /\ \A q \in Releases \ {r} : admissions'[q] = admissions[q] /\ admissionHead'[q] = admissionHead[q]
      /\ statuses' = statuses /\ statusHead' = statusHead /\ o.target = statusHead[r]
  BY DEF AppendAdmission, LedgerInv, LedgerTypeOK
<1>2. /\ statuses[r] \in Seq(StatusRow) /\ admissions[r] \in Seq(AdmissionRow)
      /\ LinearChain(statuses[r], statusHead[r]) /\ EventsOrdered(statuses[r])
      /\ o \in AdmissionRow
  BY ChainTypes, NewRowTypes DEF LedgerInv, ChainsVerify, ReleaseVerifies, StoryGoesForward
<1>3. /\ Append(admissions[r], o) # <<>> /\ LastRow(Append(admissions[r], o)) = o
      /\ Append(admissions[r], o) # admissions[r]
  <2>1. /\ Len(Append(admissions[r], o)) = Len(admissions[r]) + 1 /\ Len(admissions[r]) \in Nat
        /\ Append(admissions[r], o) # <<>> /\ LastRow(Append(admissions[r], o)) = o
    BY <1>2, AppendRow
  <2>. QED
    BY <2>1
<1>4. PICK i \in DOMAIN statuses[r] : TargetAdmits(statuses[r][i], o)
  BY DEF AppendAdmission
<1>5. statuses[r] # <<>> /\ LastRow(statuses[r]) = statuses[r][i]
  BY <1>1, <1>2, <1>4, HeadIsLast DEF TargetAdmits
<1>6. o.admission = "authorized" => Published(LastRow(statuses[r]))
  BY <1>4, <1>5 DEF TargetAdmits
<1>7. Authorized(r)' <=> o.admission = "authorized"
  <2>. DEFINE a == Append(admissions[r], o)
  <2>1. LinearChain(admissions'[r], admissionHead'[r])
    BY DEF LedgerInv, ChainsVerify, ReleaseVerifies
  <2>2. LinearChain(a, o.id) /\ a \in Seq(AdmissionRow) /\ a # <<>> /\ LastRow(a) = o
    BY <1>1, <1>2, <1>3, <2>1, AppendRow
  <2>. HIDE DEF a
  <2>3. AuthorizedBy(statuses[r], statusHead[r], a, o.id) <=>
             /\ statuses[r] # <<>> /\ Published(LastRow(statuses[r]))
             /\ a # <<>> /\ LastRow(a).admission = "authorized"
             /\ LastRow(a).target = statusHead[r]
    BY <1>2, <2>2, AuthorizedByLastRows
  <2>4. Authorized(r)' <=> AuthorizedBy(statuses[r], statusHead[r], a, o.id)
    BY <1>1 DEF Authorized, a
  <2>. QED
    BY <1>1, <1>5, <1>6, <2>2, <2>3, <2>4
<1>8. ASSUME NEW q \in Releases \ {r}
      PROVE  Authorized(q)' <=> Authorized(q)
  BY <1>1, <1>8 DEF Authorized, AuthorizedBy
<1>9. o.admission = "authorized" =>
                 /\ Confirmed(r)
                 /\ LatestEvent(r) # None /\ LatestEvent(r).status = "published"
  BY <1>2, <1>5, <1>6, LatestIsLastPassed DEF Published, LatestEvent, Confirmed
<1>. QED
  BY <1>1, <1>3, <1>5, <1>7, <1>8, <1>9

(* Steps that touch neither status nor admission chains leave the gate alone. *)
LEMMA OtherStepsStutter ==
    ASSUME UNCHANGED <<statuses, admissions, statusHead, admissionHead>>
    PROVE  /\ UNCHANGED [r \in Releases |-> LatestEvent(r)]
           /\ UNCHANGED {r \in Releases : Confirmed(r)}
           /\ UNCHANGED {r \in Releases : Authorized(r)}
           /\ \A r \in Releases : Authorized(r)' <=> Authorized(r)
BY DEF LatestEvent, Confirmed, Authorized

(* Every committed observation is one step of the gate, or none: access    *)
(* opens only by admitting the provider's current, valid, published answer *)
(* and every later answer closes it.                                       *)
THEOREM LedgerImplementsGate == LedgerSpec => ImplementsGate
<1>1. LedgerInit => Gate!GateInit
  <2>. SUFFICES ASSUME LedgerInit PROVE Gate!GateInit
    OBVIOUS
  <2>1. \A r \in Releases : statuses[r] = <<>> /\ admissions[r] = <<>>
    BY DEF LedgerInit
  <2>2. \A i : i \notin DOMAIN <<>>
    OBVIOUS
  <2>3. PassedEvents(<<>>) = {}
    BY <2>2 DEF PassedEvents
  <2>4. \A r \in Releases : LatestEvent(r) = None /\ ~Authorized(r)
    BY <2>1, <2>2, <2>3 DEF LatestEvent, LatestOf, Authorized, AuthorizedBy
  <2>5. \A r \in Releases : ~Confirmed(r)
    BY <2>1 DEF Confirmed
  <2>6. [r \in Releases |-> LatestEvent(r)] = [r \in Releases |-> None]
    BY <2>4
  <2>7. {r \in Releases : Confirmed(r)} = {} /\ {r \in Releases : Authorized(r)} = {}
    BY <2>4, <2>5
  <2>. QED
    BY <2>6, <2>7 DEF Gate!GateInit
<1>2. LedgerInv /\ LedgerInv' /\ [LedgerNext]_ledgerVars => [Gate!GateNext]_(Gate!gateVars)
  <2>. SUFFICES ASSUME LedgerInv, LedgerInv', [LedgerNext]_ledgerVars
                PROVE  [Gate!GateNext]_(Gate!gateVars)
    OBVIOUS
  <2>1. CASE UNCHANGED <<statuses, admissions, statusHead, admissionHead>>
    BY <2>1, OtherStepsStutter DEF Gate!gateVars
  <2>2. ASSUME NEW r \in Releases,
               NEW o \in StatusRows(Recent, RowIds(statuses[r]), {now}), AppendStatus(r, o)
        PROVE  Gate!GateNext
    <3>1. /\ o \in StatusRow /\ statuses[r] \in Seq(StatusRow)
          /\ EventsOrdered(statuses[r]) /\ EventsOrdered(statuses'[r])
      BY NewRowTypes, ChainTypes DEF LedgerInv, StoryGoesForward
    <3>2. /\ statuses'[r] = Append(statuses[r], o)
          /\ \A q \in Releases \ {r} : statuses'[q] = statuses[q]
      BY <2>2 DEF AppendStatus, LedgerInv, LedgerTypeOK
    <3>3. /\ o.event = None => LatestEvent(r)' = LatestEvent(r)
          /\ o.event # None => LatestEvent(r)' = o.event /\ Gate!Continues(LatestEvent(r), o.event)
      BY <2>2, <3>1, <3>2, LatestAfterAppend DEF AppendStatus, LatestEvent
    <3>4. \A q \in Releases \ {r} : LatestEvent(q)' = LatestEvent(q)
      BY <3>2 DEF LatestEvent
    <3>5. statuses'[r] # <<>> /\ LastRow(statuses'[r]) = o
      BY <3>1, <3>2, AppendRow
    <3>6. /\ ~Authorized(r)'
          /\ \A q \in Releases \ {r} : Authorized(q)' <=> Authorized(q)
      BY <2>2, StatusCloses
    <3>7. /\ Confirmed(r)' <=> o.event # None
          /\ \A q \in Releases \ {r} : Confirmed(q)' <=> Confirmed(q)
      BY <3>2, <3>5 DEF Confirmed
    <3>8. {q \in Releases : Authorized(q)}' = {q \in Releases : Authorized(q)} \ {r}
      BY <3>6
    <3>9. CASE o.event = None
      <4>1. {q \in Releases : Confirmed(q)}' = {q \in Releases : Confirmed(q)} \ {r}
        BY <3>7, <3>9
      <4>2. [q \in Releases |-> LatestEvent(q)]' = [q \in Releases |-> LatestEvent(q)]
        BY <3>3, <3>4, <3>9
      <4>3. Gate!LoseTouch(r)
        BY <3>8, <4>1, <4>2 DEF Gate!LoseTouch
      <4>. QED
        BY <4>3 DEF Gate!GateNext
    <3>10. CASE o.event # None
      <4>1. o.event \in StatusEvents
        BY <3>1, <3>10 DEF StatusRow, StatusRows
      <4>2. {q \in Releases : Confirmed(q)}' = {q \in Releases : Confirmed(q)} \cup {r}
        BY <3>7, <3>10
      <4>3. [q \in Releases |-> LatestEvent(q)]'
              = [[q \in Releases |-> LatestEvent(q)] EXCEPT ![r] = o.event]
        BY <3>3, <3>4, <3>10
      <4>4. Gate!Continues([q \in Releases |-> LatestEvent(q)][r], o.event)
        BY <3>3, <3>10
      <4>5. Gate!Observe(r, o.event)
        BY <3>8, <4>2, <4>3, <4>4 DEF Gate!Observe
      <4>. QED
        BY <4>1, <4>5 DEF Gate!GateNext
    <3>. QED
      BY <3>9, <3>10
  <2>3. ASSUME NEW r \in Releases,
               NEW o \in AdmissionRows(Recent, RowIds(admissions[r]), {now}, RowIds(statuses[r])),
               AppendAdmission(r, o)
        PROVE  Gate!GateNext
    <3>1. /\ statuses' = statuses
          /\ \A q \in Releases \ {r} : Authorized(q)' <=> Authorized(q)
          /\ Authorized(r)' <=> o.admission = "authorized"
          /\ o.admission = "authorized" =>
                /\ Confirmed(r)
                /\ LatestEvent(r) # None /\ LatestEvent(r).status = "published"
      BY <2>3, AdmissionDecides
    <3>2. /\ [q \in Releases |-> LatestEvent(q)]' = [q \in Releases |-> LatestEvent(q)]
          /\ {q \in Releases : Confirmed(q)}' = {q \in Releases : Confirmed(q)}
      BY <3>1 DEF LatestEvent, Confirmed
    <3>3. CASE o.admission = "authorized"
      <4>1. {q \in Releases : Authorized(q)}' = {q \in Releases : Authorized(q)} \cup {r}
        BY <3>1, <3>3
      <4>2. /\ r \in {q \in Releases : Confirmed(q)}
            /\ [q \in Releases |-> LatestEvent(q)][r] # None
            /\ [q \in Releases |-> LatestEvent(q)][r].status = "published"
        BY <3>1, <3>3
      <4>3. Gate!Admit(r)
        BY <3>2, <4>1, <4>2 DEF Gate!Admit
      <4>. QED
        BY <4>3 DEF Gate!GateNext
    <3>4. CASE o.admission # "authorized"
      <4>1. {q \in Releases : Authorized(q)}' = {q \in Releases : Authorized(q)} \ {r}
        BY <3>1, <3>4
      <4>2. Gate!Refuse(r)
        BY <3>2, <4>1 DEF Gate!Refuse
      <4>. QED
        BY <4>2 DEF Gate!GateNext
    <3>. QED
      BY <3>3, <3>4
  <2>. QED
    BY <2>1, <2>2, <2>3
       DEF LedgerNext, AppendObservation, AppendFetch, chainVars, ledgerVars
<1>. QED
  BY <1>1, <1>2, LedgerInvariant, PTL DEF LedgerSpec, ImplementsGate, Gate!GateSpec

(* Access is gained by an admission of its own and lost by every answer.   *)
THEOREM LedgerFreshAdmission == LedgerSpec => AccessNeedsFreshAdmission
<1>. DEFINE Fresh == \A r \in Releases :
              /\ statuses'[r] # statuses[r] => ~Authorized(r)'
              /\ (~Authorized(r) /\ Authorized(r)') => admissions'[r] # admissions[r]
<1>1. LedgerInv /\ LedgerInv' /\ LedgerNext => Fresh
  <2>. SUFFICES ASSUME LedgerInv, LedgerInv', LedgerNext PROVE Fresh
    OBVIOUS
  <2>1. CASE UNCHANGED <<statuses, admissions, statusHead, admissionHead>>
    BY <2>1, OtherStepsStutter
  <2>2. ASSUME NEW r \in Releases,
               NEW o \in StatusRows(Recent, RowIds(statuses[r]), {now}), AppendStatus(r, o)
        PROVE  Fresh
    <3>1. \A q \in Releases \ {r} : statuses'[q] = statuses[q]
      BY <2>2 DEF AppendStatus, LedgerInv, LedgerTypeOK
    <3>. QED
      BY <2>2, <3>1, StatusCloses
  <2>3. ASSUME NEW r \in Releases,
               NEW o \in AdmissionRows(Recent, RowIds(admissions[r]), {now}, RowIds(statuses[r])),
               AppendAdmission(r, o)
        PROVE  Fresh
    BY <2>3, AdmissionDecides
  <2>. QED
    BY <2>1, <2>2, <2>3 DEF LedgerNext, AppendObservation, AppendFetch, chainVars
<1>2. LedgerInv /\ LedgerInv' /\ [LedgerNext]_ledgerVars => [Fresh]_ledgerVars
  BY <1>1
<1>. QED
  BY <1>2, LedgerInvariant, PTL DEF LedgerSpec, AccessNeedsFreshAdmission

(***************************************************************************)
(* Ids.  A row that is appended brings a new one.                          *)
(***************************************************************************)
RowsOf(s) == {s[i] : i \in DOMAIN s}
RowsOfAll(c) == UNION {RowsOf(c[r]) : r \in Releases}
NamedIn(c, id) == {row \in RowsOfAll(c) : row.id = id}

LEMMA AppendAddsRow ==
    ASSUME NEW T, NEW s \in Seq(T), NEW o \in T
    PROVE  RowsOf(Append(s, o)) = RowsOf(s) \cup {o}
<1>. DEFINE t == Append(s, o)
<1>1. /\ Len(s) \in Nat /\ DOMAIN s = 1..Len(s) /\ DOMAIN t = 1..(Len(s) + 1)
      /\ \A i \in 1..Len(s) : t[i] = s[i]
      /\ t[Len(s) + 1] = o
  BY AppendRow
<1>. HIDE DEF t
<1>2. \A i \in 1..(Len(s) + 1) : i \in 1..Len(s) \/ i = Len(s) + 1
  BY <1>1
<1>3. Len(s) + 1 \in DOMAIN t /\ \A i \in DOMAIN s : i \in DOMAIN t
  BY <1>1
<1>4. ASSUME NEW row \in RowsOf(t)
      PROVE  row \in RowsOf(s) \cup {o}
  <2>1. PICK i \in DOMAIN t : row = t[i]
    BY <1>4 DEF RowsOf
  <2>. QED
    BY <1>1, <1>2, <2>1 DEF RowsOf
<1>5. ASSUME NEW row \in RowsOf(s) \cup {o}
      PROVE  row \in RowsOf(t)
  <2>1. CASE row = o
    BY <1>1, <1>3, <2>1 DEF RowsOf
  <2>2. CASE row \in RowsOf(s)
    <3>1. PICK i \in DOMAIN s : row = s[i]
      BY <2>2 DEF RowsOf
    <3>. QED
      BY <1>1, <1>3, <3>1 DEF RowsOf
  <2>. QED
    BY <1>5, <2>1, <2>2
<1>. QED
  BY <1>4, <1>5 DEF t

(* A chain that grows by a row of another id has the same rows of this one. *)
GrownBy(d, c, r, o) == /\ RowsOf(d[r]) = RowsOf(c[r]) \cup {o}
                       /\ \A q \in Releases : q # r => RowsOf(d[q]) = RowsOf(c[q])

LEMMA GrowthKeepsRows ==
    ASSUME NEW c, NEW d, NEW r \in Releases, NEW o, NEW id, o.id # id, GrownBy(d, c, r, o)
    PROVE  NamedIn(d, id) = NamedIn(c, id)
<1>1. ASSUME NEW row
      PROVE  row \in RowsOfAll(d) <=> row \in RowsOfAll(c) \/ row = o
  <2>1. /\ row \in RowsOfAll(d) <=> \E q \in Releases : row \in RowsOf(d[q])
        /\ row \in RowsOfAll(c) <=> \E q \in Releases : row \in RowsOf(c[q])
    BY DEF RowsOfAll
  <2>. QED
    BY <2>1 DEF GrownBy
<1>. QED
  BY <1>1 DEF NamedIn

LEMMA AppendKeepsNames ==
    ASSUME LedgerTypeOK, LedgerNext, NEW id \in UsedIds
    PROVE  /\ NamedIn(fetches', id) = NamedIn(fetches, id)
           /\ NamedIn(statuses', id) = NamedIn(statuses, id)
           /\ NamedIn(admissions', id) = NamedIn(admissions, id)
<1>1. /\ fetches \in [Releases -> Seq(FetchRow)] /\ statuses \in [Releases -> Seq(StatusRow)]
      /\ admissions \in [Releases -> Seq(AdmissionRow)]
  BY DEF LedgerTypeOK
<1>2. CASE UNCHANGED chainVars
  BY <1>2 DEF chainVars
<1>3. ASSUME NEW r \in Releases, NEW o \in FetchRow, AppendFetch(r, o)
      PROVE  NamedIn(fetches', id) = NamedIn(fetches, id)
  <2>1. RowsOf(Append(fetches[r], o)) = RowsOf(fetches[r]) \cup {o}
    BY <1>1, AppendAddsRow
  <2>2. o.id # id /\ fetches' = [fetches EXCEPT ![r] = Append(@, o)] /\ DOMAIN fetches = Releases
    BY <1>1, <1>3 DEF AppendFetch, MayAppend
  <2>3. fetches'[r] = Append(fetches[r], o) /\ \A q \in Releases : q # r => fetches'[q] = fetches[q]
    BY <2>2
  <2>4. GrownBy(fetches', fetches, r, o)
    BY <2>1, <2>3 DEF GrownBy
  <2>. QED
    BY <2>2, <2>4, GrowthKeepsRows
<1>4. ASSUME NEW r \in Releases, NEW o \in StatusRow, AppendStatus(r, o)
      PROVE  NamedIn(statuses', id) = NamedIn(statuses, id)
  <2>1. RowsOf(Append(statuses[r], o)) = RowsOf(statuses[r]) \cup {o}
    BY <1>1, AppendAddsRow
  <2>2. o.id # id /\ statuses' = [statuses EXCEPT ![r] = Append(@, o)] /\ DOMAIN statuses = Releases
    BY <1>1, <1>4 DEF AppendStatus, MayAppend
  <2>3. statuses'[r] = Append(statuses[r], o) /\ \A q \in Releases : q # r => statuses'[q] = statuses[q]
    BY <2>2
  <2>4. GrownBy(statuses', statuses, r, o)
    BY <2>1, <2>3 DEF GrownBy
  <2>. QED
    BY <2>2, <2>4, GrowthKeepsRows
<1>5. ASSUME NEW r \in Releases, NEW o \in AdmissionRow, AppendAdmission(r, o)
      PROVE  NamedIn(admissions', id) = NamedIn(admissions, id)
  <2>1. RowsOf(Append(admissions[r], o)) = RowsOf(admissions[r]) \cup {o}
    BY <1>1, AppendAddsRow
  <2>2. o.id # id /\ admissions' = [admissions EXCEPT ![r] = Append(@, o)] /\ DOMAIN admissions = Releases
    BY <1>1, <1>5 DEF AppendAdmission, MayAppend
  <2>3. admissions'[r] = Append(admissions[r], o) /\ \A q \in Releases : q # r => admissions'[q] = admissions[q]
    BY <2>2
  <2>4. GrownBy(admissions', admissions, r, o)
    BY <2>1, <2>3 DEF GrownBy
  <2>. QED
    BY <2>2, <2>4, GrowthKeepsRows
<1>6. CASE \E r \in Releases : AppendObservation(r)
  <2>1. PICK r \in Releases : AppendObservation(r)
    BY <1>6
  <2>2. \/ \E o \in FetchRow : AppendFetch(r, o)
        \/ \E o \in StatusRow : AppendStatus(r, o)
        \/ \E o \in AdmissionRow : AppendAdmission(r, o)
    BY <2>1, NewRowTypes DEF AppendObservation
  <2>3. CASE \E o \in FetchRow : AppendFetch(r, o)
    BY <1>3, <2>3 DEF AppendFetch
  <2>4. CASE \E o \in StatusRow : AppendStatus(r, o)
    BY <1>4, <2>4 DEF AppendStatus
  <2>5. CASE \E o \in AdmissionRow : AppendAdmission(r, o)
    BY <1>5, <2>5 DEF AppendAdmission
  <2>. QED
    BY <2>2, <2>3, <2>4, <2>5
<1>. QED
  BY <1>2, <1>6 DEF LedgerNext

(* An id, in whichever chain of whichever Release it is stored, names the   *)
(* same row for ever: an append brings an id that names nothing yet (the    *)
(* UNIQUE ids and MayAppend), and no row is rewritten.                      *)
THEOREM LedgerIdsNeverRemapped == LedgerSpec => IdsNeverRemapped
<1>. DEFINE Kept == \A id \in UsedIds : RowsNamed(id)' = RowsNamed(id)
<1>1. LedgerTypeOK /\ LedgerNext => Kept
  <2>1. SUFFICES ASSUME LedgerTypeOK, LedgerNext, NEW id \in UsedIds
                 PROVE  RowsNamed(id)' = RowsNamed(id)
    OBVIOUS
  <2>2. RowsNamed(id) = NamedIn(fetches, id) \cup NamedIn(statuses, id) \cup NamedIn(admissions, id)
    <3>1. UNION {{s[i] : i \in DOMAIN s} : s \in {fetches[r] : r \in Releases} \cup {statuses[r] : r \in Releases}
                                                \cup {admissions[r] : r \in Releases}}
            = RowsOfAll(fetches) \cup RowsOfAll(statuses) \cup RowsOfAll(admissions)
      BY DEF RowsOfAll, RowsOf
    <3>. QED
      BY <3>1 DEF RowsNamed, NamedIn
  <2>3. RowsNamed(id)' = NamedIn(fetches', id) \cup NamedIn(statuses', id) \cup NamedIn(admissions', id)
    <3>1. UNION {{s[i] : i \in DOMAIN s} : s \in {fetches'[r] : r \in Releases} \cup {statuses'[r] : r \in Releases}
                                                \cup {admissions'[r] : r \in Releases}}
            = RowsOfAll(fetches') \cup RowsOfAll(statuses') \cup RowsOfAll(admissions')
      BY DEF RowsOfAll, RowsOf
    <3>. QED
      BY <3>1 DEF RowsNamed, NamedIn
  <2>. QED
    BY <2>1, <2>2, <2>3, AppendKeepsNames
<1>2. LedgerTypeOK /\ [LedgerNext]_ledgerVars => [Kept]_ledgerVars
  BY <1>1
<1>. QED
  BY <1>2, LedgerTypeCorrect, PTL DEF LedgerSpec, IdsNeverRemapped

-----------------------------------------------------------------------------
(***************************************************************************)
(* For any closures, runs, confirmations and clock readings: what a pin    *)
(* rests on stays as it was, so that audits and retries are never lost;    *)
(* and ordinary access needs every retained Release to be published still, *)
(* and once lost never comes back.                                         *)
(***************************************************************************)

(* What stays true of an admitted run, whatever is recorded, observed or    *)
(* withdrawn later: its material is stored, its rows are where it found     *)
(* them, and all of it is older than its Manifest.                          *)
Grounded(p) ==
    LET m == p.manifest IN
    /\ m.root \in Releases /\ m.receipt \in ReceiptDocs /\ p.closure \in ClosureDocs
    /\ m.receipt.root = m.root /\ p.closure.root = m.root
    /\ identity[m.root] = m.ident
    /\ receipts[m.receipt] # None /\ receipts[m.receipt].closure = p.closure
    /\ closures[p.closure] # None /\ ClosureStored(p.closure)

Predated(p) ==
    LET m == p.manifest IN
    /\ m.created <= p.at
    /\ receipts[m.receipt].at <= m.created /\ closures[p.closure] <= m.created
    /\ CitedBefore(fetches[m.root], m.fetch, m.created)
    /\ CitedBefore(admissions[m.root], m.admission, m.created)
    /\ MaterialPredates(m, p.closure)
    /\ p.confirmation # None => \A r \in DOMAIN p.closure.nodes :
           CitedBefore(statuses[r], p.statuses[r], m.created)

Witnessed(p) ==
    /\ DOMAIN p.statuses = DOMAIN p.closure.nodes
    /\ p.manifest.status = p.statuses[p.manifest.root]
    /\ \A r \in DOMAIN p.statuses : StatusRowPublished(r, p.statuses[r])

Sound(p) == Grounded(p) /\ Predated(p) /\ Witnessed(p)

(* Only v2 pins lack a confirmation, and the upgrade quarantines them all.  *)
Confirmed3(run) == (version = 3 /\ run \notin quarantined) => pins[run].confirmation # None

PinInv ==
    /\ LedgerInv
    /\ pins = [run \in Runs |-> pins[run]]
    /\ \A run \in Runs : pins[run] # None => Sound(pins[run]) /\ Confirmed3(run)

-----------------------------------------------------------------------------
(* Nothing a ledger step does takes away what is there. *)

Extends(s, t) == \A i \in DOMAIN s : i \in DOMAIN t /\ t[i] = s[i]

(* The members of a stored closure are Releases with their artifacts.       *)
LEMMA ClosureParts ==
    ASSUME NEW c \in ClosureDocs
    PROVE  /\ DOMAIN c.nodes \subseteq Releases /\ c.root \in DOMAIN c.nodes
           /\ \A r \in DOMAIN c.nodes : /\ c.nodes[r].ident \in Identities
                                        /\ DOMAIN c.nodes[r].artifacts \subseteq ArtifactIds
BY BundleParts DEF ClosureDocs, Closure, Members

(* The rows of the registry: none is replaced, whoever is observed.         *)
LEMMA RegistryKept ==
    ASSUME LedgerInv, [LedgerNext]_ledgerVars
    PROVE  /\ \A r \in Releases : identity[r] # None => identity'[r] = identity[r]
           /\ \A r \in Releases : manifests[r] # None => manifests'[r] = manifests[r]
           /\ \A r \in Releases, i \in ArtifactIds :
                  artifacts[r][i] # None => artifacts'[r][i] = artifacts[r][i]
           /\ cached \subseteq cached'
           /\ \A c \in ClosureDocs : closures[c] # None => closures'[c] = closures[c]
           /\ \A rc \in ReceiptDocs : receipts[rc] # None => receipts'[rc] = receipts[rc]
<1> USE DEF LedgerInv, LedgerTypeOK, RegistryTypeOK
<1>1. CASE UNCHANGED registryVars
  BY <1>1 DEF registryVars
<1>2. ASSUME NEW b \in Bundles, RecordVerifiedConsumption(b)
      PROVE  /\ \A r \in Releases : identity[r] # None => identity'[r] = identity[r]
             /\ \A r \in Releases : manifests[r] # None => manifests'[r] = manifests[r]
             /\ \A r \in Releases, i \in ArtifactIds :
                    artifacts[r][i] # None => artifacts'[r][i] = artifacts[r][i]
             /\ cached \subseteq cached'
             /\ \A c \in ClosureDocs : closures[c] # None => closures'[c] = closures[c]
             /\ \A rc \in ReceiptDocs : receipts[rc] # None => receipts'[rc] = receipts[rc]
  BY <1>2 DEF RecordVerifiedConsumption, Recordable, IdentityAgrees, Keep
<1>3. ASSUME NEW r \in Releases, AppendObservation(r)
      PROVE  /\ UNCHANGED <<manifests, artifacts, cached, closures, receipts>>
             /\ \A q \in Releases : identity[q] # None => identity'[q] = identity[q]
  BY <1>3 DEF AppendObservation, AppendFetch, AppendStatus, AppendAdmission, EnsureIdentity, MayAppend,
     IdentityAgrees
<1> QED
  BY <1>1, <1>2, <1>3 DEF LedgerNext, RegistryNext, ClockMoves, ledgerVars

(* The chains only grow. *)
LEMMA ChainsKept ==
    ASSUME LedgerInv, [LedgerNext]_ledgerVars, NEW r \in Releases
    PROVE  /\ Extends(fetches[r], fetches'[r])
           /\ Extends(statuses[r], statuses'[r])
           /\ Extends(admissions[r], admissions'[r])
<1>1. CASE UNCHANGED chainVars
  BY <1>1 DEF chainVars, Extends
<1>2. ASSUME NEW q \in Releases, AppendObservation(q)
      PROVE  /\ Extends(fetches[r], fetches'[r])
             /\ Extends(statuses[r], statuses'[r])
             /\ Extends(admissions[r], admissions'[r])
  <2>1. ASSUME NEW T, NEW s \in Seq(T), NEW o \in T
        PROVE  Extends(s, Append(s, o))
    BY AppendRow DEF Extends
  <2>2. /\ fetches \in [Releases -> Seq(FetchRow)]
        /\ statuses \in [Releases -> Seq(StatusRow)]
        /\ admissions \in [Releases -> Seq(AdmissionRow)]
    BY DEF LedgerInv, LedgerTypeOK
  <2>3. ASSUME NEW o \in FetchRows(Recent, RowIds(fetches[q]), {now}), AppendFetch(q, o)
        PROVE  Extends(fetches[r], fetches'[r]) /\ UNCHANGED <<statuses, admissions>>
    <3>1. o \in FetchRow
      BY <2>3, NewRowTypes DEF LedgerInv
    <3> QED
      BY <2>1, <2>2, <2>3, <3>1 DEF AppendFetch, Extends
  <2>4. ASSUME NEW o \in StatusRows(Recent, RowIds(statuses[q]), {now}), AppendStatus(q, o)
        PROVE  Extends(statuses[r], statuses'[r]) /\ UNCHANGED <<fetches, admissions>>
    <3>1. o \in StatusRow
      BY <2>4, NewRowTypes DEF LedgerInv
    <3> QED
      BY <2>1, <2>2, <2>4, <3>1 DEF AppendStatus, Extends
  <2>5. ASSUME NEW o \in AdmissionRows(Recent, RowIds(admissions[q]), {now}, RowIds(statuses[q])),
               AppendAdmission(q, o)
        PROVE  Extends(admissions[r], admissions'[r]) /\ UNCHANGED <<fetches, statuses>>
    <3>1. o \in AdmissionRow
      BY <2>5, NewRowTypes DEF LedgerInv
    <3> QED
      BY <2>1, <2>2, <2>5, <3>1 DEF AppendAdmission, Extends
  <2> QED
    BY <1>2, <2>3, <2>4, <2>5 DEF AppendObservation, Extends
<1> QED
  BY <1>1, <1>2 DEF LedgerNext, ledgerVars, chainVars

(* A pin once sound stays so. *)
LEMMA SoundStays ==
    ASSUME LedgerInv, [LedgerNext]_ledgerVars, NEW p, Sound(p)
    PROVE  Sound(p)'
<1> DEFINE m == p.manifest
           c == p.closure
<1>1. /\ m.root \in Releases /\ m.receipt \in ReceiptDocs /\ c \in ClosureDocs
      /\ ClosureStored(c) /\ closures[c] # None /\ receipts[m.receipt] # None
      /\ identity[m.root] = m.ident /\ c.root = m.root
  BY DEF Sound, Grounded
<1>2. /\ DOMAIN c.nodes \subseteq Releases /\ c.root \in DOMAIN c.nodes
      /\ \A r \in DOMAIN c.nodes : /\ c.nodes[r].ident \in Identities
                                   /\ DOMAIN c.nodes[r].artifacts \subseteq ArtifactIds
  BY <1>1, ClosureParts
<1>3. \A r \in DOMAIN c.nodes :
        /\ identity[r] = c.nodes[r].ident /\ identity'[r] = identity[r]
        /\ manifests[r] # None /\ manifests'[r] = manifests[r]
        /\ \A i \in DOMAIN c.nodes[r].artifacts :
              artifacts[r][i] # None /\ artifacts'[r][i] = artifacts[r][i]
  BY <1>1, <1>2, RegistryKept, NoneAssumption DEF ClosureStored, MemberStored
<1>4. receipts'[m.receipt] = receipts[m.receipt] /\ closures'[c] = closures[c] /\ cached \subseteq cached'
  BY <1>1, RegistryKept
<1>5. Grounded(p)'
  <2>1. ClosureStored(c)'
    BY <1>1, <1>3, <1>4 DEF ClosureStored, MemberStored
  <2>2. identity'[m.root] = m.ident
    BY <1>1, <1>2, <1>3
  <2> QED
    BY <1>1, <1>4, <2>1, <2>2 DEF Sound, Grounded
<1>6. \A r \in Releases : /\ Extends(fetches[r], fetches'[r]) /\ Extends(statuses[r], statuses'[r])
                          /\ Extends(admissions[r], admissions'[r])
  BY ChainsKept
<1>7. Predated(p)'
  <2>1. MaterialPredates(m, c)'
    BY <1>3 DEF Sound, Predated, MaterialPredates
  <2>2. ASSUME NEW s, NEW t, Extends(s, t), NEW id, NEW at, CitedBefore(s, id, at)
        PROVE  CitedBefore(t, id, at)
    BY <2>2 DEF CitedBefore, Extends
  <2>3. CitedBefore(fetches[m.root], m.fetch, m.created)'
    BY <1>1, <1>6, <2>2 DEF Sound, Predated
  <2>4. CitedBefore(admissions[m.root], m.admission, m.created)'
    BY <1>1, <1>6, <2>2 DEF Sound, Predated
  <2>5. p.confirmation # None => \A r \in DOMAIN c.nodes : CitedBefore(statuses[r], p.statuses[r], m.created)'
    BY <1>2, <1>6, <2>2 DEF Sound, Predated
  <2> QED
    BY <1>4, <2>1, <2>3, <2>4, <2>5 DEF Sound, Predated
<1>8. Witnessed(p)'
  BY <1>2, <1>6 DEF Sound, Witnessed, StatusRowPublished, Extends
<1> QED
  BY <1>5, <1>7, <1>8 DEF Sound

-----------------------------------------------------------------------------
(* What an admission finds. *)

LEMMA RowFound ==
    ASSUME NEW s, NEW id \in RowIds(s)
    PROVE  \E i \in DOMAIN s : s[i].id = id /\ RowOf(s, id) = s[i]
<1>1. \E row \in {s[i] : i \in DOMAIN s} : row.id = id
  BY DEF RowIds
<1>2. RowOf(s, id) \in {s[i] : i \in DOMAIN s} /\ RowOf(s, id).id = id
  BY <1>1 DEF RowOf
<1> QED
  BY <1>2

(* A status head names the last row of its chain.                           *)
LEMMA HeadStored ==
    ASSUME LedgerInv, NEW r \in Releases, statusHead[r] # None
    PROVE  statusHead[r] \in RowIds(statuses[r])
<1>1. statuses[r] \in Seq(StatusRow) /\ LinearChain(statuses[r], statusHead[r])
  BY ChainTypes DEF LedgerInv, ChainsVerify, ReleaseVerifies
<1>2. statuses[r] # <<>> /\ statusHead[r] = LastRow(statuses[r]).id
  BY <1>1 DEF LinearChain
<1>3. Len(statuses[r]) \in DOMAIN statuses[r] /\ LastRow(statuses[r]) = statuses[r][Len(statuses[r])]
  BY <1>1, <1>2, LastRowIndex
<1> QED
  BY <1>2, <1>3 DEF RowIds

LEMMA PublishedHead ==
    ASSUME LedgerInv, NEW r \in Releases, CurrentlyPublished(r)
    PROVE  /\ StatusRowPublished(r, statusHead[r])
           /\ \A t : Before(t, RowOf(statuses[r], statusHead[r])) => CitedBefore(statuses[r], statusHead[r], t)
<1>1. statusHead[r] \in RowIds(statuses[r]) /\ Published(RowOf(statuses[r], statusHead[r]))
  BY HeadStored DEF CurrentlyPublished
<1> QED
  BY <1>1, RowFound DEF StatusRowPublished, CitedBefore, Before

(* Both admissions, of this and of the v2 release, leave a sound pin.       *)
LEMMA AdmissionSound ==
    ASSUME LedgerInv, NEW r \in Releases, NEW m \in PresentableManifests(r),
           MaterialStored(m), HeadsAdmit(m), MaterialPredates(m, receipts[m.receipt].closure),
           NEW cid,
           \A q \in DOMAIN receipts[m.receipt].closure.nodes :
               /\ CurrentlyPublished(q)
               /\ cid # None => Before(m.created, RowOf(statuses[q], statusHead[q]))
    PROVE  Sound(Pin(m, cid))
<1> DEFINE c == receipts[m.receipt].closure
           p == Pin(m, cid)
<1>1. /\ m.root = r /\ m.receipt \in ReceiptDocs
      /\ m.fetch \in RowIds(fetches[r]) /\ m.admission \in RowIds(admissions[r])
  BY DEF PresentableManifests
<1>2. /\ p.manifest = m /\ p.closure = c /\ p.at = now /\ p.confirmation = cid
      /\ DOMAIN p.statuses = DOMAIN c.nodes
      /\ \A q \in DOMAIN c.nodes : p.statuses[q] = statusHead[q]
  BY DEF Pin
<1> HIDE DEF p
<1>3. c \in ClosureDocs
  BY <1>1 DEF MaterialStored, LedgerInv, LedgerTypeOK, RegistryTypeOK
<1>4. DOMAIN c.nodes \subseteq Releases /\ m.root \in DOMAIN c.nodes
  BY <1>3, ClosureParts DEF MaterialStored
<1>5. \A q \in DOMAIN c.nodes :
        /\ StatusRowPublished(q, statusHead[q])
        /\ cid # None => CitedBefore(statuses[q], statusHead[q], m.created)
  BY <1>4, PublishedHead
<1>6. Grounded(p)
  BY <1>1, <1>2, <1>3 DEF Grounded, MaterialStored
<1>7. Predated(p)
  <2>1. CitedBefore(fetches[r], m.fetch, m.created) /\ CitedBefore(admissions[r], m.admission, m.created)
    BY <1>1, RowFound DEF HeadsAdmit, Before, CitedBefore
  <2> QED
    BY <1>1, <1>2, <1>5, <2>1 DEF Predated, MaterialStored
<1>8. Witnessed(p)
  BY <1>2, <1>4, <1>5 DEF Witnessed, HeadsAdmit
<1> QED
  BY <1>6, <1>7, <1>8 DEF Sound, p

LEMMA PinRunSound ==
    ASSUME LedgerInv, NEW r \in Releases, NEW m \in PresentableManifests(r), PinRun(m)
    PROVE  \E cid \in ConfirmationIds : Sound(Pin(m, cid)) /\ pins' = [pins EXCEPT ![m.run] = Pin(m, cid)]
<1> DEFINE c == receipts[m.receipt].closure
<1>1. PICK cid \in ConfirmationIds :
        /\ \A q \in DOMAIN c.nodes : CurrentlyPublished(q) /\ Before(m.created, RowOf(statuses[q], statusHead[q]))
        /\ MaterialPredates(m, c)
        /\ pins' = [pins EXCEPT ![m.run] = Pin(m, cid)]
  BY DEF PinRun, ItemCurrent
<1>2. Sound(Pin(m, cid))
  BY <1>1, AdmissionSound DEF PinRun
<1> QED
  BY <1>1, <1>2

LEMMA PinLegacySound ==
    ASSUME LedgerInv, NEW r \in Releases, NEW m \in PresentableManifests(r), PinLegacy(m)
    PROVE  Sound(Pin(m, None))
BY AdmissionSound DEF PinLegacy

-----------------------------------------------------------------------------
(* The invariant. *)

(* A stored pin is never replaced.                                          *)
LEMMA PinsKept ==
    ASSUME PinInv, [PinNext]_storeVars, NEW run \in Runs, pins[run] # None
    PROVE  pins'[run] = pins[run]
<1>1. ASSUME NEW r \in Releases, NEW m \in PresentableManifests(r), PinRun(m) \/ PinLegacy(m)
      PROVE  pins'[run] = pins[run]
  <2>1. pins[m.run] = None /\ \E cid : pins' = [pins EXCEPT ![m.run] = Pin(m, cid)]
    BY <1>1 DEF PinRun, PinLegacy
  <2> QED
    BY <2>1 DEF PinInv
<1> QED
  BY <1>1 DEF PinNext, UpgradeV2, storeVars, pinVars

LEMMA PinInvStep ==
    ASSUME PinInv, [PinNext]_storeVars
    PROVE  PinInv'
<1>1. [LedgerNext]_ledgerVars
  BY DEF PinNext, PinRun, PinLegacy, UpgradeV2, storeVars
<1>2. LedgerInv'
  BY <1>1, LedgerInvStep DEF PinInv
<1>3. ASSUME NEW p, Sound(p)
      PROVE  Sound(p)'
  BY <1>1, <1>3, SoundStays DEF PinInv
<1>4. ASSUME UNCHANGED pins, version' = version /\ quarantined' = quarantined
      PROVE  PinInv'
  BY <1>2, <1>3, <1>4 DEF PinInv, Confirmed3
<1>5. ASSUME NEW r \in Releases, NEW m \in PresentableManifests(r), PinRun(m)
      PROVE  PinInv'
  <2>1. PICK cid \in ConfirmationIds : Sound(Pin(m, cid)) /\ pins' = [pins EXCEPT ![m.run] = Pin(m, cid)]
    BY <1>5, PinRunSound DEF PinInv
  <2>2. m.run \in Runs /\ Pin(m, cid).confirmation # None
    BY ConfirmationIdsAssumption DEF PresentableManifests, Pin
  <2>3. UNCHANGED <<version, quarantined>>
    BY <1>5 DEF PinRun
  <2>4. pins' = [run \in Runs |-> pins'[run]] /\ pins'[m.run] = Pin(m, cid)
        /\ \A run \in Runs : run # m.run => pins'[run] = pins[run]
    BY <2>1, <2>2 DEF PinInv
  <2>5. ASSUME NEW run \in Runs, pins'[run] # None
        PROVE  Sound(pins[run])' /\ Confirmed3(run)'
    <3>1. CASE run = m.run
      BY <2>1, <2>2, <2>4, <3>1, <1>3 DEF Confirmed3
    <3>2. CASE run # m.run
      BY <2>3, <2>4, <3>2, <2>5, <1>3 DEF PinInv, Confirmed3
    <3> QED
      BY <3>1, <3>2
  <2> QED
    BY <1>2, <2>4, <2>5 DEF PinInv
<1>6. ASSUME NEW r \in Releases, NEW m \in PresentableManifests(r), PinLegacy(m)
      PROVE  PinInv'
  <2>1. /\ Sound(Pin(m, None)) /\ pins' = [pins EXCEPT ![m.run] = Pin(m, None)]
        /\ version = 2 /\ UNCHANGED <<version, quarantined>>
    BY <1>6, PinLegacySound DEF PinInv, PinLegacy
  <2>2. m.run \in Runs
    BY DEF PresentableManifests
  <2>3. pins' = [run \in Runs |-> pins'[run]] /\ pins'[m.run] = Pin(m, None)
        /\ \A run \in Runs : run # m.run => pins'[run] = pins[run]
    BY <2>1, <2>2 DEF PinInv
  <2>4. ASSUME NEW run \in Runs, pins'[run] # None
        PROVE  Sound(pins[run])' /\ Confirmed3(run)'
    <3>1. CASE run = m.run
      BY <2>1, <2>3, <3>1, <1>3 DEF Confirmed3
    <3>2. CASE run # m.run
      BY <2>1, <2>3, <3>2, <2>4, <1>3 DEF PinInv, Confirmed3
    <3> QED
      BY <3>1, <3>2
  <2> QED
    BY <1>2, <2>3, <2>4 DEF PinInv
<1>7. CASE UpgradeV2
  BY <1>2, <1>3, <1>7 DEF UpgradeV2, PinInv, Confirmed3
<1> QED
  BY <1>4, <1>5, <1>6, <1>7 DEF PinNext, pinVars, storeVars

(* pin_run and _verify_pin_objects: everything an admitted run rests on is  *)
(* stored and stays, and was older than its Manifest.                       *)
THEOREM PinInvariant == PinSpec => []PinInv
<1>1. PinInit => PinInv
  <2> SUFFICES ASSUME PinInit
               PROVE  PinInv
    OBVIOUS
  <2>1. LedgerInv
    BY LedgerInitInv DEF PinInit
  <2> QED
    BY <2>1 DEF PinInit, PinInv
<1>2. PinInv /\ [PinNext]_storeVars => PinInv'
  BY PinInvStep
<1> QED
  BY <1>1, <1>2, PTL DEF PinSpec

-----------------------------------------------------------------------------
(* The theorems. *)

LEMMA AuditClosed ==
    ASSUME PinInv, NEW run \in Runs, pins[run] # None
    PROVE  AuditReadAllowed(run)
<1>1. /\ Sound(pins[run])
      /\ DOMAIN pins[run].closure.nodes \subseteq Releases
  BY ClosureParts DEF PinInv, Sound, Grounded
<1>2. \A r \in Releases : ReleaseVerifies(r)
  BY DEF PinInv, LedgerInv, ChainsVerify
<1> QED
  BY <1>1, <1>2 DEF AuditReadAllowed, Sound, Grounded, Witnessed

(* read_artifact for audit: whatever is appended, withdrawn or migrated,    *)
(* what a pinned run retained stays readable.                               *)
THEOREM PinAuditAlwaysAllowed == PinSpec => []AuditAlwaysAllowed
<1>1. PinInv => AuditAlwaysAllowed
  BY AuditClosed DEF AuditAlwaysAllowed
<1> QED
  BY <1>1, PinInvariant, PTL

(* pin_run cites only the past, although the clock may have been set back   *)
(* between any two of the rows it cites.                                    *)
THEOREM PinsOnlyCiteThePast == PinSpec => []PinsCiteThePast
<1>1. PinInv => PinsCiteThePast
  BY DEF PinInv, Sound, Predated, PinsCiteThePast
<1> QED
  BY <1>1, PinInvariant, PTL

(* A repeated pin_run of an admitted run is recognised, whatever happened   *)
(* to its confirmation, its Releases and the heads since.                   *)
THEOREM PinRetryStaysAccepted == PinSpec => []RetryStaysAccepted
<1>1. PinInv => RetryStaysAccepted
  BY DEF PinInv, Sound, Grounded, Predated, Witnessed, Confirmed3, RetryStaysAccepted, RetryAccepted,
     MaterialStored
<1> QED
  BY <1>1, PinInvariant, PTL

(* read_artifact for a running strategy: each retained Release was          *)
(* published by the provider's latest event that the store has seen.        *)
THEOREM PinOrdinaryMeansPublished == PinSpec => []OrdinaryMeansAllPublished
<1>1. PinInv => OrdinaryMeansAllPublished
  <2> SUFFICES ASSUME PinInv, NEW run \in Runs, OrdinaryReadAllowed(run),
                      NEW r \in DOMAIN pins[run].closure.nodes
               PROVE  LatestEvent(r).status = "published" /\ LastRow(statuses[r]).event = LatestEvent(r)
    BY DEF OrdinaryMeansAllPublished
  <2>1. r \in Releases /\ r \in DOMAIN pins[run].statuses
    BY ClosureParts DEF PinInv, Sound, Grounded, Witnessed, OrdinaryReadAllowed, AuditReadAllowed
  <2>2. PICK i \in DOMAIN statuses[r] : statuses[r][i].id = statusHead[r] /\ Published(statuses[r][i])
    BY <2>1 DEF OrdinaryReadAllowed, StatusRowPublished
  <2>3. statuses[r] \in Seq(StatusRow) /\ LinearChain(statuses[r], statusHead[r]) /\ EventsOrdered(statuses[r])
    BY <2>1, ChainTypes DEF PinInv, LedgerInv, ChainsVerify, ReleaseVerifies, StoryGoesForward
  <2>4. statuses[r] # <<>> /\ LastRow(statuses[r]) = statuses[r][i]
    BY <2>2, <2>3, HeadIsLast
  <2>5. LatestOf(statuses[r]) = LastRow(statuses[r]).event
    BY <2>2, <2>3, <2>4, LatestIsLastPassed DEF Published
  <2> QED
    BY <2>2, <2>4, <2>5 DEF LatestEvent, Published
<1> QED
  BY <1>1, PinInvariant, PTL

(* What a head names is a used id, which no later row can take.             *)
LEMMA HeadsMoveOn ==
    ASSUME PinInv, NEW q \in Releases, AppendObservation(q), NEW run \in Runs, pins[run] # None,
           UNCHANGED pins, UNCHANGED quarantined, OrdinaryReadAllowed(run)'
    PROVE  OrdinaryReadAllowed(run)
<1> DEFINE p == pins[run]
           root == p.manifest.root
<1>1. AuditReadAllowed(run)
  BY AuditClosed
<1>2. /\ root \in Releases /\ root \in DOMAIN p.statuses
      /\ DOMAIN p.statuses \subseteq Releases
      /\ p.manifest.fetch \in UsedIds /\ p.manifest.admission \in UsedIds
      /\ \A r \in DOMAIN p.statuses : p.statuses[r] \in UsedIds
      /\ p.manifest.status = p.statuses[root]
  <2>1. Sound(p)
    BY DEF PinInv
  <2>2. root \in Releases /\ DOMAIN p.statuses \subseteq Releases /\ root \in DOMAIN p.statuses
    BY <2>1, ClosureParts DEF Sound, Grounded, Witnessed
  <2>3. p.manifest.fetch \in RowIds(fetches[root]) /\ p.manifest.admission \in RowIds(admissions[root])
    BY <2>1 DEF Sound, Predated, CitedBefore, RowIds
  <2>4. \A r \in DOMAIN p.statuses : p.statuses[r] \in RowIds(statuses[r])
    BY <2>1 DEF Sound, Witnessed, StatusRowPublished, RowIds
  <2> QED
    BY <2>1, <2>2, <2>3, <2>4 DEF UsedIds, Sound, Witnessed
<1>3. /\ fetchHead'[root] \in UsedIds /\ admissionHead'[root] \in UsedIds
      /\ \A r \in DOMAIN p.statuses : statusHead'[r] \in UsedIds
  BY <1>2 DEF OrdinaryReadAllowed
<1>4. LedgerTypeOK
  BY DEF PinInv, LedgerInv
<1> HIDE DEF p, root
<1>5. ASSUME statuses' = statuses, admissions' = admissions, UNCHANGED <<statusHead, admissionHead>>,
             fetchHead'[root] = fetchHead[root]
      PROVE  OrdinaryReadAllowed(run)
  BY <1>1, <1>5 DEF OrdinaryReadAllowed, Authorized, StatusRowPublished, p, root
<1>6. CASE \E o \in FetchRows(Recent, RowIds(fetches[q]), {now}) : AppendFetch(q, o)
  <2>1. PICK o \in FetchRows(Recent, RowIds(fetches[q]), {now}) : AppendFetch(q, o)
    BY <1>6
  <2>2. /\ fetchHead' = [fetchHead EXCEPT ![q] = o.id] /\ o.id \notin UsedIds
        /\ statuses' = statuses /\ admissions' = admissions /\ UNCHANGED <<statusHead, admissionHead>>
    BY <2>1 DEF AppendFetch, MayAppend
  <2>3. fetchHead'[root] = fetchHead[root]
    BY <2>2, <1>2, <1>3, <1>4 DEF LedgerTypeOK
  <2> QED
    BY <2>2, <2>3, <1>5
<1>7. CASE \E o \in StatusRows(Recent, RowIds(statuses[q]), {now}) : AppendStatus(q, o)
  <2>1. PICK o \in StatusRows(Recent, RowIds(statuses[q]), {now}) : AppendStatus(q, o)
    BY <1>7
  <2>2. /\ statusHead' = [statusHead EXCEPT ![q] = o.id] /\ o.id \notin UsedIds
        /\ statuses' = [statuses EXCEPT ![q] = Append(@, o)]
        /\ admissions' = admissions /\ UNCHANGED <<fetchHead, admissionHead>>
    BY <2>1 DEF AppendStatus, MayAppend
  <2>3. \A r \in DOMAIN p.statuses : statusHead'[r] = statusHead[r] /\ statuses'[r] = statuses[r]
    BY <2>2, <1>2, <1>3, <1>4 DEF LedgerTypeOK
  <2> QED
    BY <1>1, <1>2, <2>2, <2>3 DEF OrdinaryReadAllowed, Authorized, StatusRowPublished, p, root
<1>8. CASE \E o \in AdmissionRows(Recent, RowIds(admissions[q]), {now}, RowIds(statuses[q])) :
               AppendAdmission(q, o)
  <2>1. PICK o \in AdmissionRows(Recent, RowIds(admissions[q]), {now}, RowIds(statuses[q])) :
               AppendAdmission(q, o)
    BY <1>8
  <2>2. /\ admissionHead' = [admissionHead EXCEPT ![q] = o.id] /\ o.id \notin UsedIds
        /\ admissions' = [admissions EXCEPT ![q] = Append(@, o)]
        /\ statuses' = statuses /\ UNCHANGED <<fetchHead, statusHead>>
    BY <2>1 DEF AppendAdmission, MayAppend
  <2>3. admissionHead'[root] = admissionHead[root] /\ admissions'[root] = admissions[root]
    BY <2>2, <1>2, <1>3, <1>4 DEF LedgerTypeOK
  <2> QED
    BY <1>1, <2>2, <2>3 DEF OrdinaryReadAllowed, Authorized, StatusRowPublished, p, root
<1> QED
  BY <1>6, <1>7, <1>8 DEF AppendObservation

(* No other step of the store gives ordinary access back either.            *)
LEMMA LostStaysLost ==
    ASSUME PinInv, [PinNext]_storeVars, NEW run \in Runs, pins[run] # None, OrdinaryReadAllowed(run)'
    PROVE  OrdinaryReadAllowed(run)
<1>1. AuditReadAllowed(run)
  BY AuditClosed
<1>2. pins'[run] = pins[run]
  BY PinsKept
<1>3. CASE UNCHANGED chainVars /\ quarantined' = quarantined
  BY <1>1, <1>2, <1>3 DEF OrdinaryReadAllowed, Authorized, StatusRowPublished, chainVars
<1>4. CASE LedgerNext /\ UNCHANGED pinVars
  <2>1. CASE \E q \in Releases : AppendObservation(q)
    BY <1>4, <2>1, HeadsMoveOn DEF pinVars
  <2>2. CASE RegistryNext /\ UNCHANGED chainVars
    BY <1>3, <1>4, <2>2 DEF pinVars
  <2> QED
    BY <1>4, <2>1, <2>2 DEF LedgerNext
<1>5. CASE \E r \in Releases : \E m \in PresentableManifests(r) : PinRun(m) \/ PinLegacy(m)
  BY <1>3, <1>5 DEF PinRun, PinLegacy, ledgerVars
<1>6. CASE UpgradeV2
  BY <1>2, <1>6 DEF UpgradeV2, OrdinaryReadAllowed
<1>7. CASE UNCHANGED storeVars
  BY <1>3, <1>7 DEF storeVars, ledgerVars, pinVars
<1> QED
  BY <1>4, <1>5, <1>6, <1>7 DEF PinNext

(* read_artifact for a running strategy: access lost is lost for good.      *)
THEOREM PinLostAccessStaysLost == PinSpec => LostAccessStaysLost
<1>1. PinInv /\ [PinNext]_storeVars =>
        [\A run \in Runs : (pins[run] # None /\ ~OrdinaryReadAllowed(run))
                              => ~OrdinaryReadAllowed(run)']_storeVars
  BY LostStaysLost
<1> QED
  BY <1>1, PinInvariant, PTL DEF PinSpec, LostAccessStaysLost
=============================================================================
