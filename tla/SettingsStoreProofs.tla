------------------------ MODULE SettingsStoreProofs ------------------------
(***************************************************************************)
(* Proofs about SettingsStore, for every set of requests and contents and   *)
(* every number of crashes and edits.                                       *)
(***************************************************************************)
EXTENDS SettingsStore, TLAPS

\* A request that is alone really is, and the file it read or wrote is still
\* the one that a start would look at first.
AloneInv ==
    \A r \in Handlers : InFlight(r) /\ req[r].alone =>
        /\ Others(r) = {}
        /\ req[r].path = FirstReadable(disk)
        /\ req[r].kind = "readconf" \/ req[r].phase = "parsed"
             => disk[req[r].path] = req[r].content

\* Only an update writes, and while it does nothing is taken for settled.
WritingInv ==
    \A r \in Handlers : InFlight(r) =>
        /\ req[r].phase \in {"expanded", "writing"} => req[r].kind = "updateconf"
        /\ req[r].phase = "writing" => ~settled /\ acked = Absent

\* Requests die with the process.
DownInv == ~up => \A r \in Handlers : ~InFlight(r)

IInv ==
    /\ TypeOK
    /\ AloneInv
    /\ WritingInv
    /\ DownInv
    /\ Agreement
    /\ DurableUpdate

-----------------------------------------------------------------------------
\* The contents that are not a file's absence, and those that load.
LEMMA ContentFacts ==
    /\ Absent \notin Contents \cup {Empty}
    /\ \A c \in Contents \cup {Empty} : c \in Content
    /\ ~Loads(Absent)
    /\ Loads(Empty)
<1>1. Empty \in Content
  BY DEF Empty, Content, Kinds
<1>2. Absent \notin Content
  <2>1. Absent.kind \notin Kinds
    BY DEF Absent, Kinds
  <2> QED BY <2>1 DEF Content
<1>3. ~Loads(Absent) /\ Loads(Empty)
  BY DEF Absent, Empty, Loads
<1> QED BY <1>1, <1>2, <1>3, ContentsAssumption

\* A list of at most four files has a first one with a given property.
LEMMA LeastFile ==
    ASSUME NEW S \in SUBSET Files, S # {}
    PROVE  \E i \in S : \A j \in 1..(i - 1) : j \notin S
<1>1. S \subseteq {1, 2, 3, 4}
  BY FilesAssumption DEF Files
<1>2. CASE 1 \in S
  BY <1>2
<1>3. CASE 1 \notin S /\ 2 \in S
  BY <1>3
<1>4. CASE 1 \notin S /\ 2 \notin S /\ 3 \in S
  BY <1>4
<1>5. CASE 1 \notin S /\ 2 \notin S /\ 3 \notin S /\ 4 \in S
  BY <1>5
<1> QED BY <1>1, <1>2, <1>3, <1>4, <1>5

\* FirstReadable is the first file that is there; when there is none it is 1.
LEMMA FirstReadableFacts ==
    ASSUME NEW d \in [Files -> Stored]
    PROVE  /\ FirstReadable(d) \in Files
           /\ \A j \in 1..(FirstReadable(d) - 1) : d[j] = Absent
           /\ d[FirstReadable(d)] = Absent => \A j \in Files : d[j] = Absent
<1>1. CASE \E i \in Files : d[i] # Absent
  <2> DEFINE S == {i \in Files : d[i] # Absent}
             P(i) == i \in Files /\ d[i] # Absent /\ \A j \in 1..(i - 1) : d[j] = Absent
  <2>1. \E i \in S : \A j \in 1..(i - 1) : j \notin S
    <3>1. S \in SUBSET Files /\ S # {}
      BY <1>1
    <3> HIDE DEF S
    <3> QED BY <3>1, LeastFile
  <2>2. \E i \in Files : d[i] # Absent /\ \A j \in 1..(i - 1) : d[j] = Absent
    <3>1. PICK i \in S : \A j \in 1..(i - 1) : j \notin S
      BY <2>1
    <3>2. \A j \in 1..(i - 1) : j \in Files
      BY FilesAssumption DEF Files
    <3> QED BY <3>1, <3>2
  <2>3. FirstReadable(d) = CHOOSE i \in Files :
                             d[i] # Absent /\ \A j \in 1..(i - 1) : d[j] = Absent
    BY <1>1 DEF FirstReadable
  <2> QED BY <2>2, <2>3
<1>2. CASE ~\E i \in Files : d[i] # Absent
  BY <1>2, FilesAssumption DEF FirstReadable, Files
<1> QED BY <1>1, <1>2

LEMMA FirstReadableIs ==
    ASSUME NEW d \in [Files -> Stored], NEW i \in Files, d[i] # Absent,
           \A j \in 1..(i - 1) : d[j] = Absent
    PROVE  FirstReadable(d) = i
<1> DEFINE k == FirstReadable(d)
<1>1. k \in Files /\ (\A j \in 1..(k - 1) : d[j] = Absent) /\ d[k] # Absent
  BY FirstReadableFacts
<1>2. ~(k < i) /\ ~(i < k)
  <2> HIDE DEF k
  <2> QED BY <1>1, FilesAssumption DEF Files
<1> HIDE DEF k
<1>3. k = i
  BY <1>1, <1>2, FilesAssumption DEF Files
<1> QED BY <1>3 DEF k

\* Writing the first readable file keeps it the first.
LEMMA FirstReadableKept ==
    ASSUME NEW d \in [Files -> Stored], NEW c \in Contents \cup {Empty}
    PROVE  FirstReadable([d EXCEPT ![FirstReadable(d)] = c]) = FirstReadable(d)
<1> DEFINE i == FirstReadable(d)
           e == [d EXCEPT ![i] = c]
<1>1. i \in Files /\ \A j \in 1..(i - 1) : d[j] = Absent
  BY FirstReadableFacts
<1>2. e \in [Files -> Stored] /\ e[i] # Absent /\ e[i] = c
  BY <1>1, ContentFacts DEF Stored
<1>3. \A j \in 1..(i - 1) : e[j] = Absent
  BY <1>1, FilesAssumption DEF Files
<1> HIDE DEF i, e
<1>4. FirstReadable(e) = i
  BY <1>1, <1>2, <1>3, FirstReadableIs
<1> QED BY <1>4 DEF i, e

\* The first readable file, if it loads, is the one that load_pref takes.
LEMMA FirstReadableLoads ==
    ASSUME NEW d \in [Files -> Stored], Loads(d[FirstReadable(d)])
    PROVE  LoadPref(d) = d[FirstReadable(d)]
<1> DEFINE i == FirstReadable(d)
           k == CHOOSE n \in Files : Loads(d[n]) /\ \A j \in 1..(n - 1) : ~Loads(d[j])
<1>1. i \in Files /\ (\A j \in 1..(i - 1) : d[j] = Absent) /\ Loads(d[i])
  BY FirstReadableFacts
<1>2. \A j \in 1..(i - 1) : ~Loads(d[j])
  BY <1>1, ContentFacts
<1>3. k \in Files /\ Loads(d[k]) /\ \A j \in 1..(k - 1) : ~Loads(d[j])
  <2> HIDE DEF i
  <2> QED BY <1>1, <1>2
<1>4. LoadPref(d) = d[k]
  <2> HIDE DEF i
  <2> QED BY <1>1 DEF LoadPref
<1>5. k = i
  <2> HIDE DEF i, k
  <2>1. ~(k < i) /\ ~(i < k)
    BY <1>1, <1>2, <1>3, FilesAssumption DEF Files
  <2> QED BY <1>1, <1>3, <2>1, FilesAssumption DEF Files
<1> QED BY <1>4, <1>5

LEMMA LoadPrefType ==
    ASSUME NEW d \in [Files -> Stored]
    PROVE  LoadPref(d) \in Contents \cup {Empty}
<1>1. CASE \E i \in Files : Loads(d[i])
  <2> DEFINE S == {i \in Files : Loads(d[i])}
  <2>1. \E i \in S : \A j \in 1..(i - 1) : j \notin S
    <3>1. S \in SUBSET Files /\ S # {}
      BY <1>1
    <3> HIDE DEF S
    <3> QED BY <3>1, LeastFile
  <2>2. \E i \in Files : Loads(d[i]) /\ \A j \in 1..(i - 1) : ~Loads(d[j])
    <3>1. PICK i \in S : \A j \in 1..(i - 1) : j \notin S
      BY <2>1
    <3>2. \A j \in 1..(i - 1) : j \in Files
      BY FilesAssumption DEF Files
    <3> QED BY <3>1, <3>2
  <2> DEFINE k == CHOOSE i \in Files :
                    Loads(d[i]) /\ \A j \in 1..(i - 1) : ~Loads(d[j])
  <2>3. k \in Files /\ Loads(d[k])
    BY <2>2
  <2>4. LoadPref(d) = d[k]
    BY <1>1 DEF LoadPref
  <2> HIDE DEF k
  <2> QED BY <2>3, <2>4, ContentFacts DEF Stored
<1>2. CASE ~\E i \in Files : Loads(d[i])
  BY <1>2 DEF LoadPref, Default
<1> QED BY <1>1, <1>2

LEMMA LoadedType ==
    ASSUME disk \in [Files -> Stored]
    PROVE  LoadedSettings \in Settings /\ LoadedSettings.src = LoadPref(disk)
  BY LoadPrefType DEF LoadedSettings, Parsed, Settings

-----------------------------------------------------------------------------
\* How the requests change.
LEMMA RequestShape ==
    ASSUME TypeOK, NEW r \in Handlers, InFlight(r)
    PROVE  /\ req[r] \in Request
           /\ req[r].phase \in Phases /\ req[r].kind \in {"readconf", "updateconf"}
           /\ req[r].content \in Contents \cup {Empty} /\ req[r].path \in Files
           /\ req[r].alone \in BOOLEAN
  BY DEF TypeOK, InFlight, Request

LEMMA IdleIsNoRequest == \A q \in Request : q # Idle
<1>1. \A q \in Request : q.phase \in Phases
  BY DEF Request
<1>2. Idle.phase \notin Phases
  BY DEF Idle, Phases
<1> QED BY <1>1, <1>2

LEMMA DisturbFacts ==
    ASSUME TypeOK, NEW r \in Handlers
    PROVE  /\ Disturb(req)[r] \in {Idle} \cup Request
           /\ Disturb(req)[r] = Idle <=> req[r] = Idle
           /\ req[r] # Idle => /\ ~Disturb(req)[r].alone
                               /\ Disturb(req)[r].phase = req[r].phase
                               /\ Disturb(req)[r].kind = req[r].kind
<1>1. CASE req[r] = Idle
  BY <1>1 DEF Disturb
<1>2. CASE req[r] # Idle
  <2>1. req[r] \in Request
    BY <1>2, RequestShape DEF InFlight
  <2>2. Disturb(req)[r] = [req[r] EXCEPT !.alone = FALSE]
    BY <1>2 DEF Disturb
  <2>3. Disturb(req)[r] \in Request
    BY <2>1, <2>2 DEF Request
  <2> QED BY <1>2, <2>1, <2>2, <2>3, IdleIsNoRequest DEF Request
<1> QED BY <1>1, <1>2

\* What a request looks like when it begins, and what becomes of the others.
LEMMA BeginFacts ==
    ASSUME TypeOK, NEW r \in Handlers, NEW kind \in {"readconf", "updateconf"},
           NEW c \in Contents \cup {Empty}, req[r] = Idle, Begin(r, kind, c)
    PROVE  /\ req' \in [Handlers -> {Idle} \cup Request]
           /\ req'[r] = [phase |-> "expanding", kind |-> kind, content |-> c,
                         path |-> FirstReadable(disk), alone |-> Others(r) = {}]
           /\ \A q \in Handlers \ {r} :
                 \/ req[q] = Idle /\ req'[q] = Idle
                 \/ /\ req[q] # Idle /\ req'[q] # Idle /\ ~req'[q].alone
                    /\ Others(r) # {}
                    /\ req'[q].phase = req[q].phase
                    /\ req'[q].kind = req[q].kind
<1> DEFINE new == [phase |-> "expanding", kind |-> kind, content |-> c,
                   path |-> FirstReadable(disk), alone |-> Others(r) = {}]
           base == IF Others(r) = {} THEN req ELSE Disturb(req)
<1>1. new \in Request
  BY FirstReadableFacts DEF TypeOK, Request, Phases
<1>2. base \in [Handlers -> {Idle} \cup Request]
  <2>1. Disturb(req) \in [Handlers -> {Idle} \cup Request]
    <3>1. \A q \in Handlers : Disturb(req)[q] \in {Idle} \cup Request
      BY DisturbFacts
    <3> QED BY <3>1 DEF Disturb
  <2> QED BY <2>1 DEF TypeOK
<1>3. req' = [base EXCEPT ![r] = new]
  BY DEF Begin
<1>4. ASSUME NEW q \in Handlers \ {r}
      PROVE  \/ req[q] = Idle /\ base[q] = Idle
             \/ /\ req[q] # Idle /\ base[q] # Idle /\ ~base[q].alone
                /\ Others(r) # {}
                /\ base[q].phase = req[q].phase
                /\ base[q].kind = req[q].kind
  <2>1. CASE req[q] = Idle
    BY <2>1, DisturbFacts
  <2>2. CASE req[q] # Idle
    <3>1. q \in Others(r)
      BY <2>2 DEF Others, InFlight
    <3>2. base = Disturb(req)
      BY <3>1
    <3> QED BY <2>2, <3>1, <3>2, DisturbFacts
  <2> QED BY <2>1, <2>2
<1> HIDE DEF new, base
<1>5. req' \in [Handlers -> {Idle} \cup Request] /\ req'[r] = new
      /\ \A q \in Handlers \ {r} : req'[q] = base[q]
  BY <1>1, <1>2, <1>3
<1> QED BY <1>4, <1>5 DEF new

-----------------------------------------------------------------------------
\* Type correctness of SettingsStore.
LEMMA InitType == Init => TypeOK
<1> SUFFICES ASSUME Init
             PROVE  TypeOK
  OBVIOUS
<1>1. disk \in [Files -> Stored]
  BY DEF Init, Stored
<1>2. settings \in Settings
  BY <1>1, LoadedType DEF Init
<1> QED BY <1>1, <1>2 DEF Init, TypeOK, Stored

LEMMA StepType == TypeOK /\ [Next]_vars => TypeOK'
<1> SUFFICES ASSUME TypeOK, [Next]_vars
             PROVE  TypeOK'
  OBVIOUS
<1>1. ASSUME NEW r \in Handlers, BeginReadconf(r)
      PROVE  TypeOK'
  <2>1. disk[FirstReadable(disk)] \in Contents \cup {Empty}
    BY <1>1, FirstReadableFacts DEF TypeOK, BeginReadconf, Stored
  <2>2. req' \in [Handlers -> {Idle} \cup Request]
    BY <1>1, <2>1, BeginFacts DEF BeginReadconf
  <2> QED BY <1>1, <2>2 DEF TypeOK, BeginReadconf
<1>2. ASSUME NEW r \in Handlers, NEW c \in Contents, BeginUpdateconf(r, c)
      PROVE  TypeOK'
  <2>1. req' \in [Handlers -> {Idle} \cup Request]
    BY <1>2, BeginFacts DEF BeginUpdateconf
  <2> QED BY <1>2, <2>1 DEF TypeOK, BeginUpdateconf
<1>3. ASSUME NEW r \in Handlers, InFlight(r), NEW p \in Phases,
             req' = [req EXCEPT ![r].phase = p]
      PROVE  req' \in [Handlers -> {Idle} \cup Request]
  <2>1. req[r] \in Request
    BY <1>3, RequestShape
  <2>2. [req[r] EXCEPT !.phase = p] \in Request
    BY <2>1 DEF Request
  <2> QED BY <1>3, <2>2 DEF TypeOK
<1>4. ASSUME NEW r \in Handlers, Fail(r)
      PROVE  req' \in [Handlers -> {Idle} \cup Request]
  BY <1>4 DEF Fail, TypeOK
<1>5. ASSUME NEW r \in Handlers, Expand(r) \/ ExpandFails(r) \/ Disconnect(r) \/ WriteFails(r)
      PROVE  TypeOK'
  <2>1. /\ "expanded" \in Phases /\ "parsed" \in Phases
    BY DEF Phases
  <2>2. InFlight(r) /\ \/ Fail(r)
                       \/ \E p \in Phases : req' = [req EXCEPT ![r].phase = p]
    <3>1. CASE Expand(r)
      BY <2>1, <3>1, Zenon DEF Expand
    <3>2. CASE ExpandFails(r) \/ Disconnect(r) \/ WriteFails(r)
      BY <3>2 DEF ExpandFails, Disconnect, WriteFails
    <3> QED BY <1>5, <3>1, <3>2
  <2>3. req' \in [Handlers -> {Idle} \cup Request]
    BY <1>3, <1>4, <2>2
  <2> QED BY <1>5, <2>3 DEF Expand, ExpandFails, Disconnect, WriteFails, TypeOK
<1>6. ASSUME NEW r \in Handlers, Truncate(r)
      PROVE  TypeOK'
  <2>1. "writing" \in Phases
    BY DEF Phases
  <2>2. req' \in [Handlers -> {Idle} \cup Request]
    BY <1>3, <1>6, <2>1 DEF Truncate
  <2>3. disk' \in [Files -> Stored]
    BY <1>6 DEF Truncate, TypeOK, Stored
  <2> QED BY <1>6, <2>2, <2>3 DEF Truncate, TypeOK, Stored
<1>7. ASSUME NEW r \in Handlers, Fill(r)
      PROVE  TypeOK'
  <2>1. "parsed" \in Phases
    BY DEF Phases
  <2>2. req' \in [Handlers -> {Idle} \cup Request]
    <3>1. InFlight(r) /\ (Fail(r) \/ req' = [req EXCEPT ![r].phase = "parsed"])
      BY <1>7, Zenon DEF Fill
    <3> QED BY <1>3, <1>4, <2>1, <3>1
  <2>3. disk' \in [Files -> Stored]
    BY <1>7, RequestShape DEF Fill, TypeOK, Stored
  <2> QED BY <1>7, <2>2, <2>3 DEF Fill, TypeOK
<1>8. ASSUME NEW r \in Handlers, Commit(r)
      PROVE  TypeOK'
  <2>1. /\ req[r].content \in Contents \cup {Empty} /\ req[r].alone \in BOOLEAN
    BY <1>8, RequestShape DEF Commit
  <2>2. settings' \in Settings
    BY <1>8, <2>1 DEF Commit, Parsed, Settings
  <2>3. acked' \in Stored /\ settled' \in BOOLEAN
    BY <1>8, <2>1 DEF Commit, TypeOK, Stored
  <2> QED BY <1>8, <2>2, <2>3 DEF Commit, TypeOK
<1>9. ASSUME NEW i \in Files, NEW c \in Contents \cup {Absent}, AdminEdit(i, c)
      PROVE  TypeOK'
  <2>1. \A q \in Handlers : Disturb(req)[q] \in {Idle} \cup Request
    BY DisturbFacts
  <2>2. req' \in [Handlers -> {Idle} \cup Request]
    BY <1>9, <2>1 DEF AdminEdit, Disturb
  <2>3. disk' \in [Files -> Stored] /\ acked' \in Stored
    BY <1>9 DEF AdminEdit, TypeOK, Stored
  <2>4. edits' \in Nat
    BY <1>9 DEF AdminEdit, TypeOK
  <2>5. settled' \in BOOLEAN /\ up' \in BOOLEAN
    BY <1>9, Zenon DEF AdminEdit, TypeOK
  <2> QED BY <1>9, <2>2, <2>3, <2>4, <2>5 DEF AdminEdit, TypeOK
<1>10. CASE Crash
  <2>1. up' \in BOOLEAN /\ settled' \in BOOLEAN
    BY <1>10, Zenon DEF Crash, TypeOK
  <2>2. crashes' \in Nat /\ req' \in [Handlers -> {Idle} \cup Request]
    BY <1>10 DEF Crash, TypeOK
  <2> QED BY <1>10, <2>1, <2>2 DEF Crash, TypeOK
<1>11. CASE Start
  BY <1>11, LoadedType DEF Start, TypeOK
<1>12. CASE UNCHANGED vars
  BY <1>12 DEF vars, TypeOK
<1> QED BY <1>1, <1>2, <1>5, <1>6, <1>7, <1>8, <1>9, <1>10, <1>11, <1>12 DEF Next

\* Type correctness.
THEOREM TypeCorrect == Spec => []TypeOK
  BY InitType, StepType, PTL DEF Spec

-----------------------------------------------------------------------------
\* A step that only moves request r on, or ends it, leaves the others' view.
LEMMA OthersShrink ==
    ASSUME NEW r \in Handlers, NEW q \in Handlers,
           \A z \in Handlers \ {r} : req'[z] = req[z],
           req'[r] = Idle \/ InFlight(r), Others(q) = {}
    PROVE  Others(q)' = {}
  BY DEF Others, InFlight

LEMMA AloneQuiet ==
    ASSUME AloneInv, NEW r \in Handlers, disk' = disk,
           \A z \in Handlers \ {r} : req'[z] = req[z],
           \/ req'[r] = Idle
           \/ /\ InFlight(r)
              /\ req'[r].kind = req[r].kind /\ req'[r].path = req[r].path
              /\ req'[r].content = req[r].content /\ req'[r].alone = req[r].alone
              /\ req'[r].phase = "parsed" => req[r].kind = "readconf"
    PROVE  AloneInv'
<1> SUFFICES ASSUME NEW q \in Handlers, InFlight(q)', req'[q].alone
             PROVE  /\ Others(q)' = {}
                    /\ req'[q].path = FirstReadable(disk)
                    /\ req'[q].kind = "readconf" \/ req'[q].phase = "parsed"
                         => disk[req'[q].path] = req'[q].content
  BY DEF AloneInv
<1>1. InFlight(q) /\ req[q].alone
  BY DEF InFlight
<1>2. /\ Others(q) = {}
      /\ req[q].path = FirstReadable(disk)
      /\ req[q].kind = "readconf" \/ req[q].phase = "parsed"
           => disk[req[q].path] = req[q].content
  BY <1>1 DEF AloneInv
<1>3. Others(q)' = {}
  BY <1>2, OthersShrink
<1>4. CASE q = r
  BY <1>2, <1>3, <1>4 DEF InFlight
<1>5. CASE q # r
  BY <1>2, <1>3, <1>5
<1> QED BY <1>4, <1>5

\* A request that just began is alone if no other was in flight.
LEMMA AloneBegin ==
    ASSUME TypeOK, AloneInv, NEW r \in Handlers, NEW kind \in {"readconf", "updateconf"},
           NEW c \in Contents \cup {Empty}, req[r] = Idle, Begin(r, kind, c),
           disk' = disk, kind = "readconf" => c = disk[FirstReadable(disk)]
    PROVE  AloneInv'
<1> SUFFICES ASSUME NEW q \in Handlers, InFlight(q)', req'[q].alone
             PROVE  /\ Others(q)' = {}
                    /\ req'[q].path = FirstReadable(disk)
                    /\ req'[q].kind = "readconf" \/ req'[q].phase = "parsed"
                         => disk[req'[q].path] = req'[q].content
  BY DEF AloneInv
<1>1. q = r
  BY BeginFacts DEF InFlight
<1> DEFINE lone == Others(r) = {}
           new == [phase |-> "expanding", kind |-> kind, content |-> c,
                   path |-> FirstReadable(disk), alone |-> lone]
<1>2. req'[r] = new
  BY BeginFacts
<1>3. lone
  <2>1. new.alone
    BY <1>1, <1>2
  <2> HIDE DEF lone
  <2> QED BY <2>1
<1>4. \A z \in Handlers \ {r} : req'[z] = Idle
  BY <1>3, BeginFacts
<1>5. Others(r)' = {}
  BY <1>4 DEF Others, InFlight
<1> QED BY <1>1, <1>2, <1>5

\* While a request that is alone writes, the file it writes stays the first.
LEMMA AloneWrite ==
    ASSUME TypeOK, AloneInv, NEW r \in Handlers, InFlight(r),
           NEW c \in Contents \cup {Empty}, disk' = [disk EXCEPT ![req[r].path] = c],
           \A z \in Handlers \ {r} : req'[z] = req[z],
           \/ req'[r] = Idle
           \/ /\ req'[r].kind = "updateconf" /\ req'[r].path = req[r].path
              /\ req'[r].alone = req[r].alone
              /\ req'[r].phase = "parsed" => req'[r].content = c
    PROVE  AloneInv'
<1> SUFFICES ASSUME NEW q \in Handlers, InFlight(q)', req'[q].alone
             PROVE  /\ Others(q)' = {}
                    /\ req'[q].path = FirstReadable(disk')
                    /\ req'[q].kind = "readconf" \/ req'[q].phase = "parsed"
                         => disk'[req'[q].path] = req'[q].content
  BY DEF AloneInv
<1>1. q = r
  <2> SUFFICES ASSUME q # r
               PROVE  FALSE
    OBVIOUS
  <2>1. InFlight(q) /\ req[q].alone /\ r \in Others(q)
    BY DEF InFlight, Others
  <2> QED BY <2>1 DEF AloneInv
<1>2. /\ req'[r].kind = "updateconf" /\ req'[r].path = req[r].path
      /\ req[r].alone
      /\ req'[r].phase = "parsed" => req'[r].content = c
  BY <1>1 DEF InFlight
<1>3. Others(r) = {} /\ req[r].path = FirstReadable(disk)
  BY <1>2 DEF AloneInv
<1>4. Others(r)' = {}
  BY <1>3, OthersShrink
<1>5. disk \in [Files -> Stored]
  BY DEF TypeOK
<1>6. FirstReadable(disk') = FirstReadable(disk)
  BY <1>3, <1>5, FirstReadableKept
<1>7. disk'[req[r].path] = c
  BY <1>5, RequestShape
<1> QED BY <1>1, <1>2, <1>3, <1>4, <1>6, <1>7

LEMMA AloneStep ==
    ASSUME TypeOK, AloneInv, WritingInv, DownInv, [Next]_vars
    PROVE  AloneInv'
<1>1. ASSUME NEW r \in Handlers, BeginReadconf(r)
      PROVE  AloneInv'
  <2>1. disk[FirstReadable(disk)] \in Contents \cup {Empty}
    BY <1>1, FirstReadableFacts DEF TypeOK, BeginReadconf, Stored
  <2> QED BY <1>1, <2>1, AloneBegin DEF BeginReadconf
<1>2. ASSUME NEW r \in Handlers, NEW c \in Contents, BeginUpdateconf(r, c)
      PROVE  AloneInv'
  BY <1>2, AloneBegin DEF BeginUpdateconf
<1>3. ASSUME NEW r \in Handlers, Fail(r), disk' = disk
      PROVE  AloneInv'
  <2>1. req'[r] = Idle /\ \A z \in Handlers \ {r} : req'[z] = req[z]
    BY <1>3 DEF Fail, TypeOK
  <2> QED BY <1>3, <2>1, AloneQuiet
<1>4. ASSUME NEW r \in Handlers, NEW p, InFlight(r),
             req' = [req EXCEPT ![r].phase = p]
      PROVE  /\ req'[r].phase = p /\ req'[r].kind = req[r].kind
             /\ req'[r].path = req[r].path /\ req'[r].content = req[r].content
             /\ req'[r].alone = req[r].alone
             /\ \A z \in Handlers \ {r} : req'[z] = req[z]
  <2>1. req[r] \in Request
    BY <1>4, RequestShape
  <2>2. req'[r] = [req[r] EXCEPT !.phase = p] /\ \A z \in Handlers \ {r} : req'[z] = req[z]
    BY <1>4 DEF TypeOK
  <2> QED BY <2>1, <2>2 DEF Request
<1>5. ASSUME NEW r \in Handlers, Expand(r)
      PROVE  AloneInv'
  <2>1. InFlight(r) /\ disk' = disk /\ req[r].kind \in {"readconf", "updateconf"}
    BY <1>5, RequestShape DEF Expand
  <2>2. \/ Fail(r)
        \/ req[r].kind = "updateconf" /\ req' = [req EXCEPT ![r].phase = "expanded"]
        \/ req[r].kind # "updateconf" /\ req' = [req EXCEPT ![r].phase = "parsed"]
    BY <1>5, Zenon DEF Expand
  <2>3. CASE Fail(r)
    BY <1>3, <2>1, <2>3
  <2>4. CASE req[r].kind = "updateconf" /\ req' = [req EXCEPT ![r].phase = "expanded"]
    <3>1. /\ req'[r].phase = "expanded" /\ req'[r].kind = req[r].kind
          /\ req'[r].path = req[r].path /\ req'[r].content = req[r].content
          /\ req'[r].alone = req[r].alone
          /\ \A z \in Handlers \ {r} : req'[z] = req[z]
      BY <1>4, <2>1, <2>4
    <3> QED BY <2>1, <3>1, AloneQuiet
  <2>5. CASE req[r].kind # "updateconf" /\ req' = [req EXCEPT ![r].phase = "parsed"]
    <3>1. /\ req'[r].phase = "parsed" /\ req'[r].kind = req[r].kind
          /\ req'[r].path = req[r].path /\ req'[r].content = req[r].content
          /\ req'[r].alone = req[r].alone
          /\ \A z \in Handlers \ {r} : req'[z] = req[z]
      BY <1>4, <2>1, <2>5
    <3> QED BY <2>1, <2>5, <3>1, AloneQuiet
  <2> QED BY <2>2, <2>3, <2>4, <2>5
<1>6. ASSUME NEW r \in Handlers, ExpandFails(r) \/ Disconnect(r) \/ WriteFails(r)
      PROVE  AloneInv'
  BY <1>3, <1>6 DEF ExpandFails, Disconnect, WriteFails
<1>7. ASSUME NEW r \in Handlers, Truncate(r)
      PROVE  AloneInv'
  <2>1. InFlight(r) /\ req[r].kind = "updateconf"
        /\ disk' = [disk EXCEPT ![req[r].path] = Empty]
    BY <1>7 DEF Truncate, WritingInv
  <2>2. /\ req'[r].phase = "writing" /\ req'[r].kind = req[r].kind
        /\ req'[r].path = req[r].path /\ req'[r].alone = req[r].alone
        /\ \A z \in Handlers \ {r} : req'[z] = req[z]
    BY <1>4, <1>7 DEF Truncate
  <2> QED BY <2>1, <2>2, AloneWrite
<1>8. ASSUME NEW r \in Handlers, Fill(r)
      PROVE  AloneInv'
  <2>1. /\ InFlight(r) /\ req[r].kind = "updateconf"
        /\ disk' = [disk EXCEPT ![req[r].path] = req[r].content]
        /\ req[r].content \in Contents \cup {Empty}
    BY <1>8, RequestShape DEF Fill, WritingInv
  <2>2. Fail(r) \/ req' = [req EXCEPT ![r].phase = "parsed"]
    BY <1>8, Zenon DEF Fill
  <2>3. CASE Fail(r)
    <3>1. req'[r] = Idle /\ \A z \in Handlers \ {r} : req'[z] = req[z]
      BY <2>3 DEF Fail, TypeOK
    <3> QED BY <2>1, <3>1, AloneWrite
  <2>4. CASE req' = [req EXCEPT ![r].phase = "parsed"]
    <3>1. /\ req'[r].kind = req[r].kind /\ req'[r].path = req[r].path
          /\ req'[r].content = req[r].content /\ req'[r].alone = req[r].alone
          /\ \A z \in Handlers \ {r} : req'[z] = req[z]
      BY <1>4, <2>1, <2>4
    <3> QED BY <2>1, <3>1, AloneWrite
  <2> QED BY <2>2, <2>3, <2>4
<1>9. ASSUME NEW r \in Handlers, Commit(r)
      PROVE  AloneInv'
  <2>1. disk' = disk /\ req'[r] = Idle /\ \A z \in Handlers \ {r} : req'[z] = req[z]
    BY <1>9 DEF Commit, TypeOK
  <2> QED BY <2>1, AloneQuiet
<1>10. ASSUME NEW i \in Files, NEW c \in Contents \cup {Absent}, AdminEdit(i, c)
       PROVE  AloneInv'
  <2>1. \A q \in Handlers : InFlight(q)' => ~req'[q].alone
    BY <1>10, DisturbFacts DEF AdminEdit, InFlight
  <2> QED BY <2>1 DEF AloneInv
<1>11. CASE Crash
  <2>1. \A q \in Handlers : ~InFlight(q)'
    BY <1>11 DEF Crash, InFlight
  <2> QED BY <2>1 DEF AloneInv
<1>12. CASE Start
  <2>1. \A q \in Handlers : ~InFlight(q)'
    BY <1>12 DEF Start, DownInv, InFlight
  <2> QED BY <2>1 DEF AloneInv
<1>13. CASE UNCHANGED vars
  BY <1>13 DEF vars, AloneInv, InFlight, Others
<1> QED BY <1>1, <1>2, <1>5, <1>6, <1>7, <1>8, <1>9, <1>10, <1>11, <1>12, <1>13 DEF Next

-----------------------------------------------------------------------------
\* A request that moves to phase p keeps its kind; the others stay as they are.
LEMMA MovePhase ==
    ASSUME TypeOK, NEW r \in Handlers, NEW p, InFlight(r),
           req' = [req EXCEPT ![r].phase = p]
    PROVE  /\ req'[r].phase = p /\ req'[r].kind = req[r].kind
           /\ \A z \in Handlers \ {r} : req'[z] = req[z]
<1>1. req[r] \in Request
  BY RequestShape
<1>2. req'[r] = [req[r] EXCEPT !.phase = p] /\ \A z \in Handlers \ {r} : req'[z] = req[z]
  BY DEF TypeOK
<1> QED BY <1>1, <1>2 DEF Request

LEMMA WritingStep ==
    ASSUME TypeOK, AloneInv, WritingInv, DownInv, [Next]_vars
    PROVE  WritingInv'
<1> DEFINE OK(q) == /\ req'[q].phase \in {"expanded", "writing"} => req'[q].kind = "updateconf"
                    /\ req'[q].phase = "writing" => ~settled' /\ acked' = Absent
<1> SUFFICES ASSUME NEW q \in Handlers, InFlight(q)'
             PROVE  OK(q)
  BY DEF WritingInv
<1>1. ASSUME NEW r \in Handlers, NEW kind \in {"readconf", "updateconf"},
             NEW c \in Contents \cup {Empty}, req[r] = Idle, Begin(r, kind, c),
             settled' = settled, acked' = acked
      PROVE  OK(q)
  <2>1. CASE q = r
    <3>1. PICK lone \in BOOLEAN :
            req'[q] = [phase |-> "expanding", kind |-> kind, content |-> c,
                       path |-> FirstReadable(disk), alone |-> lone]
      BY <1>1, <2>1, BeginFacts
    <3> QED BY <3>1
  <2>2. CASE q # r
    <3>1. InFlight(q) /\ req'[q].phase = req[q].phase /\ req'[q].kind = req[q].kind
      BY <1>1, <2>2, BeginFacts DEF InFlight
    <3> QED BY <1>1, <3>1 DEF WritingInv
  <2> QED BY <2>1, <2>2
<1>2. ASSUME NEW r \in Handlers, BeginReadconf(r)
      PROVE  OK(q)
  <2>1. disk[FirstReadable(disk)] \in Contents \cup {Empty}
    BY <1>2, FirstReadableFacts DEF TypeOK, BeginReadconf, Stored
  <2> QED BY <1>1, <1>2, <2>1 DEF BeginReadconf
<1>3. ASSUME NEW r \in Handlers, NEW c \in Contents, BeginUpdateconf(r, c)
      PROVE  OK(q)
  BY <1>1, <1>3 DEF BeginUpdateconf
<1>4. ASSUME req'[q] = req[q], settled' = settled, acked' = acked
      PROVE  OK(q)
  BY <1>4 DEF WritingInv, InFlight
<1>5. ASSUME NEW r \in Handlers, NEW p, InFlight(r), req' = [req EXCEPT ![r].phase = p],
             p \in {"expanded", "writing"} => req[r].kind = "updateconf",
             p = "writing" => ~settled' /\ acked' = Absent,
             \/ settled' = settled /\ acked' = acked
             \/ ~settled' /\ acked' = Absent
      PROVE  OK(q)
  <2>1. CASE q = r
    BY <1>5, <2>1, MovePhase
  <2>2. CASE q # r
    <3>1. req'[q] = req[q] /\ InFlight(q)
      BY <1>5, <2>2, MovePhase DEF InFlight
    <3> QED BY <1>5, <3>1 DEF WritingInv
  <2> QED BY <2>1, <2>2
<1>6. ASSUME NEW r \in Handlers, Fail(r), settled' = settled, acked' = acked
      PROVE  OK(q)
  <2>1. req'[q] = req[q]
    BY <1>6 DEF Fail, TypeOK, InFlight
  <2> QED BY <1>4, <1>6, <2>1
<1>7. ASSUME NEW r \in Handlers, Expand(r)
      PROVE  OK(q)
  <2>1. InFlight(r) /\ settled' = settled /\ acked' = acked
    BY <1>7 DEF Expand
  <2>2. \/ Fail(r)
        \/ req[r].kind = "updateconf" /\ req' = [req EXCEPT ![r].phase = "expanded"]
        \/ req' = [req EXCEPT ![r].phase = "parsed"]
    BY <1>7, Zenon DEF Expand
  <2> QED BY <1>5, <1>6, <2>1, <2>2
<1>8. ASSUME NEW r \in Handlers, ExpandFails(r) \/ Disconnect(r) \/ WriteFails(r)
      PROVE  OK(q)
  BY <1>6, <1>8 DEF ExpandFails, Disconnect, WriteFails
<1>9. ASSUME NEW r \in Handlers, Truncate(r)
      PROVE  OK(q)
  <2>1. req[r].kind = "updateconf" /\ InFlight(r)
    BY <1>9 DEF Truncate, WritingInv
  <2>2. ~settled' /\ acked' = Absent /\ req' = [req EXCEPT ![r].phase = "writing"]
    BY <1>9, Zenon DEF Truncate
  <2> QED BY <1>5, <2>1, <2>2
<1>10. ASSUME NEW r \in Handlers, Fill(r)
       PROVE  OK(q)
  <2>1. InFlight(r) /\ settled' = settled /\ acked' = acked
    BY <1>10 DEF Fill
  <2>2. Fail(r) \/ req' = [req EXCEPT ![r].phase = "parsed"]
    BY <1>10, Zenon DEF Fill
  <2> QED BY <1>5, <1>6, <2>1, <2>2
<1>11. ASSUME NEW r \in Handlers, Commit(r)
       PROVE  OK(q)
  <2>1. InFlight(r) /\ q # r /\ req'[q] = req[q] /\ InFlight(q) /\ q \in Others(r)
    BY <1>11 DEF Commit, TypeOK, InFlight, Others
  <2>2. ~req[r].alone
    BY <2>1 DEF AloneInv
  <2>3. ~settled' /\ acked' = acked
    BY <1>11, <2>2, Zenon DEF Commit
  <2> QED BY <2>1, <2>3 DEF WritingInv
<1>12. ASSUME NEW i \in Files, NEW c \in Contents \cup {Absent}, AdminEdit(i, c)
       PROVE  OK(q)
  <2>1. /\ ~settled' /\ acked' = Absent
    BY <1>12, Zenon DEF AdminEdit
  <2>2. req'[q].phase = req[q].phase /\ req'[q].kind = req[q].kind /\ InFlight(q)
    BY <1>12, DisturbFacts DEF AdminEdit, InFlight
  <2> QED BY <2>1, <2>2 DEF WritingInv
<1>13. CASE Crash
  BY <1>13 DEF Crash, InFlight
<1>14. CASE Start
  BY <1>14 DEF Start, DownInv, InFlight
<1>15. CASE UNCHANGED vars
  BY <1>4, <1>15 DEF vars
<1> HIDE DEF OK
<1> QED BY <1>2, <1>3, <1>7, <1>8, <1>9, <1>10, <1>11, <1>12, <1>13, <1>14, <1>15 DEF Next

LEMMA DownStep ==
    ASSUME TypeOK, DownInv, [Next]_vars
    PROVE  DownInv'
<1> SUFFICES ASSUME ~up', NEW q \in Handlers
             PROVE  ~InFlight(q)'
  BY DEF DownInv
<1>1. CASE Crash
  BY <1>1 DEF Crash, InFlight
<1>2. CASE Start
  BY <1>2 DEF Start
<1>3. ASSUME up' = up, NEW r \in Handlers, InFlight(r)
      PROVE  FALSE
  BY <1>3 DEF DownInv
<1>4. ASSUME NEW i \in Files, NEW c \in Contents \cup {Absent}, AdminEdit(i, c)
      PROVE  ~InFlight(q)'
  BY <1>4, DisturbFacts DEF AdminEdit, DownInv, InFlight
<1>5. ASSUME NEW r \in Handlers,
             Expand(r) \/ ExpandFails(r) \/ Disconnect(r) \/ Truncate(r) \/ Fill(r) \/ WriteFails(r) \/ Commit(r)
      PROVE  FALSE
  <2>1. InFlight(r) /\ up' = up
    BY <1>5 DEF Expand, ExpandFails, Disconnect, Truncate, Fill, WriteFails, Commit
  <2> QED BY <1>3, <2>1
<1>6. ASSUME NEW r \in Handlers, BeginReadconf(r) \/ \E c \in Contents : BeginUpdateconf(r, c)
      PROVE  FALSE
  BY <1>6 DEF BeginReadconf, BeginUpdateconf
<1>7. CASE UNCHANGED vars
  BY <1>7 DEF vars, DownInv, InFlight
<1> QED BY <1>1, <1>2, <1>4, <1>5, <1>6, <1>7 DEF Next

\* Memory and disk after a request that was alone wrote its settings back.
LEMMA CommitAgrees ==
    ASSUME TypeOK, AloneInv, NEW r \in Handlers, Commit(r), req[r].alone,
           req[r].content.kind = "plain"
    PROVE  LoadPref(disk) = req[r].content
<1>1. InFlight(r) /\ req[r].phase = "parsed"
  BY DEF Commit
<1>2. disk[FirstReadable(disk)] = req[r].content
  BY <1>1 DEF AloneInv
<1>3. Loads(disk[FirstReadable(disk)])
  BY <1>2 DEF Loads
<1> QED BY <1>2, <1>3, FirstReadableLoads DEF TypeOK

LEMMA AgreementStep ==
    ASSUME TypeOK, AloneInv, WritingInv, Agreement, DurableUpdate, [Next]_vars
    PROVE  Agreement' /\ DurableUpdate'
<1>1. CASE UNCHANGED <<disk, settings, settled, acked, up>>
  BY <1>1 DEF Agreement, DurableUpdate, LoadPref
<1>2. ASSUME NEW r \in Handlers, Truncate(r)
      PROVE  Agreement' /\ DurableUpdate'
  <2>1. ~settled' /\ acked' = Absent
    BY <1>2, Zenon DEF Truncate
  <2> QED BY <2>1 DEF Agreement, DurableUpdate
<1>3. ASSUME NEW r \in Handlers, Fill(r)
      PROVE  Agreement' /\ DurableUpdate'
  <2>1. ~settled /\ acked = Absent /\ settled' = settled /\ acked' = acked
    BY <1>3 DEF Fill, WritingInv
  <2> QED BY <2>1 DEF Agreement, DurableUpdate
<1>4. ASSUME NEW r \in Handlers, Commit(r)
      PROVE  Agreement' /\ DurableUpdate'
  <2>0. disk' = disk /\ settings'.src = req[r].content
    BY <1>4 DEF Commit, Parsed
  <2>1. CASE req[r].alone /\ req[r].content.kind = "plain"
    <3>1. LoadPref(disk) = req[r].content
      BY <1>4, <2>1, CommitAgrees
    <3>2. acked' = req[r].content \/ acked' = acked
      BY <1>4 DEF Commit
    <3> QED BY <2>0, <3>1, <3>2 DEF Agreement, DurableUpdate
  <2>2. CASE ~(req[r].alone /\ req[r].content.kind = "plain")
    <3>1. ~settled' /\ acked' = acked
      BY <1>4, <2>2, Zenon DEF Commit
    <3> QED BY <2>0, <3>1 DEF Agreement, DurableUpdate
  <2> QED BY <2>1, <2>2
<1>5. ASSUME NEW i \in Files, NEW c \in Contents \cup {Absent}, AdminEdit(i, c)
      PROVE  Agreement' /\ DurableUpdate'
  <2>1. ~settled' /\ acked' = Absent
    BY <1>5, Zenon DEF AdminEdit
  <2> QED BY <2>1 DEF Agreement, DurableUpdate
<1>6. CASE Crash
  <2>1. ~up' /\ disk' = disk /\ acked' = acked
    BY <1>6, Zenon DEF Crash
  <2> QED BY <2>1 DEF Agreement, DurableUpdate
<1>7. CASE Start
  <2>1. disk' = disk /\ acked' = acked /\ settings' = LoadedSettings
    BY <1>7 DEF Start
  <2>2. settings'.src = LoadPref(disk)
    BY <2>1, LoadedType DEF TypeOK
  <2> QED BY <2>1, <2>2 DEF Agreement, DurableUpdate
<1>8. ASSUME NEW r \in Handlers,
             \/ BeginReadconf(r) \/ \E c \in Contents : BeginUpdateconf(r, c)
             \/ Expand(r) \/ ExpandFails(r) \/ Disconnect(r) \/ WriteFails(r)
      PROVE  UNCHANGED <<disk, settings, settled, acked, up>>
  BY <1>8 DEF BeginReadconf, BeginUpdateconf, Expand, ExpandFails, Disconnect, WriteFails
<1>9. CASE UNCHANGED vars
  BY <1>1, <1>9 DEF vars
<1> QED BY <1>1, <1>2, <1>3, <1>4, <1>5, <1>6, <1>7, <1>8, <1>9 DEF Next

-----------------------------------------------------------------------------
\* IInv is an inductive invariant of SettingsStore.
LEMMA InitIInv == Init => IInv
<1> SUFFICES ASSUME Init
             PROVE  IInv
  OBVIOUS
<1>1. TypeOK
  BY InitType
<1>2. AloneInv /\ WritingInv /\ DownInv
  BY DEF Init, AloneInv, WritingInv, DownInv, InFlight
<1>3. Agreement /\ DurableUpdate
  BY <1>1, LoadedType DEF Init, Agreement, DurableUpdate, TypeOK
<1> QED BY <1>1, <1>2, <1>3 DEF IInv

LEMMA StepIInv == IInv /\ [Next]_vars => IInv'
<1> SUFFICES ASSUME IInv, [Next]_vars
             PROVE  IInv'
  OBVIOUS
<1> USE DEF IInv
<1> QED BY StepType, AloneStep, WritingStep, DownStep, AgreementStep

LEMMA Invariance == Spec => []IInv
  BY InitIInv, StepIInv, PTL DEF Spec

\* After a management request that ran alone on a content both sides read the
\* same way, and after every start, memory is what a restart would load.
THEOREM MemoryAgreesWithDisk == Spec => []Agreement
<1>1. IInv => Agreement
  BY DEF IInv
<1> QED BY <1>1, Invariance, PTL

\* An acknowledged, undisturbed /updateconf is loaded by every later start.
THEOREM UpdatesAreDurable == Spec => []DurableUpdate
<1>1. IInv => DurableUpdate
  BY DEF IInv
<1> QED BY <1>1, Invariance, PTL
=============================================================================
