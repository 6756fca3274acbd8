--------------------------- MODULE RegistryProofs ---------------------------
(***************************************************************************)
(* Registry for any number of workers, browsers and target ids: the types, *)
(* that an unreadable nsboot.json is final, and, as long as requests do    *)
(* not overlap, that the table of machines has no hole, that it is what the*)
(* answers have promised, and that dhcpd.conf follows it.                  *)
(***************************************************************************)
EXTENDS Registry, WellFoundedInduction, TLAPS

\* A nonempty set of natural numbers has a least element.
LEMMA NatMin ==
    ASSUME NEW T, T \subseteq Nat, T # {}
    PROVE  \E x \in T : \A y \in T : x <= y
<1>1. PICK x \in T : \A y \in T : ~ (<<y, x>> \in OpToRel(<, Nat))
    BY Zenon, NatLessThanWellFounded, WFMin
<1>2. \A y \in T : ~ (y < x)
    BY Zenon, <1>1 DEF OpToRel
<1> QED BY <1>2

\* Sequences are the same when their elements are.
LEMMA SameElements ==
    ASSUME NEW S, NEW s \in Seq(S), NEW t \in Seq(S), Len(s) = Len(t),
           \A i \in 1..Len(s) : s[i] = t[i]
    PROVE  s = t
OBVIOUS

\* A nonempty set of ids has a greatest element.
LEMMA IdsMax ==
    ASSUME NEW T, T \subseteq Ids, T # {}
    PROVE  \E x \in T : \A y \in T : x >= y
<1> DEFINE U == {MaxId - n : n \in T}
<1>1. U \subseteq Nat /\ U # {}
    BY RegistryAssumption DEF Ids
<1>2. PICK u \in U : \A v \in U : u <= v
    BY Zenon, <1>1, NatMin
<1>3. PICK x \in T : u = MaxId - x
    BY <1>2
<1>4. ASSUME NEW y \in T PROVE x >= y
    <2>1. MaxId - x <= MaxId - y
        BY <1>2, <1>3
    <2> QED
        BY <2>1, RegistryAssumption DEF Ids
<1> QED
    BY <1>4

-----------------------------------------------------------------------------
\* The values of the table entries, for the proofs of types.
LEMMA EntryTypes ==
    /\ Nil \in Entries /\ Empty \in Entries
    /\ Machines \subseteq Entries
    /\ \A t \in Ids, e, s \in BOOLEAN : Machine(t, e, s) \in Machines
    /\ Default \in Tables /\ Blank \in Tables
    /\ \A x \in Entries : x.kind = "machine" => x \in Machines
    /\ \A x \in Entries : x.kind = "nil" => x.tid = 0
    /\ \A x \in Machines, b \in BOOLEAN :
          /\ x.kind = "machine" /\ x.tid \in Ids /\ x.supper \in BOOLEAN
          /\ [x EXCEPT !.supper = b] \in Machines
          /\ [x EXCEPT !.supper = b].tid = x.tid
          /\ [x EXCEPT !.supper = b].enable = x.enable
<1>1. \A t \in Ids, e, s \in BOOLEAN : Machine(t, e, s) \in Machines
    BY DEF Machines
<1>2. Nil \in Entries /\ Empty \in Entries /\ Machines \subseteq Entries
    BY DEF Entries
<1>3. Default \in Tables /\ Blank \in Tables
    <2>1. \A i \in Ids : i <= Len(Shipped) => Shipped[i] \in Ids
        BY RegistryAssumption DEF Ids
    <2> QED
        BY Zenon, <1>1, <1>2, <2>1 DEF Default, Blank, Tables
<1>4. ASSUME NEW x \in Entries, x.kind = "machine" PROVE x \in Machines
    BY <1>4 DEF Entries, Nil, Empty
<1>5. ASSUME NEW x \in Machines, NEW b \in BOOLEAN
      PROVE  /\ x.kind = "machine" /\ x.tid \in Ids /\ x.supper \in BOOLEAN
             /\ [x EXCEPT !.supper = b] \in Machines
             /\ [x EXCEPT !.supper = b].tid = x.tid
             /\ [x EXCEPT !.supper = b].enable = x.enable
    <2>1. PICK t \in Ids, e \in BOOLEAN, s \in BOOLEAN : x = Machine(t, e, s)
        BY DEF Machines
    <2>2. x.kind = "machine" /\ x.tid = t /\ x.supper = s /\ x.enable = e
        BY <2>1 DEF Machine
    <2>3. /\ [x EXCEPT !.supper = b] = Machine(t, e, b)
          /\ Machine(t, e, b).tid = t /\ Machine(t, e, b).enable = e
        BY <2>1 DEF Machine
    <2> QED
        BY <1>1, <2>2, <2>3
<1>6. ASSUME NEW x \in Entries, x.kind = "nil" PROVE x.tid = 0
    <2>1. x \notin Machines
        BY Zenon, <1>5, <1>6
    <2>2. x = Nil \/ x = Empty
        BY Zenon, <2>1 DEF Entries
    <2>3. Nil.tid = 0 /\ Empty.tid = 0
        BY DEF Nil, Empty
    <2> QED
        BY Zenon, <2>2, <2>3
<1> QED
    BY <1>1, <1>2, <1>3, <1>4, <1>5, <1>6

\* A request names an id, and an ApplyMy is about the machine of its form.
LEMMA RequestTypes ==
    ASSUME NEW r \in Requests
    PROVE  /\ r.id \in Ids
           /\ r.op \in {"ApplyMy", "DeleteMachine", "superOn", "superOff", "create"}
           /\ r.op = "ApplyMy" => r.entry \in Machines /\ r.entry.tid = r.id
<1>1. CASE \E m \in Machines : r = [op |-> "ApplyMy", id |-> m.tid, entry |-> m]
    <2>1. PICK m \in Machines : r = [op |-> "ApplyMy", id |-> m.tid, entry |-> m]
        BY <1>1
    <2>2. m.tid \in Ids
        BY Zenon, EntryTypes
    <2>3. r.op = "ApplyMy" /\ r.id = m.tid /\ r.entry = m
        BY <2>1
    <2> QED
        BY <2>2, <2>3
<1>2. CASE r \in [op : {"DeleteMachine", "superOn", "superOff", "create"}, id : Ids,
                  entry : {Nil}]
    BY <1>2
<1> QED
    BY Zenon, <1>1, <1>2 DEF Requests

\* The change of a request to a table gives a table.
LEMMA EffectType ==
    ASSUME NEW r \in Requests, NEW t \in Tables, ~Dies(r, t)
    PROVE  Effect(r, t) \in Tables
<1>1. r.id \in Ids /\ (r.op = "ApplyMy" => r.entry \in Entries)
    BY Zenon, EntryTypes, RequestTypes
<1>2. r.op \in {"superOn", "superOff"} => t[r.id] \in Machines
    BY <1>1, EntryTypes DEF Dies, Tables
<1>3. CASE r.op = "superOn"
    <2>1. [t[r.id] EXCEPT !.supper = TRUE] \in Entries
        BY Zenon, <1>2, <1>3, EntryTypes
    <2> QED
        BY <2>1, <1>1, <1>3 DEF Effect, Tables
<1>4. CASE r.op = "superOff"
    <2>1. [t[r.id] EXCEPT !.supper = FALSE] \in Entries
        BY Zenon, <1>2, <1>4, EntryTypes
    <2> QED
        BY <2>1, <1>1, <1>4 DEF Effect, Tables
<1>5. CASE r.op \in {"create", "ApplyMy", "DeleteMachine"}
    BY <1>1, <1>5, EntryTypes DEF Effect, Tables
<1> QED
    BY Zenon, <1>3, <1>4, <1>5, RequestTypes

-----------------------------------------------------------------------------
Handlers == [pc : Pcs, todo : Seq(Requests), wks : Tables]

\* The records and sequences that the actions build.
LEMMA HandlerTypes ==
    /\ Idle \in Handlers
    /\ Torn \in [state : {"absent", "torn", "whole"}, wks : Tables]
    /\ \A r \in Requests : <<r>> \in Seq(Requests) /\ <<r>> # <<>>
    /\ \A i \in Ids, o \in {"DeleteMachine", "superOn", "superOff", "create"} :
          [op |-> o, id |-> i, entry |-> Nil] \in Requests
    /\ 1 \in Ids
<1>1. 1 \in Ids
    BY RegistryAssumption DEF Ids
<1>2. Idle \in Handlers
    BY EntryTypes DEF Idle, Handlers, Pcs
<1>3. Torn \in [state : {"absent", "torn", "whole"}, wks : Tables]
    BY EntryTypes DEF Torn
<1>4. \A r \in Requests : <<r>> \in Seq(Requests) /\ <<r>> # <<>>
    OBVIOUS
<1>5. \A i \in Ids, o \in {"DeleteMachine", "superOn", "superOff", "create"} :
          [op |-> o, id |-> i, entry |-> Nil] \in Requests
    BY DEF Requests
<1> QED
    BY <1>1, <1>2, <1>3, <1>4, <1>5

\* Everything is well formed at the start: no nsboot.json, no request.
LEMMA TypingInit == Init => TypeOK
<1> SUFFICES ASSUME Init PROVE TypeOK
    OBVIOUS
<1>1. h \in [Workers -> Handlers] /\ \A p \in Workers : h[p].pc = "idle"
    BY HandlerTypes DEF Init, Idle
<1>2. form \in [Browsers -> Forms]
    BY DEF Init, Forms
<1>3. /\ file \in [state : {"absent", "torn", "whole"}, wks : Tables]
      /\ dhcp \in [state : {"old", "torn", "whole"}, hosts : SUBSET Ids,
                   strays : SUBSET Ids, by : Workers \cup {0}]
    BY EntryTypes DEF Init
<1>4. served \in 0..MaxServed /\ crashes \in 0..MaxCrash
    BY RegistryAssumption DEF Init
<1>5. mixed \in BOOLEAN /\ saved \in Tables /\ deleted \subseteq Ids
    BY EntryTypes, Zenon DEF Init
<1> QED
    BY <1>1, <1>2, <1>3, <1>4, <1>5, Zenon DEF TypeOK, Handlers

\* What a step of one worker has to show.
LEMMA WorkerStep ==
    ASSUME TypeOK, NEW p \in Workers, NEW x \in Handlers,
           x.pc \notin {"idle", "rename", "export"} => x.todo # <<>>,
           h' = [h EXCEPT ![p] = x]
    PROVE  /\ h' \in [Workers -> Handlers]
           /\ \A q \in Workers : h'[q].pc \notin {"idle", "rename", "export"}
                                     => h'[q].todo # <<>>
BY DEF TypeOK, Handlers

\* Every step of a browser and of a worker keeps the types.
LEMMA TypingStep == TypeOK /\ [Next]_vars => TypeOK'
<1> SUFFICES ASSUME TypeOK, [Next]_vars PROVE TypeOK'
    OBVIOUS
<1> DEFINE HOK == /\ h' \in [Workers -> Handlers]
                  /\ \A q \in Workers : h'[q].pc \notin {"idle", "rename", "export"}
                                            => h'[q].todo # <<>>
           FileType == [state : {"absent", "torn", "whole"}, wks : Tables]
           DhcpType == [state : {"old", "torn", "whole"}, hosts : SUBSET Ids,
                        strays : SUBSET Ids, by : Workers \cup {0}]
<1>a. /\ file \in FileType /\ dhcp \in DhcpType /\ form \in [Browsers -> Forms]
      /\ served \in 0..MaxServed /\ crashes \in 0..MaxCrash /\ mixed \in BOOLEAN
      /\ saved \in Tables /\ deleted \subseteq Ids
      /\ h \in [Workers -> Handlers]
      /\ \A q \in Workers : h[q].pc \notin {"idle", "rename", "export"}
                               => h[q].todo # <<>>
    BY DEF TypeOK, Handlers
<1>b. ASSUME /\ file' \in FileType /\ dhcp' \in DhcpType /\ form' \in [Browsers -> Forms]
             /\ served' \in 0..MaxServed /\ crashes' \in 0..MaxCrash /\ mixed' \in BOOLEAN
             /\ saved' \in Tables /\ deleted' \subseteq Ids
             /\ HOK
      PROVE  TypeOK'
    BY <1>b DEF TypeOK, Handlers
<1>c. ASSUME NEW p \in Workers, h[p].pc \in {"load", "change", "truncate", "write"}
      PROVE  /\ Head(h[p].todo) \in Requests /\ Tail(h[p].todo) \in Seq(Requests)
             /\ h[p].wks \in Tables /\ h[p].todo \in Seq(Requests) /\ h[p].todo # <<>>
    <2>1. h[p].wks \in Tables /\ h[p].todo \in Seq(Requests) /\ h[p].todo # <<>>
        BY <1>a, <1>c DEF Handlers
    <2> QED
        BY <2>1
<1> HIDE DEF HOK, FileType, DhcpType
<1>1. ASSUME NEW b \in Browsers, GetMy(b) PROVE TypeOK'
    <2>0. PICK x \in Machines : form' = [form EXCEPT ![b] = x]
        <3>1. CASE \E e \in BOOLEAN :
                       /\ NewId(file.wks) \in Ids
                       /\ form' = [form EXCEPT ![b] = Machine(NewId(file.wks), e, FALSE)]
            BY Zenon, <3>1, EntryTypes
        <3>2. CASE \E i \in Ids, e \in BOOLEAN :
                       /\ file.wks[i].kind = "machine"
                       /\ form' = [form EXCEPT ![b] =
                                Machine(file.wks[i].tid, e, file.wks[i].supper)]
            <4>1. PICK i \in Ids, e \in BOOLEAN :
                       /\ file.wks[i].kind = "machine"
                       /\ form' = [form EXCEPT ![b] =
                                Machine(file.wks[i].tid, e, file.wks[i].supper)]
                BY Zenon, <3>2
            <4>2. file.wks[i] \in Entries
                BY <1>a DEF FileType, Tables
            <4>3. file.wks[i].tid \in Ids /\ file.wks[i].supper \in BOOLEAN
                BY Zenon, <4>1, <4>2, EntryTypes
            <4> QED
                BY Zenon, <4>1, <4>3, EntryTypes
        <3> QED
            BY Zenon, <1>1, <3>1, <3>2 DEF GetMy
    <2>1. form' \in [Browsers -> Forms]
        BY <2>0, <1>a DEF Forms
    <2>2. HOK
        BY <1>1, <1>a DEF GetMy, HOK
    <2> QED
        BY <1>1, <1>a, <1>b, <2>1, <2>2 DEF GetMy
<1>2. ASSUME NEW p \in Workers, NEW r \in Requests, Serve(p, r), form' \in [Browsers -> Forms]
      PROVE  TypeOK'
    <2> DEFINE x == [pc |-> "load", todo |-> <<r>>, wks |-> Blank]
    <2>1. x \in Handlers /\ x.todo # <<>>
        BY HandlerTypes, EntryTypes DEF Handlers, Pcs
    <2>2. HOK
        BY Zenon, <1>2, <2>1, WorkerStep DEF Serve, HOK
    <2>3. served' \in 0..MaxServed /\ mixed' \in BOOLEAN
        BY <1>2, <1>a, RegistryAssumption DEF Serve
    <2> QED
        BY <1>2, <1>a, <1>b, <2>2, <2>3 DEF Serve
<1>3. ASSUME NEW p \in Workers, NEW b \in Browsers, SendForm(p, b) PROVE TypeOK'
    <2>1. [op |-> "ApplyMy", id |-> form[b].tid, entry |-> form[b]] \in Requests
        BY Zenon, <1>3, <1>a DEF SendForm, Requests, Forms
    <2>2. form' \in [Browsers -> Forms]
        BY <1>3, <1>a DEF SendForm, Forms
    <2> QED
        BY <1>2, <1>3, <2>1, <2>2 DEF SendForm
<1>4. ASSUME NEW p \in Workers, Send(p) PROVE TypeOK'
    <2>1. PICK o \in {"DeleteMachine", "superOn", "superOff"}, i \in Ids :
              Serve(p, [op |-> o, id |-> i, entry |-> Nil])
        BY <1>4 DEF Send
    <2> QED
        BY Zenon, <1>2, <1>4, <1>a, <2>1, HandlerTypes DEF Send
<1>5. ASSUME NEW p \in Workers, LoadFromFile(p) PROVE TypeOK'
    <2>0. h[p].pc = "load"
        BY <1>5 DEF LoadFromFile
    <2> DEFINE create == [op |-> "create", id |-> 1, entry |-> Nil]
    <2>1. /\ <<create>> \o h[p].todo \in Seq(Requests)
          /\ <<create>> \o h[p].todo # <<>>
        <3>1. create \in Requests
            BY Zenon, HandlerTypes
        <3> QED
            BY <3>1, <2>0, <1>c
    <2>2. CASE file.state = "whole"
        <3> DEFINE x == [h[p] EXCEPT !.pc = "change", !.wks = file.wks]
        <3>1. x \in Handlers /\ x.todo # <<>>
            BY Zenon, <1>a, <1>c, <2>0 DEF Handlers, Pcs, FileType
        <3>2. h' = [h EXCEPT ![p] = x]
            BY <1>5, <2>2 DEF LoadFromFile
        <3> QED
            BY <3>1, <3>2, <1>5, <1>a, <1>b, WorkerStep DEF LoadFromFile, HOK
    <2>3. CASE file.state = "torn"
        <3>1. h' = [h EXCEPT ![p] = Idle]
            BY <1>5, <2>3 DEF LoadFromFile
        <3>2. Idle.pc = "idle"
            BY DEF Idle
        <3> QED
            BY <3>1, <3>2, <1>5, <1>a, <1>b, WorkerStep, HandlerTypes DEF LoadFromFile, HOK
    <2>4. CASE file.state = "absent"
        <3> DEFINE x == [pc |-> "change", wks |-> Blank, todo |-> <<create>> \o h[p].todo]
        <3>1. x \in Handlers /\ x.todo # <<>>
            BY <2>1, EntryTypes DEF Handlers, Pcs
        <3>2. h' = [h EXCEPT ![p] = x]
            BY <1>5, <2>4 DEF LoadFromFile
        <3> QED
            BY <3>1, <3>2, <1>5, <1>a, <1>b, WorkerStep DEF LoadFromFile, HOK
    <2> QED
        BY <1>a, <2>2, <2>3, <2>4 DEF FileType
<1>6. ASSUME NEW p \in Workers, Change(p) PROVE TypeOK'
    <2> DEFINE r == Head(h[p].todo)
    <2>0. h[p].pc = "change"
        BY <1>6 DEF Change
    <2>1. CASE Dies(r, h[p].wks)
        <3>1. h' = [h EXCEPT ![p] = Idle]
            BY <1>6, <2>1 DEF Change
        <3>2. Idle.pc = "idle"
            BY DEF Idle
        <3> QED
            BY <3>1, <3>2, <1>6, <1>a, <1>b, WorkerStep, HandlerTypes DEF Change, HOK
    <2>2. CASE ~Dies(r, h[p].wks)
        <3> DEFINE x == [h[p] EXCEPT !.pc = "truncate", !.wks = Effect(r, h[p].wks)]
        <3>1. x \in Handlers /\ x.todo # <<>>
            BY Zenon, <1>a, <1>c, <2>0, <2>2, EffectType DEF Handlers, Pcs
        <3>2. h' = [h EXCEPT ![p] = x]
            BY <1>6, <2>2 DEF Change
        <3> QED
            BY <3>1, <3>2, <1>6, <1>a, <1>b, WorkerStep DEF Change, HOK
    <2> QED
        BY <2>1, <2>2
<1>7. ASSUME NEW p \in Workers, Truncate(p) PROVE TypeOK'
    <2> DEFINE x == [h[p] EXCEPT !.pc = "write"]
    <2>1. x \in Handlers /\ x.todo # <<>>
        BY <1>7, <1>a, <1>c DEF Truncate, Handlers, Pcs
    <2>2. h' = [h EXCEPT ![p] = x]
        BY <1>7 DEF Truncate
    <2> QED
        BY <2>1, <2>2, <1>7, <1>a, <1>b, WorkerStep, HandlerTypes DEF Truncate, HOK, FileType
<1>8. ASSUME NEW p \in Workers, Write(p) PROVE TypeOK'
    <2> DEFINE r == Head(h[p].todo)
               rest == Tail(h[p].todo)
               x == IF rest # <<>> THEN [h[p] EXCEPT !.pc = "change", !.todo = rest]
                    ELSE IF r.op = "ApplyMy" THEN [h[p] EXCEPT !.pc = "rename", !.todo = rest]
                    ELSE Idle
    <2>0. /\ r \in Requests /\ rest \in Seq(Requests) /\ h[p].wks \in Tables
          /\ r.id \in Ids
        <3>1. r \in Requests /\ rest \in Seq(Requests) /\ h[p].wks \in Tables
            BY Zenon, <1>8, <1>c DEF Write
        <3> QED
            BY Zenon, <3>1, RequestTypes
    <2>1. x \in Handlers
        <3> HIDE DEF r, rest
        <3> QED
            BY Zenon, <1>a, <2>0, HandlerTypes DEF Handlers, Pcs
    <2>2. x.pc \notin {"idle", "rename", "export"} => x.todo # <<>>
        <3> HIDE DEF r, rest
        <3> QED
            BY <1>a, <2>0 DEF Handlers, Idle
    <2>3. h' = [h EXCEPT ![p] = x]
        BY <1>8 DEF Write
    <2>4. file' \in FileType
        <3>1. file' = [state |-> "whole", wks |-> h[p].wks] \/ file' = Torn
            BY Zenon, <1>8 DEF Write
        <3>2. Torn \in FileType /\ [state |-> "whole", wks |-> h[p].wks] \in FileType
            BY Zenon, <2>0, HandlerTypes DEF FileType
        <3> QED
            BY Zenon, <3>1, <3>2
    <2>5. saved' \in Tables /\ deleted' \subseteq Ids
        BY Zenon, <1>8, <1>a, <2>0 DEF Write, Record, Tables
    <2>6. HOK
        <3> HIDE DEF x
        <3> QED
            BY Zenon, <2>1, <2>2, <2>3, WorkerStep DEF HOK
    <2> QED
        BY Zenon, <2>4, <2>5, <2>6, <1>8, <1>a, <1>b DEF Write
<1>9. ASSUME NEW p \in Workers, Rename(p) PROVE TypeOK'
    <2> DEFINE x == [h[p] EXCEPT !.pc = "export"]
    <2>1. x \in Handlers /\ x.pc = "export"
        BY Zenon, <1>a DEF Handlers, Pcs
    <2>2. h' = [h EXCEPT ![p] = x]
        BY <1>9 DEF Rename
    <2>3. dhcp' \in DhcpType
        BY <1>9 DEF Rename, DhcpType
    <2>4. HOK
        BY Zenon, <2>1, <2>2, WorkerStep DEF HOK
    <2> QED
        BY <2>3, <2>4, <1>9, <1>a, <1>b DEF Rename
<1>10. ASSUME NEW p \in Workers, Export(p) PROVE TypeOK'
    <2>1. h' = [h EXCEPT ![p] = Idle] /\ Idle.pc = "idle"
        BY <1>10 DEF Export, Idle
    <2>2. HOK
        BY Zenon, <2>1, WorkerStep, HandlerTypes DEF HOK
    <2>3. dhcp' \in DhcpType /\ deleted' \subseteq Ids
        BY <1>10, <1>a DEF Export, DhcpType, Hosts, Strays
    <2> QED
        BY <2>2, <2>3, <1>10, <1>a, <1>b DEF Export
<1>11. ASSUME NEW p \in Workers, Crash(p) PROVE TypeOK'
    <2>1. h' = [h EXCEPT ![p] = Idle] /\ Idle.pc = "idle"
        BY <1>11 DEF Crash, Idle
    <2>2. HOK
        BY Zenon, <2>1, WorkerStep, HandlerTypes DEF HOK
    <2>3. crashes' \in 0..MaxCrash
        BY <1>11, <1>a, RegistryAssumption DEF Crash
    <2> QED
        BY <2>2, <2>3, <1>11, <1>a, <1>b DEF Crash
<1>12. CASE UNCHANGED vars
    BY <1>12, <1>a, <1>b DEF vars, HOK
<1> QED
    BY <1>1, <1>3, <1>4, <1>5, <1>6, <1>7, <1>8, <1>9, <1>10, <1>11, <1>12
       DEF Next, Request

\* nsboot.json, dhcpd.conf, the requests and the forms stay well formed: every
\* request in a worker has a change to make until it has saved it.
THEOREM Typing == Spec => []TypeOK
BY TypingInit, TypingStep, PTL DEF Spec

\* An unreadable nsboot.json stays unreadable: LoadFromFile stops every later
\* request before it can save, in every interleaving of workers and crashes.
THEOREM Finality == Spec => TornIsFinal
<1>1. TypeOK /\ [Next]_vars => (Unreadable => Unreadable')
    <2> SUFFICES ASSUME TypeOK, [Next]_vars, Unreadable PROVE Unreadable'
        OBVIOUS
    <2>1. /\ file.state = "torn" /\ \A p \in Workers : h[p].pc \notin Loaded
          /\ h \in [Workers -> Handlers]
        BY DEF Unreadable, TypeOK, Handlers
    <2>2. ASSUME NEW p \in Workers, NEW x, x.pc \notin Loaded,
                 h' = [h EXCEPT ![p] = x], file' = file
          PROVE  Unreadable'
        BY <2>1, <2>2 DEF Unreadable
    <2>3. Idle.pc \notin Loaded
        BY DEF Idle, Loaded
    <2>4. ASSUME NEW p \in Workers, NEW r, Serve(p, r) PROVE Unreadable'
        BY Zenon, <2>2, <2>4 DEF Serve, Loaded
    <2>5. ASSUME NEW p \in Workers, LoadFromFile(p) PROVE Unreadable'
        <3>1. h' = [h EXCEPT ![p] = Idle]
            BY <2>1, <2>5 DEF LoadFromFile
        <3> QED
            BY Zenon, <3>1, <2>2, <2>3, <2>5 DEF LoadFromFile
    <2>6. ASSUME NEW p \in Workers, Change(p) \/ Truncate(p) \/ Write(p) PROVE Unreadable'
        BY <2>1, <2>6 DEF Change, Truncate, Write, Loaded
    <2>7. ASSUME NEW p \in Workers, Rename(p) PROVE Unreadable'
        <3>1. h' = [h EXCEPT ![p] = [h[p] EXCEPT !.pc = "export"]]
            BY <2>7 DEF Rename
        <3>2. [h[p] EXCEPT !.pc = "export"].pc = "export"
            BY <2>1 DEF Handlers
        <3> QED
            BY Zenon, <3>1, <3>2, <2>2, <2>7 DEF Rename, Loaded
    <2>8. ASSUME NEW p \in Workers, Export(p) \/ Crash(p) PROVE Unreadable'
        BY <2>2, <2>3, <2>8 DEF Export, Crash
    <2>9. ASSUME NEW b \in Browsers, GetMy(b) PROVE Unreadable'
        BY <2>1, <2>9 DEF GetMy
    <2>10. CASE UNCHANGED vars
        BY <2>1, <2>10 DEF vars, Unreadable
    <2> QED
        BY Zenon, <2>4, <2>5, <2>6, <2>7, <2>8, <2>9, <2>10 DEF Next, Request, SendForm, Send
<1> QED
    BY <1>1, Typing, PTL DEF Spec, TornIsFinal

-----------------------------------------------------------------------------
(***************************************************************************)
(* NoHoles needs to know how the copies of the table in the workers and    *)
(* the ids in the browsers' forms relate to nsboot.json.                   *)
(***************************************************************************)

\* ipairs reaches every id before n.
Reached(t, n) == \A i \in Ids : i < n => t[i].kind # "nil"

\* No machine is hidden behind a nil, nor is the entry that its target id names.
Dense(t) ==
    /\ \A i, j \in Ids : (i < j /\ t[i].kind = "nil") => t[j].kind = "nil"
    /\ \A i \in Ids : t[i].kind = "machine" => Reached(t, t[i].tid)

\* Table u has every entry of table t.
Covers(t, u) == \A i \in Ids : t[i].kind # "nil" => u[i].kind # "nil"

Creation == [op |-> "create", id |-> 1, entry |-> Nil]

\* A request that has not loaded the file yet can be applied to it.
Fresh(p) ==
    h[p].pc = "load" =>
        \E r \in Requests :
            /\ h[p].todo = <<r>>
            /\ r.op # "create"
            /\ r.op = "ApplyMy" => file.state # "absent"
            /\ (r.op = "ApplyMy" /\ file.state = "whole") => Reached(file.wks, r.id)

\* The copy of a request can replace the file, and the forms can be applied to
\* it; the default configuration is created before there are any.
Copied(p) ==
    h[p].pc \in Loaded =>
        \E r \in Requests :
            LET t == h[p].wks
                good == /\ Dense(t)
                        /\ \A b \in Browsers : Reached(t, form[b].tid)
                        /\ file.state = "whole" => Covers(file.wks, t)
            IN  \/ /\ h[p].todo = <<r>> /\ r.op # "create" /\ good
                   /\ (h[p].pc = "change" /\ r.op = "ApplyMy") => Reached(t, r.id)
                \/ /\ h[p].todo = <<Creation, r>> /\ r.op \notin {"create", "ApplyMy"}
                   /\ file.state # "whole"
                   /\ \A b \in Browsers : form[b] = NoForm
                   /\ h[p].pc # "change" => good

Ordered ==
    /\ \A p, q \in Workers : (h[p].pc # "idle" /\ h[q].pc # "idle") => p = q
    /\ file.state = "absent" => \A b \in Browsers : form[b] = NoForm
    /\ file.state = "whole" =>
          Dense(file.wks) /\ \A b \in Browsers : Reached(file.wks, form[b].tid)
    /\ \A p \in Workers : Fresh(p) /\ Copied(p)

\* The inductive invariant.
IInv == TypeOK /\ (~mixed => Ordered)

\* The id of a new machine is reached: the first empty slot of the listed ones,
\* or the id after them.
LEMMA NewIdReached ==
    ASSUME NEW t \in Tables, NewId(t) \in Ids
    PROVE  Reached(t, NewId(t))
<1> DEFINE listed == {n \in Ids : \A i \in 1..n : t[i].kind # "nil"}
           empties == {n \in listed : t[n].kind = "empty"}
           own == {n \in listed : t[n].tid = n}
<1>1. ASSUME NEW n \in listed, NEW i \in Ids, i <= n PROVE t[i].kind # "nil"
    BY <1>1 DEF Ids
<1>2. CASE empties # {}
    <2>1. empties \subseteq Nat
        BY DEF Ids
    <2>2. \E x \in empties : \A y \in empties : x <= y
        BY Zenon, <1>2, <2>1, NatMin
    <2>3. Min(empties) \in empties
        BY <2>2 DEF Min
    <2>4. NewId(t) = Min(empties)
        BY <1>2 DEF NewId
    <2> QED
        BY <1>1, <2>3, <2>4 DEF Reached, Ids
<1>3. CASE empties = {} /\ own # {}
    <2>1. \E x \in own : \A y \in own : x >= y
        BY Zenon, <1>3, IdsMax
    <2>2. Max(own) \in own
        BY Zenon, <2>1 DEF Max
    <2>3. NewId(t) = Max(own) + 1
        BY <1>3 DEF NewId
    <2>4. ASSUME NEW i \in Ids, i < NewId(t) PROVE i <= Max(own)
        <3>1. i \in Int /\ Max(own) \in Int
            BY <2>2 DEF Ids
        <3> HIDE DEF own
        <3> QED
            BY <2>3, <2>4, <3>1
    <2> QED
        BY <1>1, <2>2, <2>4 DEF Reached
<1>4. CASE empties = {} /\ own = {}
    <2>1. NewId(t) = 0
        BY <1>4 DEF NewId
    <2> QED
        BY <2>1 DEF Ids
<1> QED
    BY <1>2, <1>3, <1>4

\* The change of a request leaves no hole and loses no entry.
LEMMA EffectDense ==
    ASSUME NEW r \in Requests, NEW t \in Tables, r.op # "create", ~Dies(r, t), Dense(t),
           r.op = "ApplyMy" => Reached(t, r.id)
    PROVE  Dense(Effect(r, t)) /\ Covers(t, Effect(r, t))
<1> DEFINE u == Effect(r, t)
<1>0. r.op \in {"ApplyMy", "DeleteMachine", "superOn", "superOff"}
    BY RequestTypes
<1>1. r.id \in Ids /\ (r.op = "ApplyMy" => r.entry \in Machines /\ r.entry.tid = r.id)
    BY Zenon, RequestTypes
<1>2. \A i \in Ids : i # r.id => u[i] = t[i]
    BY <1>0, <1>1 DEF Effect, Tables
<1>3. r.op = "ApplyMy" => u[r.id].kind # "nil"
    <2>1. r.op = "ApplyMy" => u[r.id] = r.entry
        BY <1>1 DEF Effect, Tables
    <2> QED
        BY Zenon, <1>1, <2>1, EntryTypes
<1>4. r.op = "DeleteMachine" => (u[r.id].kind = "nil" <=> t[r.id].kind = "nil")
    <2>1. t[r.id] \in Entries /\ 0 \notin Ids
        BY <1>1 DEF Tables, Ids
    <2>2. t[r.id].kind = "nil" => t[r.id].tid # r.id
        BY Zenon, <1>1, <2>1, EntryTypes
    <2>3. CASE r.op = "DeleteMachine" /\ t[r.id].tid = r.id
        <3>1. u[r.id] = Empty /\ Empty.kind # "nil"
            BY <1>1, <2>3 DEF Effect, Tables, Empty
        <3> QED
            BY Zenon, <2>2, <2>3, <3>1
    <2>4. CASE r.op = "DeleteMachine" /\ t[r.id].tid # r.id
        BY <2>4 DEF Effect
    <2> QED
        BY Zenon, <2>3, <2>4
<1>5. r.op \in {"superOn", "superOff"} => u[r.id].kind # "nil" /\ t[r.id].kind # "nil"
    <2>1. r.op \in {"superOn", "superOff"} => t[r.id] \in Machines
        BY <1>1, EntryTypes DEF Dies, Tables
    <2>2. r.op = "superOn" => u[r.id] = [t[r.id] EXCEPT !.supper = TRUE]
        BY Zenon, <1>1 DEF Effect, Tables
    <2>3. r.op = "superOff" => u[r.id] = [t[r.id] EXCEPT !.supper = FALSE]
        BY Zenon, <1>1 DEF Effect, Tables
    <2>4. r.op \in {"superOn", "superOff"} => u[r.id] \in Machines
        BY Zenon, <2>1, <2>2, <2>3, EntryTypes
    <2> QED
        BY Zenon, <2>1, <2>4, EntryTypes
<1>6. u[r.id].kind = "machine" =>
          \/ u[r.id].tid = r.id /\ r.op = "ApplyMy"
          \/ u[r.id].tid = t[r.id].tid /\ t[r.id].kind = "machine"
    <2>1. CASE r.op = "ApplyMy"
        <3>1. u[r.id] = r.entry
            BY <1>1, <2>1 DEF Effect, Tables
        <3> QED
            BY Zenon, <1>1, <2>1, <3>1
    <2>2. CASE r.op = "DeleteMachine"
        BY <1>1, <2>2 DEF Effect, Tables, Empty
    <2>3. CASE r.op \in {"superOn", "superOff"}
        <3>1. t[r.id].kind = "machine" /\ t[r.id] \in Machines
            BY <1>1, <2>3, EntryTypes DEF Dies, Tables
        <3>2. PICK b \in BOOLEAN : u[r.id] = [t[r.id] EXCEPT !.supper = b]
            BY Zenon, <1>1, <2>3 DEF Effect, Tables
        <3> QED
            BY <3>1, <3>2, EntryTypes
    <2> QED
        BY Zenon, <1>0, <2>1, <2>2, <2>3
<1> HIDE DEF u
<1>7. Covers(t, u)
    BY <1>0, <1>1, <1>2, <1>3, <1>4, <1>5 DEF Covers
<1>8. ASSUME NEW i \in Ids, NEW j \in Ids, i < j, u[i].kind = "nil" PROVE u[j].kind = "nil"
    <2>1. t[i].kind = "nil"
        BY <1>7, <1>8 DEF Covers
    <2>2. t[j].kind = "nil"
        BY <2>1, <1>8 DEF Dense
    <2>3. CASE j = r.id
        <3>1. r.op # "ApplyMy"
            BY <2>1, <2>3, <1>8 DEF Reached
        <3> QED
            BY <3>1, <2>2, <2>3, <1>0, <1>4, <1>5
    <2>4. CASE j # r.id
        BY <2>2, <2>4, <1>2
    <2> QED
        BY <2>3, <2>4
<1>9. ASSUME NEW i \in Ids, u[i].kind = "machine" PROVE Reached(u, u[i].tid)
    <2>1. Reached(t, u[i].tid)
        <3>1. CASE t[i].kind = "machine" /\ u[i].tid = t[i].tid
            BY Zenon, <3>1 DEF Dense
        <3>2. CASE i = r.id /\ r.op = "ApplyMy" /\ u[i].tid = r.id
            BY Zenon, <3>2
        <3> QED
            BY Zenon, <1>2, <1>6, <1>9, <3>1, <3>2
    <2> QED
        BY <2>1, <1>7 DEF Reached, Covers
<1> QED
    BY <1>7, <1>8, <1>9 DEF Dense, u

\* The default configuration has its machines in front, and their target ids are
\* ids of them.
LEMMA DefaultDense == Dense(Default)
<1>1. \A i \in Ids : Default[i] = IF i <= Len(Shipped) THEN Machine(Shipped[i], TRUE, FALSE)
                                 ELSE Nil
    BY DEF Default
<1>2. \A i \in Ids : /\ i <= Len(Shipped) =>
                              Default[i].kind = "machine" /\ Default[i].tid = Shipped[i]
                     /\ ~(i <= Len(Shipped)) => Default[i].kind = "nil"
    <2>1. \A t : /\ Machine(t, TRUE, FALSE).kind = "machine" /\ Machine(t, TRUE, FALSE).tid = t
                 /\ Nil.kind = "nil"
        BY DEF Machine, Nil
    <2> QED
        BY Zenon, <1>1, <2>1
<1>3. Len(Shipped) \in Nat /\ Ids \subseteq Nat
    BY RegistryAssumption DEF Ids
<1>4. \A i \in Ids : i <= Len(Shipped) => Shipped[i] \in Nat /\ Shipped[i] <= Len(Shipped)
    BY RegistryAssumption DEF Ids
<1> QED
    BY <1>2, <1>3, <1>4 DEF Dense, Reached

\* No form is open at first, and an empty form is reached everywhere.
LEMMA NoFormReached == \A t : Reached(t, NoForm.tid)
BY DEF Reached, NoForm, Nil, Ids

\* An id that is reached in a table is reached in one that covers it.
LEMMA CoversReached ==
    ASSUME NEW t, NEW u, Covers(t, u), NEW n, Reached(t, n)
    PROVE  Reached(u, n)
BY DEF Covers, Reached

\* The sequences of requests that a worker can have to do.
LEMMA Pairs ==
    ASSUME NEW a \in Requests, NEW b \in Requests
    PROVE  /\ <<a>> \o <<b>> = <<a, b>>
           /\ Head(<<a, b>>) = a /\ Tail(<<a, b>>) = <<b>>
           /\ Head(<<a>>) = a /\ Tail(<<a>>) = <<>>
<1>1. <<a>> \in Seq(Requests) /\ <<b>> \in Seq(Requests) /\ <<a, b>> \in Seq(Requests)
    OBVIOUS
<1>2. <<a>> \o <<b>> = <<a, b>>
    <2>1. <<a>> \o <<b>> \in Seq(Requests) /\ Len(<<a>> \o <<b>>) = 2
        BY <1>1
    <2>2. (<<a>> \o <<b>>)[1] = a /\ (<<a>> \o <<b>>)[2] = b
        OBVIOUS
    <2>3. Len(<<a, b>>) = 2 /\ <<a, b>>[1] = a /\ <<a, b>>[2] = b
        OBVIOUS
    <2>4. \A i \in 1..2 : (<<a>> \o <<b>>)[i] = <<a, b>>[i]
        <3>1. \A i \in 1..2 : i = 1 \/ i = 2
            OBVIOUS
        <3> QED
            BY <2>2, <2>3, <3>1, Zenon
    <2> QED
        BY Zenon, <1>1, <2>1, <2>3, <2>4, SameElements
<1>3. Head(<<a, b>>) = a
    OBVIOUS
<1>4. Tail(<<a, b>>) = <<b>>
    OBVIOUS
<1>5. Head(<<a>>) = a
    OBVIOUS
<1>6. Tail(<<a>>) = <<>>
    OBVIOUS
<1> QED
    BY <1>2, <1>3, <1>4, <1>5, <1>6

\* The default configuration is created from nothing.
LEMMA CreationEffect ==
    /\ Creation \in Requests
    /\ \A t : Effect(Creation, t) = Default
<1>1. Creation \in Requests
    BY Zenon, HandlerTypes DEF Creation
<1>2. Creation.op = "create"
    BY DEF Creation
<1> QED
    BY <1>1, <1>2, Zenon DEF Effect

\* A step that leaves the files and forms alone and takes one worker to a place
\* where it holds no copy.
LEMMA Released ==
    ASSUME TypeOK, Ordered, NEW p \in Workers, NEW x, x.pc \notin Loaded \cup {"load"},
           h' = [h EXCEPT ![p] = x], x.pc = "idle" \/ h[p].pc # "idle",
           file' = file, form' = form
    PROVE  Ordered'
<1>0. \A q \in Workers : h'[q] = IF q = p THEN x ELSE h[q]
    BY DEF TypeOK
<1>1. \A q, s \in Workers : (h'[q].pc # "idle" /\ h'[s].pc # "idle") => q = s
    BY <1>0 DEF Ordered
<1>2. \A q \in Workers : Fresh(q)' /\ Copied(q)'
    <2> SUFFICES ASSUME NEW q \in Workers PROVE Fresh(q)' /\ Copied(q)'
        OBVIOUS
    <2>1. CASE q = p
        BY <2>1, <1>0 DEF Fresh, Copied
    <2>2. CASE q # p
        <3>1. h'[q] = h[q] /\ Fresh(q) /\ Copied(q)
            BY Zenon, <2>2, <1>0 DEF Ordered
        <3>2. Fresh(q)'
            BY <3>1 DEF Fresh
        <3>3. Copied(q)'
            BY Zenon, <3>1 DEF Copied
        <3> QED
            BY <3>2, <3>3
    <2> QED
        BY <2>1, <2>2
<1> QED
    BY <1>1, <1>2 DEF Ordered

\* A step of the only worker that is busy: the others hold nothing.
LEMMA Alone ==
    ASSUME TypeOK, Ordered, NEW p \in Workers, h[p].pc # "idle", NEW x,
           h' = [h EXCEPT ![p] = x]
    PROVE  /\ h'[p] = x
           /\ \A q \in Workers \ {p} : h'[q].pc = "idle"
           /\ \A q, s \in Workers : (h'[q].pc # "idle" /\ h'[s].pc # "idle") => q = s
           /\ \A q \in Workers \ {p} : Fresh(q)' /\ Copied(q)'
<1>1. h'[p] = x /\ \A q \in Workers \ {p} : h'[q] = h[q]
    BY DEF TypeOK
<1>2. \A q \in Workers \ {p} : h'[q].pc = "idle"
    BY <1>1 DEF Ordered
<1>3. \A q \in Workers \ {p} : Fresh(q)' /\ Copied(q)'
    BY <1>2 DEF Fresh, Copied, Loaded
<1> QED
    BY <1>1, <1>2, <1>3

\* Requests that have overlapped have overlapped for ever.
LEMMA MixedGrows == [Next]_vars /\ ~mixed' => ~mixed
<1>1. ASSUME NEW p \in Workers, NEW r, Serve(p, r), mixed PROVE mixed'
    BY <1>1, Zenon DEF Serve
<1> QED
    BY <1>1, Zenon DEF Next, vars, GetMy, SendForm, Send, Request, Crash,
       LoadFromFile, Change, Truncate, Write, Rename, Export

\* As long as requests do not overlap, every step keeps the copies and forms in
\* order.
LEMMA OrderedStep == IInv /\ [Next]_vars /\ ~mixed' => Ordered'
<1> SUFFICES ASSUME IInv, [Next]_vars, ~mixed' PROVE Ordered'
    OBVIOUS
<1>0. TypeOK /\ ~mixed /\ Ordered
    BY MixedGrows DEF IInv
<1>a. file \in [state : {"absent", "torn", "whole"}, wks : Tables]
    BY <1>0 DEF TypeOK
<1>b. h \in [Workers -> Handlers]
    BY <1>0 DEF TypeOK, Handlers
<1>1. ASSUME NEW b \in Browsers, GetMy(b) PROVE Ordered'
    <2>1. /\ file.state = "whole" /\ Dense(file.wks) /\ file.wks \in Tables
          /\ \A c \in Browsers : Reached(file.wks, form[c].tid)
        BY <1>0, <1>1, <1>a DEF GetMy, Ordered
    <2>2. PICK x : form' = [form EXCEPT ![b] = x] /\ Reached(file.wks, x.tid)
        <3>1. CASE \E e \in BOOLEAN :
                       /\ NewId(file.wks) \in Ids
                       /\ form' = [form EXCEPT ![b] = Machine(NewId(file.wks), e, FALSE)]
            <4>1. \A e : Machine(NewId(file.wks), e, FALSE).tid = NewId(file.wks)
                BY DEF Machine
            <4> QED
                BY Zenon, <3>1, <4>1, <2>1, NewIdReached
        <3>2. CASE \E i \in Ids, e \in BOOLEAN :
                       /\ file.wks[i].kind = "machine"
                       /\ form' = [form EXCEPT ![b] =
                                Machine(file.wks[i].tid, e, file.wks[i].supper)]
            <4>1. PICK i \in Ids, e \in BOOLEAN :
                       /\ file.wks[i].kind = "machine"
                       /\ form' = [form EXCEPT ![b] =
                                Machine(file.wks[i].tid, e, file.wks[i].supper)]
                BY Zenon, <3>2
            <4>2. Machine(file.wks[i].tid, e, file.wks[i].supper).tid = file.wks[i].tid
                BY DEF Machine
            <4>3. Reached(file.wks, file.wks[i].tid)
                BY Zenon, <4>1, <2>1 DEF Dense
            <4> QED
                BY Zenon, <4>1, <4>2, <4>3
        <3> QED
            BY Zenon, <1>1, <3>1, <3>2 DEF GetMy
    <2>3. \A c \in Browsers : form'[c] = form[c] \/ form'[c] = x
        BY <1>0, <2>2 DEF TypeOK
    <2>4. file' = file /\ h' = h
        BY <1>1 DEF GetMy
    <2>5. \A c \in Browsers : Reached(file.wks, form'[c].tid)
        BY <2>1, <2>2, <2>3
    <2>6. ASSUME NEW p \in Workers PROVE Fresh(p)' /\ Copied(p)'
        <3>1. Fresh(p) /\ Copied(p)
            BY <1>0 DEF Ordered
        <3>2. Fresh(p)'
            BY <3>1, <2>4 DEF Fresh
        <3>3. CASE h[p].pc \in Loaded
            <4>1. PICK r \in Requests :
                     /\ h[p].todo = <<r>> /\ r.op # "create"
                     /\ Dense(h[p].wks) /\ Covers(file.wks, h[p].wks)
                     /\ (h[p].pc = "change" /\ r.op = "ApplyMy") => Reached(h[p].wks, r.id)
                BY Zenon, <3>1, <3>3, <2>1 DEF Copied
            <4>2. \A c \in Browsers : Reached(h[p].wks, form'[c].tid)
                BY <4>1, <2>5, CoversReached
            <4> QED
                BY Zenon, <3>2, <4>1, <4>2, <2>4 DEF Copied
        <3> QED
            BY Zenon, <3>2, <3>3, <2>4 DEF Copied
    <2> QED
        BY <1>0, <2>1, <2>4, <2>5, <2>6 DEF Ordered
<1>2. ASSUME NEW p \in Workers, NEW r \in Requests, Serve(p, r), r.op # "create",
             r.op = "ApplyMy" => file.state # "absent",
             (r.op = "ApplyMy" /\ file.state = "whole") => Reached(file.wks, r.id),
             \A c \in Browsers : form'[c] = form[c] \/ form'[c] = NoForm
      PROVE  Ordered'
    <2>1. \A q \in Workers : h[q].pc = "idle"
        BY <1>2, Zenon DEF Serve
    <2>2. /\ h'[p].pc = "load" /\ h'[p].todo = <<r>> /\ file' = file
          /\ \A q \in Workers \ {p} : h'[q] = h[q]
        BY <1>2, <1>b DEF Serve
    <2>3. ASSUME NEW q \in Workers PROVE Fresh(q)' /\ Copied(q)'
        <3>1. CASE q = p
            BY <3>1, <2>2, <1>2 DEF Fresh, Copied, Loaded
        <3>2. CASE q # p
            BY <3>2, <2>1, <2>2 DEF Fresh, Copied, Loaded
        <3> QED
            BY <3>1, <3>2
    <2>4. file.state = "whole" => \A c \in Browsers : Reached(file.wks, form'[c].tid)
        BY <1>0, <1>2, NoFormReached DEF Ordered
    <2>5. file.state = "absent" => \A c \in Browsers : form'[c] = NoForm
        BY <1>0, <1>2 DEF Ordered
    <2>6. \A q, s \in Workers : (h'[q].pc # "idle" /\ h'[s].pc # "idle") => q = s
        BY <2>1, <2>2
    <2> QED
        BY Zenon, <1>0, <2>2, <2>3, <2>4, <2>5, <2>6 DEF Ordered
<1>3. ASSUME NEW p \in Workers, NEW b \in Browsers, SendForm(p, b) PROVE Ordered'
    <2> DEFINE r == [op |-> "ApplyMy", id |-> form[b].tid, entry |-> form[b]]
    <2>1. form \in [Browsers -> Forms] /\ form[b] # NoForm
        BY <1>0, <1>3 DEF TypeOK, SendForm
    <2>2. r \in Requests
        BY Zenon, <2>1 DEF Requests, Forms
    <2>3. Serve(p, r) /\ \A c \in Browsers : form'[c] = form[c] \/ form'[c] = NoForm
        BY <1>3, <2>1 DEF SendForm
    <2>4. file.state # "absent" /\ (file.state = "whole" => Reached(file.wks, r.id))
        BY <1>0, <2>1 DEF Ordered
    <2> QED
        BY <1>2, <2>2, <2>3, <2>4
<1>4. ASSUME NEW p \in Workers, Send(p) PROVE Ordered'
    <2>1. PICK o \in {"DeleteMachine", "superOn", "superOff"}, i \in Ids :
              Serve(p, [op |-> o, id |-> i, entry |-> Nil])
        BY <1>4 DEF Send
    <2>2. [op |-> o, id |-> i, entry |-> Nil] \in Requests
        BY Zenon, HandlerTypes
    <2> QED
        BY <1>2, <1>4, <2>1, <2>2 DEF Send
<1>5. ASSUME NEW p \in Workers, LoadFromFile(p) PROVE Ordered'
    <2>1. /\ h[p].pc = "load" /\ file' = file /\ form' = form
          /\ h[p] \in Handlers
        BY <1>5, <1>b DEF LoadFromFile
    <2>2. PICK r \in Requests :
            /\ h[p].todo = <<r>>
            /\ r.op # "create"
            /\ r.op = "ApplyMy" => file.state # "absent"
            /\ (r.op = "ApplyMy" /\ file.state = "whole") => Reached(file.wks, r.id)
        BY Zenon, <1>0, <2>1 DEF Ordered, Fresh
    <2>3. CASE file.state = "torn"
        <3>1. h' = [h EXCEPT ![p] = Idle]
            BY <1>5, <2>3 DEF LoadFromFile
        <3>2. Idle.pc = "idle" /\ Idle.pc \notin Loaded \cup {"load"}
            BY DEF Idle, Loaded
        <3> QED
            BY Zenon, <1>0, <2>1, <3>1, <3>2, Released
    <2>4. CASE file.state = "whole"
        <3> DEFINE x == [h[p] EXCEPT !.pc = "change", !.wks = file.wks]
        <3>1. h' = [h EXCEPT ![p] = x]
            BY <1>5, <2>4 DEF LoadFromFile
        <3>2. x.pc = "change" /\ x.wks = file.wks /\ x.todo = <<r>>
            BY <2>1, <2>2 DEF Handlers
        <3> HIDE DEF x
        <3>3. /\ h'[p] = x
              /\ \A q, s \in Workers : (h'[q].pc # "idle" /\ h'[s].pc # "idle") => q = s
              /\ \A q \in Workers \ {p} : Fresh(q)' /\ Copied(q)'
            BY Zenon, <1>0, <2>1, <3>1, Alone
        <3>4. Dense(file.wks) /\ \A b \in Browsers : Reached(file.wks, form[b].tid)
            BY <1>0, <2>4 DEF Ordered
        <3>5. Fresh(p)' /\ Copied(p)'
            BY Zenon, <2>1, <2>2, <2>4, <3>2, <3>3, <3>4 DEF Fresh, Copied, Covers
        <3> QED
            BY Zenon, <2>1, <2>4, <3>3, <3>4, <3>5 DEF Ordered
    <2>5. CASE file.state = "absent"
        <3> DEFINE x == [pc |-> "change", wks |-> Blank, todo |-> <<Creation>> \o h[p].todo]
        <3>1. h' = [h EXCEPT ![p] = x]
            BY <1>5, <2>5 DEF LoadFromFile, Creation
        <3>2. x.pc = "change" /\ x.todo = <<Creation, r>>
            <4>1. <<Creation>> \o h[p].todo = <<Creation, r>>
                BY <2>2, Pairs, CreationEffect
            <4> QED
                BY <4>1
        <3> HIDE DEF x
        <3>3. /\ h'[p] = x
              /\ \A q, s \in Workers : (h'[q].pc # "idle" /\ h'[s].pc # "idle") => q = s
              /\ \A q \in Workers \ {p} : Fresh(q)' /\ Copied(q)'
            BY Zenon, <1>0, <2>1, <3>1, Alone
        <3>4. \A b \in Browsers : form[b] = NoForm
            BY <1>0, <2>5 DEF Ordered
        <3>5. Fresh(p)' /\ Copied(p)'
            BY Zenon, <2>1, <2>2, <2>5, <3>2, <3>3, <3>4 DEF Fresh, Copied
        <3> QED
            BY Zenon, <2>1, <2>5, <3>3, <3>4, <3>5 DEF Ordered
    <2> QED
        BY <1>a, <2>3, <2>4, <2>5
<1>6. ASSUME NEW p \in Workers, Change(p) PROVE Ordered'
    <2> DEFINE r == Head(h[p].todo)
               t == h[p].wks
    <2>1. /\ h[p].pc = "change" /\ file' = file /\ form' = form
          /\ h[p] \in Handlers /\ t \in Tables
        BY <1>6, <1>b DEF Change, Handlers
    <2>2. CASE Dies(r, t)
        <3>1. h' = [h EXCEPT ![p] = Idle]
            BY <1>6, <2>2 DEF Change
        <3>2. Idle.pc = "idle" /\ Idle.pc \notin Loaded \cup {"load"}
            BY DEF Idle, Loaded
        <3> QED
            BY Zenon, <1>0, <2>1, <3>1, <3>2, Released
    <2>3. CASE ~Dies(r, t)
        <3> DEFINE u == Effect(r, t)
                   x == [h[p] EXCEPT !.pc = "truncate", !.wks = u]
        <3>1. h' = [h EXCEPT ![p] = x]
            BY <1>6, <2>3 DEF Change
        <3>2. x.pc = "truncate" /\ x.wks = u /\ x.todo = h[p].todo
            BY <2>1 DEF Handlers
        <3> HIDE DEF x
        <3>3. /\ h'[p] = x
              /\ \A q, s \in Workers : (h'[q].pc # "idle" /\ h'[s].pc # "idle") => q = s
              /\ \A q \in Workers \ {p} : Fresh(q)' /\ Copied(q)'
            BY ZenonT(60), <1>0, <2>1, <3>1, Alone
        <3>4. PICK s \in Requests :
                \/ /\ h[p].todo = <<s>> /\ s.op # "create"
                   /\ Dense(t) /\ \A b \in Browsers : Reached(t, form[b].tid)
                   /\ file.state = "whole" => Covers(file.wks, t)
                   /\ s.op = "ApplyMy" => Reached(t, s.id)
                \/ /\ h[p].todo = <<Creation, s>> /\ s.op \notin {"create", "ApplyMy"}
                   /\ file.state # "whole"
                   /\ \A b \in Browsers : form[b] = NoForm
            BY Zenon, <1>0, <2>1 DEF Ordered, Copied, Loaded
        <3>5. ASSUME /\ h[p].todo = <<s>> /\ s.op # "create"
                     /\ Dense(t) /\ \A b \in Browsers : Reached(t, form[b].tid)
                     /\ file.state = "whole" => Covers(file.wks, t)
                     /\ s.op = "ApplyMy" => Reached(t, s.id)
              PROVE  Fresh(p)' /\ Copied(p)'
            <4>1. r = s
                BY <3>5
            <4> HIDE DEF r, t
            <4>2. Dense(u) /\ Covers(t, u)
                BY Zenon, <2>1, <2>3, <3>5, <4>1, EffectDense
            <4>3. \A b \in Browsers : Reached(u, form[b].tid)
                BY <3>5, <4>2, CoversReached
            <4>4. file.state = "whole" => Covers(file.wks, u)
                BY <3>5, <4>2 DEF Covers
            <4> HIDE DEF u
            <4>5. Copied(p)'
                BY Zenon, <2>1, <3>2, <3>3, <3>5, <4>2, <4>3, <4>4 DEF Copied
            <4> QED
                BY <3>2, <3>3, <4>5 DEF Fresh
        <3>6. ASSUME /\ h[p].todo = <<Creation, s>> /\ s.op \notin {"create", "ApplyMy"}
                     /\ file.state # "whole"
                     /\ \A b \in Browsers : form[b] = NoForm
              PROVE  Fresh(p)' /\ Copied(p)'
            <4>1. r = Creation
                BY <3>6
            <4>2. u = Default
                BY <4>1, CreationEffect
            <4> HIDE DEF r, t, u
            <4>3. Dense(u) /\ \A b \in Browsers : Reached(u, form[b].tid)
                BY Zenon, <3>6, <4>2, DefaultDense, NoFormReached
            <4>4. Copied(p)'
                BY ZenonT(60), <2>1, <3>2, <3>3, <3>6, <4>3 DEF Copied
            <4> QED
                BY <3>2, <3>3, <4>4 DEF Fresh
        <3>7. Fresh(p)' /\ Copied(p)'
            BY Zenon, <3>4, <3>5, <3>6
        <3> QED
            BY Zenon, <1>0, <2>1, <3>3, <3>7 DEF Ordered
    <2> QED
        BY <2>2, <2>3
<1>7. ASSUME NEW p \in Workers, Truncate(p) PROVE Ordered'
    <2> DEFINE x == [h[p] EXCEPT !.pc = "write"]
    <2>1. /\ h[p].pc = "truncate" /\ file'.state = "torn" /\ form' = form
          /\ h' = [h EXCEPT ![p] = x] /\ h[p] \in Handlers
        BY <1>7, <1>b DEF Truncate, Torn
    <2>2. x.pc = "write" /\ x.wks = h[p].wks /\ x.todo = h[p].todo
        BY <2>1 DEF Handlers
    <2> HIDE DEF x
    <2>3. /\ h'[p] = x
          /\ \A q, s \in Workers : (h'[q].pc # "idle" /\ h'[s].pc # "idle") => q = s
          /\ \A q \in Workers \ {p} : Fresh(q)' /\ Copied(q)'
        BY Zenon, <1>0, <2>1, Alone
    <2>4. Copied(p)
        BY <1>0 DEF Ordered
    <2>5. Fresh(p)' /\ Copied(p)'
        BY ZenonT(60), <2>1, <2>2, <2>3, <2>4 DEF Fresh, Copied, Loaded
    <2> QED
        BY <2>1, <2>3, <2>5 DEF Ordered
<1>8. ASSUME NEW p \in Workers, Write(p) PROVE Ordered'
    <2> DEFINE r == Head(h[p].todo)
               rest == Tail(h[p].todo)
               t == h[p].wks
               x == IF rest # <<>> THEN [h[p] EXCEPT !.pc = "change", !.todo = rest]
                    ELSE IF r.op = "ApplyMy" THEN [h[p] EXCEPT !.pc = "rename", !.todo = rest]
                    ELSE Idle
    <2>1. /\ h[p].pc = "write" /\ form' = form /\ h[p] \in Handlers
          /\ h' = [h EXCEPT ![p] = x]
          /\ file' = [state |-> "whole", wks |-> t] \/ file' = Torn
        BY <1>8, <1>b DEF Write
    <2>2. PICK s \in Requests :
            /\ h[p].todo = <<s>> \/ (h[p].todo = <<Creation, s>> /\ s.op \notin {"create", "ApplyMy"})
            /\ Dense(t) /\ \A b \in Browsers : Reached(t, form[b].tid)
        BY <1>0, <2>1 DEF Ordered, Copied, Loaded
    <2>3. rest = <<>> \/ (rest = <<s>> /\ s.op \notin {"create", "ApplyMy"})
        BY Zenon, <2>2, Pairs, CreationEffect
    <2>4. \/ x.pc \in {"idle", "rename"}
          \/ x.pc = "change" /\ x.wks = t /\ x.todo = <<s>> /\ s.op \notin {"create", "ApplyMy"}
        <3> HIDE DEF rest, r
        <3> QED
            BY <2>1, <2>3 DEF Handlers, Idle
    <2> HIDE DEF x, t, rest, r
    <2>5. /\ h'[p] = x
          /\ \A q, v \in Workers : (h'[q].pc # "idle" /\ h'[v].pc # "idle") => q = v
          /\ \A q \in Workers \ {p} : Fresh(q)' /\ Copied(q)'
        BY Zenon, <1>0, <2>1, Alone
    <2>6. file'.state # "absent" /\ (file'.state = "whole" => file'.wks = t)
        BY <2>1 DEF Torn
    <2>7. Fresh(p)'
        BY <2>4, <2>5 DEF Fresh
    <2>8. Copied(p)'
        <3>1. CASE x.pc \in {"idle", "rename"}
            BY Zenon, <2>5, <3>1 DEF Copied, Loaded
        <3>2. CASE x.pc = "change" /\ x.wks = t /\ x.todo = <<s>> /\ s.op \notin {"create", "ApplyMy"}
            <4>1. /\ h'[p].pc = "change" /\ h'[p].wks = t /\ h'[p].todo = <<s>>
                  /\ s.op # "create" /\ s.op # "ApplyMy"
                BY <2>5, <3>2
            <4>2. file'.state = "whole" => Covers(file'.wks, t)
                BY <2>6 DEF Covers
            <4>3. Dense(t) /\ \A b \in Browsers : Reached(t, form'[b].tid)
                BY <2>1, <2>2
            <4> QED
                BY Zenon, <4>1, <4>2, <4>3 DEF Copied
        <3> QED
            BY Zenon, <2>4, <3>1, <3>2
    <2> QED
        BY Zenon, <2>1, <2>2, <2>5, <2>6, <2>7, <2>8 DEF Ordered
<1>9. ASSUME NEW p \in Workers, Rename(p) PROVE Ordered'
    <2> DEFINE x == [h[p] EXCEPT !.pc = "export"]
    <2>1. x.pc = "export"
        BY <1>b DEF Handlers
    <2>2. h' = [h EXCEPT ![p] = x] /\ file' = file /\ form' = form /\ h[p].pc # "idle"
        BY <1>9 DEF Rename
    <2>3. x.pc \notin Loaded \cup {"load"}
        BY <2>1 DEF Loaded
    <2> QED
        BY Zenon, <1>0, <2>2, <2>3, Released
<1>10. ASSUME NEW p \in Workers, Export(p) \/ Crash(p) PROVE Ordered'
    <2>1. h' = [h EXCEPT ![p] = Idle] /\ file' = file /\ form' = form
        BY <1>10 DEF Export, Crash
    <2>2. Idle.pc = "idle" /\ Idle.pc \notin Loaded \cup {"load"}
        BY DEF Idle, Loaded
    <2> QED
        BY Zenon, <1>0, <2>1, <2>2, Released
<1>11. CASE UNCHANGED vars
    BY ZenonT(30), <1>0, <1>11 DEF vars, Ordered, Fresh, Copied
<1> QED
    BY <1>1, <1>3, <1>4, <1>5, <1>6, <1>7, <1>8, <1>9, <1>10, <1>11 DEF Next, Request

\* The invariant holds of an empty installation.
LEMMA OrderedInit == Init => IInv
<1> SUFFICES ASSUME Init PROVE Ordered
    BY TypingInit DEF IInv
<1>1. \A p \in Workers : h[p].pc = "idle"
    BY DEF Init, Idle
<1>2. file.state = "absent" /\ \A b \in Browsers : form[b] = NoForm
    BY DEF Init
<1> QED
    BY Zenon, <1>1, <1>2 DEF Ordered, Fresh, Copied, Loaded

\* No step of a request, a crash or a browser breaks it.
LEMMA OrderedInductive == IInv /\ [Next]_vars => IInv'
BY TypingStep, OrderedStep DEF IInv

\* As long as no two requests overlap, no machine of nsboot.json is hidden behind
\* a nil, for any number of ids, browsers and workers, and with crashes.
THEOREM Holeless == Spec => []NoHoles
<1>1. IInv => NoHoles
    BY DEF IInv, Ordered, Dense, NoHoles
<1> QED
    BY <1>1, OrderedInit, OrderedInductive, PTL DEF Spec

-----------------------------------------------------------------------------
(***************************************************************************)
(* ConfirmedKept needs to know how the copy of the request under way       *)
(* differs from what has been confirmed: in its own entry only.            *)
(***************************************************************************)

Own(p) ==
    h[p].pc \in Loaded =>
        LET r == Head(h[p].todo)
            t == h[p].wks
        IN  /\ r.op = "create" => saved = Default /\ (h[p].pc # "change" => t = Default)
            /\ (r.op # "create" /\ h[p].pc = "change") => t = saved
            /\ r.op # "create" => \A i \in Ids \ {r.id} : t[i] = saved[i]

Kept ==
    /\ file.state = "whole" => file.wks = saved
    /\ file.state = "absent" => saved = Default
    /\ \A p \in Workers : Own(p)

KInv == IInv /\ (~mixed => Kept)

\* A request changes its own entry only.
LEMMA EffectElsewhere ==
    ASSUME NEW r \in Requests, NEW t \in Tables, r.op # "create"
    PROVE  \A i \in Ids \ {r.id} : Effect(r, t)[i] = t[i]
<1>1. r.id \in Ids /\ r.op \in {"ApplyMy", "DeleteMachine", "superOn", "superOff"}
    BY RequestTypes
<1> QED
    BY <1>1 DEF Effect, Tables

\* A step that leaves files and confirmations alone and takes one worker to a
\* place where it holds no copy.
LEMMA OwnReleased ==
    ASSUME TypeOK, Kept, NEW p \in Workers, NEW x, x.pc \notin Loaded,
           h' = [h EXCEPT ![p] = x], file' = file, saved' = saved
    PROVE  Kept'
<1>0. \A q \in Workers : h'[q] = IF q = p THEN x ELSE h[q]
    BY DEF TypeOK
<1>1. ASSUME NEW q \in Workers PROVE Own(q)'
    <2>1. CASE q = p
        BY <2>1, <1>0 DEF Own
    <2>2. CASE q # p
        <3>1. h'[q] = h[q] /\ Own(q)
            BY Zenon, <2>2, <1>0 DEF Kept
        <3> QED
            BY <3>1 DEF Own
    <2> QED
        BY <2>1, <2>2
<1> QED
    BY <1>1 DEF Kept

\* As long as requests do not overlap, every step keeps file, copies and
\* confirmations together.
LEMMA KeptStep == KInv /\ [Next]_vars /\ ~mixed' => Kept'
<1> SUFFICES ASSUME KInv, [Next]_vars, ~mixed' PROVE Kept'
    OBVIOUS
<1>0. TypeOK /\ Ordered /\ Kept
    BY MixedGrows DEF KInv, IInv
<1>a. /\ file \in [state : {"absent", "torn", "whole"}, wks : Tables]
      /\ saved \in Tables
    BY <1>0 DEF TypeOK
<1>b. h \in [Workers -> Handlers]
    BY <1>0 DEF TypeOK, Handlers
<1>c. Idle.pc \notin Loaded
    BY DEF Idle, Loaded
<1>d. ASSUME NEW p \in Workers, h[p].pc # "idle", NEW x, h' = [h EXCEPT ![p] = x]
      PROVE  h'[p] = x /\ \A q \in Workers \ {p} : Own(q)'
    <2>1. h'[p] = x /\ \A q \in Workers \ {p} : h'[q].pc = "idle"
        BY Zenon, <1>0, <1>d, Alone
    <2> QED
        BY <2>1 DEF Own, Loaded
<1>1. ASSUME NEW p \in Workers, NEW r, Serve(p, r) PROVE Kept'
    <2> DEFINE x == [pc |-> "load", todo |-> <<r>>, wks |-> Blank]
    <2>1. x.pc \notin Loaded
        BY DEF Loaded
    <2> HIDE DEF x
    <2>2. h' = [h EXCEPT ![p] = x] /\ file' = file /\ saved' = saved
        BY <1>1 DEF Serve, x
    <2> QED
        BY Zenon, <1>0, <2>1, <2>2, OwnReleased
<1>2. ASSUME NEW p \in Workers, LoadFromFile(p) PROVE Kept'
    <2>1. /\ h[p].pc = "load" /\ file' = file /\ saved' = saved
          /\ h[p] \in Handlers
        BY <1>2, <1>b DEF LoadFromFile
    <2>2. PICK r \in Requests : h[p].todo = <<r>> /\ r.op # "create"
        BY Zenon, <1>0, <2>1 DEF Ordered, Fresh
    <2>3. CASE file.state = "torn"
        <3>1. h' = [h EXCEPT ![p] = Idle]
            BY <1>2, <2>3 DEF LoadFromFile
        <3> QED
            BY Zenon, <1>0, <1>c, <2>1, <3>1, OwnReleased
    <2>4. CASE file.state = "whole"
        <3> DEFINE x == [h[p] EXCEPT !.pc = "change", !.wks = file.wks]
        <3>1. h' = [h EXCEPT ![p] = x]
            BY <1>2, <2>4 DEF LoadFromFile
        <3>2. x.pc = "change" /\ x.wks = file.wks /\ x.todo = <<r>>
            BY <2>1, <2>2 DEF Handlers
        <3> HIDE DEF x
        <3>3. h'[p] = x /\ \A q \in Workers \ {p} : Own(q)'
            BY Zenon, <1>d, <2>1, <3>1
        <3>4. Head(x.todo) = r
            BY <3>2, Pairs
        <3>5. Own(p)'
            BY Zenon, <1>0, <2>1, <2>2, <2>4, <3>2, <3>3, <3>4 DEF Own, Kept
        <3> QED
            BY <1>0, <2>1, <3>3, <3>5 DEF Kept
    <2>5. CASE file.state = "absent"
        <3> DEFINE x == [pc |-> "change", wks |-> Blank, todo |-> <<Creation>> \o h[p].todo]
        <3>1. h' = [h EXCEPT ![p] = x]
            BY <1>2, <2>5 DEF LoadFromFile, Creation
        <3>2. x.pc = "change" /\ Head(x.todo) = Creation
            BY <2>2, Pairs, CreationEffect
        <3> HIDE DEF x
        <3>3. h'[p] = x /\ \A q \in Workers \ {p} : Own(q)'
            BY Zenon, <1>d, <2>1, <3>1
        <3>4. Creation.op = "create"
            BY DEF Creation
        <3>5. Own(p)'
            BY Zenon, <1>0, <2>1, <2>5, <3>2, <3>3, <3>4 DEF Own, Kept
        <3> QED
            BY <1>0, <2>1, <3>3, <3>5 DEF Kept
    <2> QED
        BY <1>a, <2>3, <2>4, <2>5
<1>3. ASSUME NEW p \in Workers, Change(p) PROVE Kept'
    <2> DEFINE r == Head(h[p].todo)
               t == h[p].wks
    <2>1. /\ h[p].pc = "change" /\ file' = file /\ saved' = saved
          /\ h[p] \in Handlers /\ t \in Tables
        BY <1>3, <1>b DEF Change, Handlers
    <2>2. r \in Requests
        <3>1. h[p].todo # <<>>
            BY Zenon, <1>0, <2>1 DEF TypeOK
        <3> QED
            BY <3>1, <2>1 DEF Handlers
    <2>3. CASE Dies(r, t)
        <3>1. h' = [h EXCEPT ![p] = Idle]
            BY <1>3, <2>3 DEF Change
        <3> QED
            BY Zenon, <1>0, <1>c, <2>1, <3>1, OwnReleased
    <2>4. CASE ~Dies(r, t)
        <3> DEFINE u == Effect(r, t)
                   x == [h[p] EXCEPT !.pc = "truncate", !.wks = u]
        <3>1. h' = [h EXCEPT ![p] = x]
            BY <1>3, <2>4 DEF Change
        <3>2. x.pc = "truncate" /\ x.wks = u /\ x.todo = h[p].todo
            BY <2>1 DEF Handlers
        <3> HIDE DEF x
        <3>3. h'[p] = x /\ \A q \in Workers \ {p} : Own(q)'
            BY Zenon, <1>d, <2>1, <3>1
        <3>4. /\ r.op = "create" => saved = Default
              /\ r.op # "create" => t = saved
            BY <1>0, <2>1 DEF Kept, Own, Loaded
        <3>5. r.op = "create" => u = Default
            BY Zenon DEF Effect
        <3>6. r.op # "create" => \A i \in Ids \ {r.id} : u[i] = saved[i]
            BY <2>1, <2>2, <3>4, EffectElsewhere
        <3> HIDE DEF u, t
        <3>7. Own(p)'
            BY <2>1, <3>2, <3>3, <3>4, <3>5, <3>6 DEF Own
        <3> QED
            BY <1>0, <2>1, <3>3, <3>7 DEF Kept
    <2> QED
        BY <2>3, <2>4
<1>4. ASSUME NEW p \in Workers, Truncate(p) PROVE Kept'
    <2> DEFINE x == [h[p] EXCEPT !.pc = "write"]
    <2>1. /\ h[p].pc = "truncate" /\ file'.state = "torn" /\ saved' = saved
          /\ h' = [h EXCEPT ![p] = x] /\ h[p] \in Handlers
        BY <1>4, <1>b DEF Truncate, Torn
    <2>2. x.pc = "write" /\ x.wks = h[p].wks /\ x.todo = h[p].todo
        BY <2>1 DEF Handlers
    <2> HIDE DEF x
    <2>3. h'[p] = x /\ \A q \in Workers \ {p} : Own(q)'
        BY Zenon, <1>d, <2>1
    <2>4. Own(p)'
        <3>1. Own(p) /\ h[p].pc \in Loaded /\ h[p].pc # "change"
            BY <1>0, <2>1 DEF Kept, Loaded
        <3>2. /\ h'[p].pc # "change" /\ saved' = saved
              /\ h'[p].wks = h[p].wks /\ h'[p].todo = h[p].todo
            BY <2>1, <2>2, <2>3
        <3> QED
            BY <3>1, <3>2 DEF Own
    <2> QED
        BY <2>1, <2>3, <2>4 DEF Kept
<1>5. ASSUME NEW p \in Workers, Write(p) PROVE Kept'
    <2> DEFINE r == Head(h[p].todo)
               rest == Tail(h[p].todo)
               t == h[p].wks
               x == IF rest # <<>> THEN [h[p] EXCEPT !.pc = "change", !.todo = rest]
                    ELSE IF r.op = "ApplyMy" THEN [h[p] EXCEPT !.pc = "rename", !.todo = rest]
                    ELSE Idle
    <2>1. /\ h[p].pc = "write" /\ h[p] \in Handlers /\ t \in Tables
          /\ h' = [h EXCEPT ![p] = x]
          /\ file' = [state |-> "whole", wks |-> t] \/ file' = Torn
          /\ Record(r, t)
        BY <1>5, <1>b DEF Write, Handlers
    <2>2. file'.state # "absent" /\ (file'.state = "whole" => file'.wks = t)
        BY <2>1 DEF Torn
    <2>3. PICK s \in Requests :
            \/ h[p].todo = <<s>> /\ s.op # "create"
            \/ h[p].todo = <<Creation, s>> /\ s.op # "create"
        BY <1>0, <2>1 DEF Ordered, Copied, Loaded
    <2>4. CASE h[p].todo = <<s>> /\ s.op # "create"
        <3>1. r = s /\ rest = <<>>
            BY <2>4, Pairs
        <3>2. x.pc \in {"idle", "rename"}
            <4> HIDE DEF r, rest
            <4> QED
                BY <2>1, <3>1 DEF Handlers, Idle
        <3>3. \A i \in Ids \ {s.id} : t[i] = saved[i]
            BY <1>0, <2>1, <2>4, <3>1 DEF Kept, Own, Loaded
        <3> HIDE DEF x, t, r, rest
        <3>4. saved' = [saved EXCEPT ![s.id] = t[s.id]]
            BY <2>1, <2>4, <3>1 DEF Record
        <3>5. saved' = t
            BY <1>a, <2>1, <3>3, <3>4 DEF Tables
        <3>6. h'[p] = x /\ \A q \in Workers \ {p} : Own(q)'
            BY Zenon, <1>d, <2>1
        <3>7. Own(p)'
            BY Zenon, <3>2, <3>6 DEF Own, Loaded
        <3> QED
            BY <2>2, <3>5, <3>6, <3>7 DEF Kept
    <2>5. CASE h[p].todo = <<Creation, s>> /\ s.op # "create"
        <3>1. r = Creation /\ rest = <<s>> /\ rest # <<>>
            BY <2>5, Pairs, CreationEffect
        <3>2. Creation.op = "create"
            BY DEF Creation
        <3>3. x.pc = "change" /\ x.wks = t /\ x.todo = <<s>>
            <4> HIDE DEF r, rest
            <4> QED
                BY <2>1, <3>1 DEF Handlers
        <3>4. t = Default /\ saved = Default
            BY <1>0, <2>1, <3>1, <3>2 DEF Kept, Own, Loaded
        <3>5. Head(x.todo) = s
            BY Zenon, <3>3, Pairs
        <3> HIDE DEF x, t, r, rest
        <3>6. saved' = t
            BY <2>1, <3>1, <3>2, <3>4 DEF Record
        <3>7. h'[p] = x /\ \A q \in Workers \ {p} : Own(q)'
            BY Zenon, <1>d, <2>1
        <3>8. Own(p)'
            BY <2>5, <3>3, <3>5, <3>6, <3>7 DEF Own
        <3> QED
            BY <2>2, <3>6, <3>7, <3>8 DEF Kept
    <2> QED
        BY <2>3, <2>4, <2>5
<1>6. ASSUME NEW p \in Workers, Rename(p) PROVE Kept'
    <2> DEFINE x == [h[p] EXCEPT !.pc = "export"]
    <2>1. x.pc \notin Loaded
        BY <1>b DEF Handlers, Loaded
    <2>2. h' = [h EXCEPT ![p] = x] /\ file' = file /\ saved' = saved
        BY <1>6 DEF Rename
    <2> QED
        BY Zenon, <1>0, <2>1, <2>2, OwnReleased
<1>7. ASSUME NEW p \in Workers, Export(p) \/ Crash(p) PROVE Kept'
    <2>1. h' = [h EXCEPT ![p] = Idle] /\ file' = file /\ saved' = saved
        BY <1>7 DEF Export, Crash
    <2> QED
        BY Zenon, <1>0, <1>c, <2>1, OwnReleased
<1>8. ASSUME file' = file /\ h' = h /\ saved' = saved PROVE Kept'
    BY Zenon, <1>0, <1>8 DEF Kept, Own
<1>9. ASSUME NEW b \in Browsers, GetMy(b) PROVE Kept'
    BY <1>8, <1>9 DEF GetMy
<1>10. CASE UNCHANGED vars
    BY <1>8, <1>10 DEF vars
<1> QED
    BY Zenon, <1>1, <1>2, <1>3, <1>4, <1>5, <1>6, <1>7, <1>9, <1>10
       DEF Next, Request, SendForm, Send

\* File, copies and confirmations agree at the start ...
LEMMA KeptInit == Init => KInv
<1> SUFFICES ASSUME Init PROVE IInv /\ Kept
    BY DEF KInv
<1>1. \A p \in Workers : h[p].pc = "idle"
    BY DEF Init, Idle
<1>2. file.state = "absent" /\ saved = Default
    BY DEF Init
<1> QED
    BY <1>1, <1>2, OrderedInit DEF Kept, Own, Loaded

\* ... and after every step.
LEMMA KeptInductive == KInv /\ [Next]_vars => KInv'
    BY OrderedInductive, KeptStep DEF KInv

\* As long as no two requests overlap, no SaveToFile and no crash undoes what
\* another request has confirmed, for any number of workers, browsers and ids.
THEOREM Confirmed == Spec => []ConfirmedKept
<1>1. KInv => ConfirmedKept
    BY DEF KInv, Kept, ConfirmedKept
<1> QED
    BY <1>1, KeptInit, KeptInductive, PTL DEF Spec

-----------------------------------------------------------------------------
(***************************************************************************)
(* DhcpFollows needs to know what dhcpd.conf is behind by between the      *)
(* SaveToFile and the ExportDHCP of a request, and that the requests       *)
(* without ExportDHCP change no host but the one they delete.              *)
(***************************************************************************)

\* ExportDHCP writes the same for both tables.
SameHosts(t, u) == Hosts(t) = Hosts(u) /\ Strays(t) = Strays(u)

\* dhcpd.conf is what ExportDHCP writes for the table, but for the deleted machines.
Matches(t) == /\ dhcp.hosts \ deleted = Hosts(t) \ deleted
              /\ dhcp.strays \ deleted = Strays(t) \ deleted

\* The requests that leave dhcpd.conf alone and are right to.
Quiet(r, t) == \/ r.op \in {"superOn", "superOff"}
               \/ r.op = "DeleteMachine" /\ t[r.id].kind # "empty"

Follows(p) ==
    /\ h[p].pc \in {"rename", "export"} => h[p].wks = saved
    /\ h[p].pc = "export" => dhcp.by = p
    /\ (h[p].pc \in {"truncate", "write"} /\ Quiet(Head(h[p].todo), h[p].wks))
          => SameHosts(h[p].wks, saved)

Followed ==
    /\ (dhcp.state = "whole" /\ \A p \in Workers : h[p].pc # "rename") => Matches(saved)
    /\ \A p \in Workers : Follows(p)

FInv == KInv /\ ((~mixed /\ crashes = 0) => Followed)

\* Super mode, and a DeleteMachine that answers "ERROR", do not change the hosts.
LEMMA QuietHosts ==
    ASSUME NEW r \in Requests, NEW t \in Tables, ~Dies(r, t), Quiet(r, Effect(r, t))
    PROVE  SameHosts(Effect(r, t), t)
<1> DEFINE u == Effect(r, t)
<1>1. r.id \in Ids
    BY Zenon, RequestTypes
<1>2. CASE r.op \in {"superOn", "superOff"}
    <2>1. t[r.id] \in Machines
        BY Zenon, <1>1, <1>2, EntryTypes DEF Dies, Tables
    <2>2. PICK b \in BOOLEAN : u = [t EXCEPT ![r.id].supper = b]
        <3>1. CASE r.op = "superOn"
            BY Zenon, <3>1 DEF Effect
        <3>2. CASE r.op = "superOff"
            BY Zenon, <3>2 DEF Effect
        <3> QED
            BY Zenon, <1>2, <3>1, <3>2
    <2> HIDE DEF u
    <2>3. \A i \in Ids \ {r.id} : u[i] = t[i]
        BY <1>1, <2>2 DEF Tables
    <2>4. u[r.id] = [t[r.id] EXCEPT !.supper = b]
        BY Zenon, <1>1, <2>2 DEF Tables
    <2>5. u[r.id].kind = t[r.id].kind /\ u[r.id].enable = t[r.id].enable
        <3>1. u[r.id] \in Machines /\ u[r.id].enable = t[r.id].enable
            BY <2>1, <2>2, <2>4, EntryTypes
        <3>2. \A m \in Machines : m.kind = "machine"
            BY Zenon, EntryTypes
        <3> QED
            BY Zenon, <2>1, <3>1, <3>2
    <2>6. \A i \in Ids : u[i].kind = t[i].kind /\ u[i].enable = t[i].enable
        BY Zenon, <2>3, <2>5
    <2> QED
        BY <2>6 DEF SameHosts, Hosts, Strays, u
<1>3. CASE r.op = "DeleteMachine" /\ u[r.id].kind # "empty"
    <2>1. t[r.id].tid # r.id
        BY <1>1, <1>3 DEF Effect, Tables, Empty
    <2>2. u = t
        BY <1>3, <2>1 DEF Effect
    <2> QED
        BY Zenon, <2>2 DEF SameHosts
<1> QED
    BY Zenon, <1>2, <1>3 DEF Quiet

\* An entry that is not looked at does not matter.
LEMMA HostsElsewhere ==
    ASSUME NEW t \in Tables, NEW u \in Tables, NEW n \in Ids, \A i \in Ids \ {n} : t[i] = u[i]
    PROVE  /\ Hosts(t) \ {n} = Hosts(u) \ {n}
           /\ Strays(t) \ {n} = Strays(u) \ {n}
    BY DEF Hosts, Strays

\* Tables for which ExportDHCP writes the same are matched by the same file.
LEMMA MatchesSame ==
    ASSUME NEW t, NEW u, SameHosts(t, u), Matches(u), dhcp' = dhcp, deleted' = deleted
    PROVE  /\ dhcp'.hosts \ deleted' = Hosts(t) \ deleted'
           /\ dhcp'.strays \ deleted' = Strays(t) \ deleted'
    BY DEF SameHosts, Matches

\* A step that leaves dhcpd.conf and the confirmations alone and in which one
\* worker neither comes to saving nor to ExportDHCP.
LEMMA FollowReleased ==
    ASSUME TypeOK, Followed, NEW p \in Workers, h[p].pc # "rename", NEW x,
           x.pc \notin {"truncate", "write", "rename", "export"}, h' = [h EXCEPT ![p] = x],
           dhcp' = dhcp, saved' = saved, deleted' = deleted
    PROVE  Followed'
<1>0. \A q \in Workers : h'[q] = IF q = p THEN x ELSE h[q]
    BY DEF TypeOK
<1>1. ASSUME NEW q \in Workers PROVE Follows(q)'
    <2>1. CASE q = p
        BY <2>1, <1>0 DEF Follows
    <2>2. CASE q # p
        BY Zenon, <2>2, <1>0 DEF Follows, Followed
    <2> QED
        BY <2>1, <2>2
<1>2. (\A q \in Workers : h'[q].pc # "rename") => \A q \in Workers : h[q].pc # "rename"
    BY <1>0
<1> QED
    BY Zenon, <1>1, <1>2 DEF Followed, Matches

\* As long as requests do not overlap and no worker dies, every step keeps
\* dhcpd.conf as far behind as it may be.
LEMMA FollowedStep == FInv /\ [Next]_vars /\ ~mixed' /\ crashes' = 0 => Followed'
<1> SUFFICES ASSUME FInv, [Next]_vars, ~mixed', crashes' = 0 PROVE Followed'
    OBVIOUS
<1>z. ASSUME NEW p \in Workers PROVE ~Crash(p)
    BY DEF Crash, FInv, KInv, IInv, TypeOK
<1>y. crashes = 0
    BY Zenon, <1>z DEF Next, vars, GetMy, SendForm, Send, Serve, Request,
       LoadFromFile, Change, Truncate, Write, Rename, Export
<1>0. TypeOK /\ Ordered /\ Kept /\ Followed
    BY <1>y, MixedGrows DEF FInv, KInv, IInv
<1>a. saved \in Tables
    BY <1>0 DEF TypeOK
<1>b. h \in [Workers -> Handlers]
    BY <1>0 DEF TypeOK, Handlers
<1>c. Idle.pc = "idle"
    BY DEF Idle
<1>d. ASSUME NEW p \in Workers, h[p].pc # "idle", NEW x, h' = [h EXCEPT ![p] = x]
      PROVE  /\ h'[p] = x /\ \A q \in Workers \ {p} : Follows(q)' /\ h'[q].pc = "idle"
             /\ \A q \in Workers \ {p} : h[q].pc = "idle"
    <2>1. h'[p] = x /\ \A q \in Workers \ {p} : h'[q].pc = "idle"
        BY Zenon, <1>0, <1>d, Alone
    <2>2. \A q \in Workers \ {p} : h[q].pc = "idle"
        BY <1>0, <1>d DEF Ordered
    <2> QED
        BY <2>1, <2>2 DEF Follows
<1>1. ASSUME NEW p \in Workers, NEW r, Serve(p, r) PROVE Followed'
    <2> DEFINE x == [pc |-> "load", todo |-> <<r>>, wks |-> Blank]
    <2>1. x.pc = "load"
        OBVIOUS
    <2> HIDE DEF x
    <2>2. /\ h[p].pc = "idle" /\ h' = [h EXCEPT ![p] = x] /\ dhcp' = dhcp /\ saved' = saved
          /\ deleted' = deleted
        BY <1>1 DEF Serve, x
    <2> QED
        BY Zenon, <1>0, <2>1, <2>2, FollowReleased
<1>2. ASSUME NEW p \in Workers, LoadFromFile(p) PROVE Followed'
    <2>1. /\ h[p].pc = "load" /\ dhcp' = dhcp /\ saved' = saved /\ deleted' = deleted
          /\ h[p] \in Handlers
        BY <1>2, <1>b DEF LoadFromFile
    <2> DEFINE x == [h[p] EXCEPT !.pc = "change", !.wks = file.wks]
               y == [pc |-> "change", wks |-> Blank, todo |-> <<Creation>> \o h[p].todo]
    <2>2. x.pc = "change" /\ y.pc = "change"
        BY <2>1 DEF Handlers
    <2>3. h' = [h EXCEPT ![p] = x] \/ h' = [h EXCEPT ![p] = y] \/ h' = [h EXCEPT ![p] = Idle]
        <3>1. file.state \in {"absent", "torn", "whole"}
            BY <1>0 DEF TypeOK
        <3> QED
            BY Zenon, <1>2, <3>1 DEF LoadFromFile, Creation
    <2> HIDE DEF x, y
    <2> QED
        BY <1>0, <1>c, <2>1, <2>2, <2>3, FollowReleased
<1>3. ASSUME NEW p \in Workers, Change(p) PROVE Followed'
    <2> DEFINE r == Head(h[p].todo)
               t == h[p].wks
    <2>1. /\ h[p].pc = "change" /\ dhcp' = dhcp /\ saved' = saved /\ deleted' = deleted
          /\ h[p] \in Handlers /\ t \in Tables
        BY <1>3, <1>b DEF Change, Handlers
    <2>2. r \in Requests
        <3>1. h[p].todo # <<>>
            BY <1>0, <2>1 DEF TypeOK
        <3> QED
            BY <3>1, <2>1 DEF Handlers
    <2>3. CASE Dies(r, t)
        <3>1. h' = [h EXCEPT ![p] = Idle]
            BY <1>3, <2>3 DEF Change
        <3> QED
            BY Zenon, <1>0, <1>c, <2>1, <3>1, FollowReleased
    <2>4. CASE ~Dies(r, t)
        <3> DEFINE u == Effect(r, t)
                   x == [h[p] EXCEPT !.pc = "truncate", !.wks = u]
        <3>1. h' = [h EXCEPT ![p] = x]
            BY <1>3, <2>4 DEF Change
        <3>2. x.pc = "truncate" /\ x.wks = u /\ x.todo = h[p].todo
            BY <2>1 DEF Handlers
        <3> HIDE DEF x
        <3>3. /\ h'[p] = x /\ \A q \in Workers \ {p} : Follows(q)' /\ h'[q].pc = "idle"
              /\ \A q \in Workers \ {p} : h[q].pc = "idle"
            BY Zenon, <1>d, <2>1, <3>1
        <3>4. r.op # "create" => t = saved
            BY Zenon, <1>0, <2>1 DEF Kept, Own, Loaded
        <3>5. Quiet(r, u) => SameHosts(u, saved)
            <4>1. Quiet(r, u) => r.op # "create"
                BY DEF Quiet
            <4>2. Quiet(r, u) => SameHosts(u, t)
                BY Zenon, <2>1, <2>2, <2>4, QuietHosts
            <4> QED
                BY Zenon, <3>4, <4>1, <4>2
        <3> HIDE DEF u, t
        <3>6. Follows(p)'
            BY Zenon, <2>1, <3>2, <3>3, <3>5 DEF Follows
        <3>7. \A q \in Workers : h[q].pc # "rename"
            BY <2>1, <3>3
        <3> QED
            BY Zenon, <1>0, <2>1, <3>3, <3>6, <3>7 DEF Followed, Matches
    <2> QED
        BY <2>3, <2>4
<1>4. ASSUME NEW p \in Workers, Truncate(p) PROVE Followed'
    <2> DEFINE x == [h[p] EXCEPT !.pc = "write"]
    <2>1. /\ h[p].pc = "truncate" /\ dhcp' = dhcp /\ saved' = saved /\ deleted' = deleted
          /\ h' = [h EXCEPT ![p] = x] /\ h[p] \in Handlers
        BY <1>4, <1>b DEF Truncate
    <2>2. x.pc = "write" /\ x.wks = h[p].wks /\ x.todo = h[p].todo
        BY <2>1 DEF Handlers
    <2> HIDE DEF x
    <2>3. /\ h'[p] = x /\ \A q \in Workers \ {p} : Follows(q)' /\ h'[q].pc = "idle"
          /\ \A q \in Workers \ {p} : h[q].pc = "idle"
        BY Zenon, <1>d, <2>1
    <2>4. Follows(p)'
        BY ZenonT(30), <1>0, <2>1, <2>2, <2>3 DEF Follows, Followed
    <2>5. \A q \in Workers : h[q].pc # "rename"
        BY Zenon, <2>1, <2>3
    <2> QED
        BY Zenon, <1>0, <2>1, <2>3, <2>4, <2>5 DEF Followed, Matches
<1>5. ASSUME NEW p \in Workers, Write(p) PROVE Followed'
    <2> DEFINE r == Head(h[p].todo)
               rest == Tail(h[p].todo)
               t == h[p].wks
               x == IF rest # <<>> THEN [h[p] EXCEPT !.pc = "change", !.todo = rest]
                    ELSE IF r.op = "ApplyMy" THEN [h[p] EXCEPT !.pc = "rename", !.todo = rest]
                    ELSE Idle
    <2>1. /\ h[p].pc = "write" /\ h[p] \in Handlers /\ t \in Tables
          /\ h' = [h EXCEPT ![p] = x] /\ dhcp' = dhcp
          /\ deleted' = IF r.op = "DeleteMachine" /\ t[r.id].kind = "empty"
                        THEN deleted \cup {r.id} ELSE deleted
          /\ Record(r, t)
        BY <1>5, <1>b DEF Write, Handlers
    <2>2. PICK s \in Requests :
            \/ h[p].todo = <<s>> /\ s.op # "create"
            \/ h[p].todo = <<Creation, s>> /\ s.op # "create"
        BY Zenon, <1>0, <2>1 DEF Ordered, Copied, Loaded
    <2>3. CASE h[p].todo = <<s>> /\ s.op # "create"
        <3>1. r = s /\ rest = <<>>
            BY <2>3, Pairs
        <3>2. /\ s.op = "ApplyMy" => x.pc = "rename" /\ x.wks = t
              /\ s.op # "ApplyMy" => x.pc = "idle"
            <4> HIDE DEF r, rest
            <4> QED
                BY <1>c, <2>1, <3>1 DEF Handlers
        <3>3. \A i \in Ids \ {s.id} : t[i] = saved[i]
            BY <1>0, <2>1, <2>3, <3>1 DEF Kept, Own, Loaded
        <3>4. Quiet(s, t) => SameHosts(t, saved)
            BY Zenon, <1>0, <2>1, <3>1 DEF Follows, Followed
        <3> HIDE DEF x, t, r, rest
        <3>5. saved' = [saved EXCEPT ![s.id] = t[s.id]]
            BY <2>1, <2>3, <3>1 DEF Record
        <3>6. saved' = t
            BY <1>a, <2>1, <3>3, <3>5 DEF Tables
        <3>7. /\ h'[p] = x /\ \A q \in Workers \ {p} : Follows(q)' /\ h'[q].pc = "idle"
              /\ \A q \in Workers \ {p} : h[q].pc = "idle"
            BY Zenon, <1>d, <2>1
        <3>8. Follows(p)'
            BY <3>2, <3>6, <3>7 DEF Follows
        <3>9. \A q \in Workers : h[q].pc # "rename"
            BY Zenon, <2>1, <3>7
        <3>10. s.id \in Ids
            BY Zenon, RequestTypes
        <3>11. CASE s.op = "ApplyMy"
            BY Zenon, <3>2, <3>7, <3>8, <3>11 DEF Followed
        <3>12. CASE Quiet(s, t)
            <4>1. deleted' = deleted
                BY <2>1, <3>1, <3>12 DEF Quiet
            <4>2. dhcp'.state = "whole" => Matches(saved)
                BY Zenon, <1>0, <2>1, <3>9 DEF Followed
            <4>3. dhcp'.state = "whole" => Matches(saved)'
                BY Zenon, <2>1, <3>4, <3>6, <3>12, <4>1, <4>2, MatchesSame DEF Matches, Hosts, Strays
            <4> QED
                BY Zenon, <3>7, <3>8, <4>3 DEF Followed
        <3>13. CASE s.op = "DeleteMachine" /\ t[s.id].kind = "empty"
            <4>1. deleted' = deleted \cup {s.id}
                BY <2>1, <3>1, <3>13
            <4>2. /\ Hosts(t) \ {s.id} = Hosts(saved) \ {s.id}
                  /\ Strays(t) \ {s.id} = Strays(saved) \ {s.id}
                <5>1. saved \in Tables /\ t \in Tables
                    BY <1>a, <2>1
                <5> QED
                    BY <3>3, <3>10, <5>1, HostsElsewhere
            <4>3. dhcp.state = "whole" => /\ dhcp.hosts \ deleted = Hosts(saved) \ deleted
                                          /\ dhcp.strays \ deleted = Strays(saved) \ deleted
                BY Zenon, <1>0, <3>9 DEF Followed, Matches
            <4>4. dhcp.state = "whole" => dhcp.hosts \ deleted' = Hosts(t) \ deleted'
                BY Zenon, <4>1, <4>2, <4>3
            <4>5. dhcp.state = "whole" => dhcp.strays \ deleted' = Strays(t) \ deleted'
                BY Zenon, <4>1, <4>2, <4>3
            <4>6. Hosts(saved)' = Hosts(t) /\ Strays(saved)' = Strays(t)
                BY <3>6 DEF Hosts, Strays
            <4>7. dhcp'.state = "whole" => Matches(saved)'
                BY Zenon, <2>1, <4>4, <4>5, <4>6 DEF Matches
            <4> QED
                BY Zenon, <3>7, <3>8, <4>7 DEF Followed
        <3> QED
            BY <2>3, <3>11, <3>12, <3>13, RequestTypes DEF Quiet
    <2>4. CASE h[p].todo = <<Creation, s>> /\ s.op # "create"
        <3>1. r = Creation /\ rest = <<s>> /\ rest # <<>>
            BY <2>4, Pairs, CreationEffect
        <3>2. Creation.op = "create"
            BY DEF Creation
        <3>3. x.pc = "change"
            <4> HIDE DEF r, rest
            <4> QED
                BY <2>1, <3>1 DEF Handlers
        <3> HIDE DEF x, t, r, rest
        <3>4. saved' = saved /\ deleted' = deleted
            BY <2>1, <3>1, <3>2 DEF Record
        <3> QED
            BY Zenon, <1>0, <2>1, <3>3, <3>4, FollowReleased
    <2> QED
        BY Zenon, <2>2, <2>3, <2>4
<1>6. ASSUME NEW p \in Workers, Rename(p) PROVE Followed'
    <2> DEFINE x == [h[p] EXCEPT !.pc = "export"]
    <2>1. /\ h[p].pc = "rename" /\ dhcp' = [state |-> "torn", hosts |-> {}, strays |-> {}, by |-> p]
          /\ h' = [h EXCEPT ![p] = x] /\ saved' = saved /\ h[p] \in Handlers
        BY <1>6, <1>b DEF Rename
    <2>2. x.pc = "export" /\ x.wks = h[p].wks /\ dhcp'.state = "torn" /\ dhcp'.by = p
        BY <2>1 DEF Handlers
    <2> HIDE DEF x
    <2>3. h'[p] = x /\ \A q \in Workers \ {p} : Follows(q)' /\ h'[q].pc = "idle"
        BY Zenon, <1>d, <2>1
    <2>4. Follows(p)'
        BY Zenon, <1>0, <2>1, <2>2, <2>3 DEF Follows, Followed
    <2> QED
        BY Zenon, <2>2, <2>3, <2>4 DEF Followed
<1>7. ASSUME NEW p \in Workers, Export(p) PROVE Followed'
    <2>1. /\ h[p].pc = "export" /\ dhcp.by = p /\ h[p].wks = saved
        BY Zenon, <1>0, <1>7 DEF Export, Follows, Followed
    <2>2. /\ dhcp' = [state |-> "whole", by |-> 0, hosts |-> Hosts(h[p].wks),
                      strays |-> Strays(h[p].wks)]
          /\ h' = [h EXCEPT ![p] = Idle] /\ deleted' = {} /\ saved' = saved
        BY <1>7, <2>1 DEF Export
    <2>3. Matches(saved)'
        <3>1. dhcp'.hosts = Hosts(saved)'
            BY Zenon, <2>1, <2>2 DEF Hosts
        <3>2. dhcp'.strays = Strays(saved)'
            BY Zenon, <2>1, <2>2 DEF Strays
        <3> QED
            BY Zenon, <3>1, <3>2 DEF Matches
    <2>4. h'[p] = Idle /\ \A q \in Workers \ {p} : Follows(q)' /\ h'[q].pc = "idle"
        BY Zenon, <1>d, <2>1, <2>2
    <2>5. Follows(p)'
        BY Zenon, <1>c, <2>4 DEF Follows
    <2> QED
        BY <2>2, <2>3, <2>4, <2>5 DEF Followed
<1>8. ASSUME dhcp' = dhcp /\ h' = h /\ saved' = saved /\ deleted' = deleted PROVE Followed'
    <2>1. (dhcp.state = "whole" /\ \A p \in Workers : h[p].pc # "rename") => Matches(saved)'
        BY Zenon, <1>0, <1>8 DEF Followed, Matches
    <2>2. \A p \in Workers : Follows(p)'
        BY Zenon, <1>0, <1>8 DEF Followed, Follows
    <2> QED
        BY Zenon, <1>8, <2>1, <2>2 DEF Followed
<1>9. ASSUME NEW b \in Browsers, GetMy(b) PROVE Followed'
    BY Zenon, <1>8, <1>9 DEF GetMy
<1>10. CASE UNCHANGED vars
    BY <1>8, <1>10 DEF vars
<1> QED
    BY Zenon, <1>z, <1>1, <1>2, <1>3, <1>4, <1>5, <1>6, <1>7, <1>9, <1>10
       DEF Next, Request, SendForm, Send

\* As long as no two requests overlap and no worker dies, dhcpd.conf has, whenever no
\* request is under way, the host blocks of the enabled machines of nsboot.json and
\* the stray ends of the disabled ones, and besides them at most those of machines
\* deleted since the last ApplyMy, for any number of workers, browsers and ids, any
\* shipped configuration and any sequence of requests.
THEOREM DhcpKept == Spec => []DhcpFollows
<1>1. Init => FInv
    <2> SUFFICES ASSUME Init PROVE KInv /\ Followed
        BY DEF FInv
    <2>1. \A p \in Workers : h[p].pc = "idle"
        BY DEF Init, Idle
    <2>2. dhcp.state = "old"
        BY DEF Init
    <2> QED
        BY <2>1, <2>2, KeptInit DEF Followed, Follows
<1>2. FInv /\ [Next]_vars => FInv'
    BY KeptInductive, FollowedStep DEF FInv
<1>3. FInv => DhcpFollows
    BY DEF FInv, KInv, Kept, Followed, Matches, DhcpFollows, AtRest
<1> QED
    BY <1>1, <1>2, <1>3, PTL DEF Spec
=============================================================================
