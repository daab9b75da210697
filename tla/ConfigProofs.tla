---------------------------- MODULE ConfigProofs ----------------------------
(***************************************************************************)
(* load_config, for files of any length and any text.  The invariant says  *)
(* of every point of the parse what the properties say of its end; it is   *)
(* written over the overlays, the devices and the history of calls, so     *)
(* that one lemma about sequences shows what one more call does to it.     *)
(***************************************************************************)
EXTENDS Config, NumberFacts, TLAPS

PieceNames == {p.name : p \in Pieces} \cup {""}
Modes == {"unknown", "fixed", "gpio", "cmdline", "invalid"}

OverlayType ==
    [name : PieceNames, path : Text, devices : Text, mode : Modes,
     u : [1..3 -> {Unset} \cup (Modes \X Text)]]

HandlerCall == PieceNames \X PieceNames

-----------------------------------------------------------------------------
(* The history *)

Has(q, call) == \E i \in DOMAIN q : q[i] = call
Once(q, call) == \A i, j \in DOMAIN q : q[i] = call /\ q[j] = call => i = j
Places(q, sect) == {i \in DOMAIN q : q[i][1] = sect}

(* What one more call adds to the history of calls.                        *)
LEMMA OneMoreCall ==
    ASSUME NEW q \in Seq(HandlerCall), NEW c \in HandlerCall
    PROVE  /\ \A x : Has(Append(q, c), x) <=> (Has(q, x) \/ x = c)
           /\ \A x : Once(Append(q, c), x) => Once(q, x)
           /\ \A x : Once(Append(q, c), x) /\ Has(q, x) => x # c
           /\ Append(q, c) \in Seq(HandlerCall)
           /\ \A s : Places(Append(q, c), s) =
                        Places(q, s) \cup (IF c[1] = s THEN {Len(q) + 1} ELSE {})
<1> DEFINE a == Append(q, c)
<1>1. /\ a \in Seq(HandlerCall) /\ Len(q) \in Nat
      /\ DOMAIN q = 1..Len(q) /\ DOMAIN a = 1..(Len(q) + 1)
      /\ \A i \in 1..Len(q) : a[i] = q[i]
      /\ a[Len(q) + 1] = c
  OBVIOUS
<1> HIDE DEF a
<1>2. \A x : Has(a, x) <=> (Has(q, x) \/ x = c)
  BY <1>1 DEF Has
<1>3. \A x : Once(a, x) => Once(q, x)
  BY <1>1 DEF Once
<1>4. \A x : Once(a, x) /\ Has(q, x) => x # c
  <2>1. SUFFICES ASSUME NEW x, Once(a, x), NEW i \in 1..Len(q), q[i] = x, x = c
                 PROVE  FALSE
    BY <1>1 DEF Has
  <2>2. a[i] = x /\ a[Len(q) + 1] = x /\ i # Len(q) + 1
    BY <1>1, <2>1
  <2> QED BY <1>1, <2>1, <2>2 DEF Once
<1>5. ASSUME NEW s
      PROVE  Places(a, s) = Places(q, s) \cup (IF c[1] = s THEN {Len(q) + 1} ELSE {})
  BY <1>1 DEF Places
<1> QED BY <1>1, <1>2, <1>3, <1>4, <1>5 DEF a

(* A call does not change where a section was first called, and a section  *)
(* that was not called comes after all that were.                          *)
LEMMA FirstPlaces ==
    ASSUME NEW q \in Seq(HandlerCall), NEW c \in HandlerCall
    PROVE  /\ \A s : Places(q, s) # {} =>
                        /\ Places(Append(q, c), s) # {}
                        /\ Min(Places(Append(q, c), s)) = Min(Places(q, s))
                        /\ Min(Places(q, s)) \in 1..Len(q)
           /\ Places(q, c[1]) = {} => Min(Places(Append(q, c), c[1])) = Len(q) + 1
           /\ Places(Append(q, c), c[1]) # {}
<1> DEFINE a == Append(q, c)
<1>1. \A s : /\ Places(a, s) = Places(q, s) \cup (IF c[1] = s THEN {Len(q) + 1} ELSE {})
             /\ Places(q, s) \in SUBSET (1..Len(q))
  BY OneMoreCall DEF Places
<1>2. Len(q) \in Nat
  OBVIOUS
<1> HIDE DEF a
<1>3. ASSUME NEW s, Places(q, s) # {}
      PROVE  /\ Places(a, s) # {}
             /\ Min(Places(a, s)) = Min(Places(q, s))
             /\ Min(Places(q, s)) \in 1..Len(q)
  <2> DEFINE m == Min(Places(q, s))
  <2>1. m \in Places(q, s) /\ \A x \in Places(q, s) : m <= x
    <3>1. Places(q, s) \in SUBSET Nat
      BY <1>1
    <3> QED BY <1>3, <3>1, MinOf
  <2> HIDE DEF m
  <2>2. m \in 1..Len(q)
    BY <1>1, <2>1
  <2>3. /\ Places(a, s) \in SUBSET Int /\ m \in Places(a, s)
        /\ \A x \in Places(a, s) : m <= x
    BY <1>1, <1>2, <2>1, <2>2
  <2>4. Min(Places(a, s)) = m
    BY <2>3, MinIs
  <2> QED BY <2>2, <2>3, <2>4 DEF m
<1>4. Places(q, c[1]) = {} => Min(Places(a, c[1])) = Len(q) + 1
  <2> SUFFICES ASSUME Places(q, c[1]) = {} PROVE Min(Places(a, c[1])) = Len(q) + 1
    OBVIOUS
  <2>1. Places(a, c[1]) = {Len(q) + 1}
    BY <1>1
  <2>2. {Len(q) + 1} \in SUBSET Int /\ Len(q) + 1 \in {Len(q) + 1} /\ \A x \in {Len(q) + 1} : Len(q) + 1 <= x
    BY <1>2
  <2> QED BY <2>1, <2>2, MinIs
<1>5. Places(a, c[1]) # {}
  BY <1>1
<1> QED BY <1>3, <1>4, <1>5 DEF a

-----------------------------------------------------------------------------
(* The invariant *)

(* Overlays are listed in the order of the first calls of their sections.  *)
InOrder(list, q) ==
    /\ \A i \in DOMAIN list : Places(q, list[i].name) # {}
    /\ \A i, j \in DOMAIN list :
        i < j => Min(Places(q, list[i].name)) < Min(Places(q, list[j].name))
    /\ \A k \in DOMAIN q : q[k][1] \in OverlaySections => \E i \in DOMAIN list : list[i].name = q[k][1]

(* Without a mode line nothing is in the union; with one, what is there    *)
(* was written under that mode.                                            *)
UnionSound(o, q) ==
    /\ o.name \in OverlaySections
    /\ ~Has(q, <<o.name, "mode">>) => o.mode = "unknown" /\ \A w \in 1..3 : o.u[w] = Unset
    /\ Once(q, <<o.name, "mode">>) => \A w \in 1..3 : o.u[w] = Unset \/ o.u[w][1] = o.mode

(* Before the devices are listed no section of a device is accepted; after *)
(* that every key set is set in the first device of that name.             *)
DevicesSound(devs, settings, q) ==
    /\ ~Has(q, <<"global", "devices">>) =>
            devs = << >> /\ \A k \in DOMAIN q : q[k][1] \in Reserved
    /\ Once(q, <<"global", "devices">>) =>
            \A i \in DOMAIN devs, k \in DeviceKeys :
                (devs[i] \notin Reserved /\ Has(q, <<devs[i], k>>)) =>
                    \E j \in 1..i : devs[j] = devs[i] /\ settings[j][k] # Garbage

ConfigType ==
    [devices : Text, device : Seq([DeviceKeys -> Text \cup {Garbage}]), global : [GlobalKeys -> Text],
     overlays : Seq(OverlayType)]

GoodConfig(c) == c \in ConfigType /\ Len(c.device) = Len(c.devices)

TypeInv ==
    /\ GoodConfig(cfg)
    /\ section \in PieceNames /\ prevName \in PieceNames
    /\ lineno \in Nat /\ error \in Nat /\ refused \in BOOLEAN
    /\ calls \in Seq(HandlerCall)

ErrorInv == (refused => error # 0) /\ (Returned => ~refused)

(* What is filled in after the calls q; bad if any piece was refused.      *)
Filled(c, q, bad) ==
    /\ ~bad => InOrder(c.overlays, q)
    /\ \A i \in DOMAIN c.overlays : UnionSound(c.overlays[i], q)
    /\ DevicesSound(c.devices, c.device, q)

Inv == TypeInv /\ ErrorInv /\ Filled(cfg, calls, refused)

-----------------------------------------------------------------------------
(* What a call of the handler does *)

(* Overlay i is new or an old one, and becomes ov.                         *)
Becomes(old, new, i, o, ov, sect) ==
    /\ \/ i \in 1..Len(old) /\ Len(new) = Len(old) /\ o = old[i]
       \/ /\ i = Len(old) + 1 /\ Len(new) = i /\ o = NewOverlay(sect)
          /\ \A j \in 1..Len(old) : old[j].name # sect
    /\ o.name = sect /\ ov.name = sect
    /\ new[i] = ov /\ \A j \in 1..Len(old) : j # i => new[j] = old[j]

(* A key of the union needs a mode, and is written under it.               *)
SetsKey(o, ov, name, ok) ==
    \/ name = "mode" /\ ok /\ ov.u = o.u
    \/ name # "mode" /\ ov.mode = o.mode /\ ov.u = o.u
    \/ /\ name # "mode" /\ ok /\ ov.mode = o.mode /\ o.mode # "unknown"
       /\ \A w \in 1..3 : ov.u[w] = o.u[w] \/ ov.u[w][1] = o.mode

OverlayCall(old, new, ok, sect, name) ==
    /\ sect \in OverlaySections
    /\ new \in Seq(OverlayType)
    /\ \E i \in 1..Len(new), o \in OverlayType, ov \in OverlayType :
        Becomes(old, new, i, o, ov, sect) /\ SetsKey(o, ov, name, ok)

(* Device i, the first of that name, gets a value.                         *)
DeviceCall(devs, old, new, sect, name) ==
    /\ sect \notin Reserved
    /\ \/ name \notin DeviceKeys /\ new = old
       \/ \E i \in DOMAIN devs :
            /\ devs[i] = sect /\ \A j \in DOMAIN devs : devs[j] = sect => i <= j
            /\ new[i][name] # Garbage
            /\ \A j \in DOMAIN devs, k \in DeviceKeys : old[j][k] # Garbage => new[j][k] # Garbage

-----------------------------------------------------------------------------
(* Each part of the invariant after one more call *)

(* A call for an overlay keeps the order: if its section is new, the overlay*)
(* is last in the list and the section last in the history.                *)
LEMMA OrderKept ==
    ASSUME NEW old \in Seq(OverlayType), NEW new, NEW sect \in PieceNames, NEW name \in PieceNames,
           NEW q \in Seq(HandlerCall), InOrder(old, q), OverlayCall(old, new, TRUE, sect, name)
    PROVE  InOrder(new, Append(q, <<sect, name>>))
<1> DEFINE c == <<sect, name>>
           a == Append(q, c)
<1>1. PICK i \in 1..Len(new), o \in OverlayType, ov \in OverlayType : Becomes(old, new, i, o, ov, sect)
  BY DEF OverlayCall
<1>2. /\ DOMAIN old = 1..Len(old) /\ DOMAIN new = 1..Len(new) /\ Len(old) \in Nat /\ Len(new) \in Nat
      /\ Len(q) \in Nat /\ c \in HandlerCall /\ c[1] = sect
  <2>1. c \in HandlerCall /\ c[1] = sect
    BY DEF HandlerCall
  <2>2. new \in Seq(OverlayType)
    BY DEF OverlayCall
  <2> QED BY <2>1, <2>2
<1> HIDE DEF c, a
<1>3. /\ \A s : Places(q, s) # {} =>
            /\ Places(a, s) # {} /\ Min(Places(a, s)) = Min(Places(q, s)) /\ Min(Places(q, s)) \in 1..Len(q)
      /\ Places(q, sect) = {} => Min(Places(a, sect)) = Len(q) + 1
      /\ Places(a, sect) # {}
  BY <1>2, FirstPlaces DEF a
<1>4. /\ \A j \in 1..Len(old) : new[j].name = old[j].name
      /\ new[i].name = sect
      /\ \/ Len(new) = Len(old)
         \/ Len(new) = Len(old) + 1 /\ i = Len(new) /\ \A j \in 1..Len(old) : old[j].name # sect
  BY <1>1 DEF Becomes
<1> DEFINE L == Len(old)
           N == Len(new)
<1>5. /\ L \in Nat /\ N \in Nat /\ i \in 1..N
      /\ N = L \/ (N = L + 1 /\ i = N)
      /\ N # L => \A j \in 1..L : old[j].name # sect
  BY <1>2, <1>4
<1> HIDE DEF L, N
<1>6. ASSUME NEW j \in 1..N PROVE j \in 1..L \/ (N = L + 1 /\ j = N /\ i = j)
  BY <1>5
<1>7. ASSUME NEW j \in 1..Len(new) PROVE Places(a, new[j].name) # {}
  <2>1. CASE j \in 1..Len(old)
    BY <1>2, <1>3, <1>4, <2>1 DEF InOrder
  <2>2. CASE j \notin 1..Len(old)
    <3>1. i = j
      BY <1>6, <2>2 DEF L, N
    <3> QED BY <1>3, <1>4, <3>1
  <2> QED BY <2>1, <2>2
<1>8. ASSUME NEW j \in 1..Len(new), NEW k \in 1..Len(new), j < k
      PROVE  Min(Places(a, new[j].name)) < Min(Places(a, new[k].name))
  <2>1. j \in 1..Len(old)
    BY <1>8, <1>5, <1>6 DEF L, N
  <2>2. Min(Places(a, new[j].name)) = Min(Places(q, old[j].name)) /\ Min(Places(q, old[j].name)) \in 1..Len(q)
    BY <1>2, <1>3, <1>4, <2>1 DEF InOrder
  <2>3. CASE k \in 1..Len(old)
    BY <1>2, <1>3, <1>4, <1>8, <2>1, <2>2, <2>3 DEF InOrder
  <2>4. CASE k \notin 1..Len(old)
    <3>1. new[k].name = sect /\ \A x \in 1..Len(old) : old[x].name # sect
      BY <1>4, <1>5, <1>6, <2>4 DEF L, N
    <3>2. Places(q, sect) = {}
      <4>1. SUFFICES ASSUME NEW x \in DOMAIN q, q[x][1] = sect PROVE FALSE
        BY DEF Places
      <4> QED BY <1>2, <3>1, <4>1 DEF InOrder, OverlayCall
    <3> QED BY <1>2, <1>3, <2>2, <3>1, <3>2
  <2> QED BY <2>3, <2>4
<1>9. ASSUME NEW k \in DOMAIN a, a[k][1] \in OverlaySections
      PROVE  \E j \in 1..Len(new) : new[j].name = a[k][1]
  <2>1. CASE k \in 1..Len(q)
    <3>1. a[k] = q[k] /\ k \in DOMAIN q
      BY <2>1, <1>2 DEF a
    <3>2. PICK j \in 1..Len(old) : old[j].name = q[k][1]
      BY <1>2, <1>9, <3>1 DEF InOrder
    <3>3. j \in 1..Len(new)
      BY <1>5 DEF L, N
    <3> QED BY <1>4, <3>1, <3>2, <3>3
  <2>2. CASE k \notin 1..Len(q)
    <3>1. a[k] = c
      BY <1>2, <2>2, <1>9 DEF a
    <3> QED BY <1>2, <1>4, <3>1
  <2> QED BY <2>1, <2>2
<1> QED BY <1>2, <1>7, <1>8, <1>9 DEF InOrder, a, c

(* A call for an overlay keeps the unions sound: that of another overlay is*)
(* not touched, and a key is written under the mode the overlay has.       *)
LEMMA UnionKept ==
    ASSUME NEW old \in Seq(OverlayType), NEW new, NEW ok \in BOOLEAN,
           NEW sect \in PieceNames, NEW name \in PieceNames,
           NEW q \in Seq(HandlerCall), \A i \in DOMAIN old : UnionSound(old[i], q),
           OverlayCall(old, new, ok, sect, name)
    PROVE  \A i \in DOMAIN new : UnionSound(new[i], IF ok THEN Append(q, <<sect, name>>) ELSE q)
<1> DEFINE c == <<sect, name>>
           a == IF ok THEN Append(q, c) ELSE q
           L == Len(old)
           N == Len(new)
<1>1. PICK i \in 1..Len(new), o \in OverlayType, ov \in OverlayType :
        Becomes(old, new, i, o, ov, sect) /\ SetsKey(o, ov, name, ok)
  BY DEF OverlayCall
<1>2. new \in Seq(OverlayType) /\ sect \in OverlaySections
  BY DEF OverlayCall
<1>3. DOMAIN old = 1..L /\ DOMAIN new = 1..N /\ L \in Nat /\ N \in Nat
  BY <1>2
<1>4. /\ i \in 1..N /\ (N = L \/ (N = L + 1 /\ i = N))
      /\ o = NewOverlay(sect) \/ (i \in 1..L /\ o = old[i])
      /\ \A j \in 1..L : j # i => new[j] = old[j]
      /\ new[i] = ov /\ o.name = sect /\ ov.name = sect
  BY <1>1, <1>3 DEF Becomes
<1>5. c \in HandlerCall
  BY DEF HandlerCall
<1>6. /\ \A x : Has(a, x) => (Has(q, x) \/ (ok /\ x = c))
      /\ \A x : Has(q, x) => Has(a, x)
      /\ ok => Has(a, c)
      /\ \A x : Once(a, x) => Once(q, x)
      /\ \A x : Once(a, x) /\ Has(q, x) => ~(ok /\ x = c)
  BY <1>5, OneMoreCall
<1> HIDE DEF a, c, L, N
(* An overlay that is not touched stays sound: a new mode line of its      *)
(* section finds its union empty.                                          *)
<1>7. ASSUME NEW p \in OverlayType, UnionSound(p, q), ~(ok /\ <<p.name, "mode">> = c)
      PROVE  UnionSound(p, a)
  <2>1. ~Has(a, <<p.name, "mode">>) => ~Has(q, <<p.name, "mode">>)
    BY <1>6
  <2>2. Once(a, <<p.name, "mode">>) => Once(q, <<p.name, "mode">>)
    BY <1>6
  <2> QED BY <1>7, <2>1, <2>2 DEF UnionSound
<1>8. ASSUME NEW p \in OverlayType, UnionSound(p, q), ok, <<p.name, "mode">> = c,
             NEW r \in OverlayType, r.name = p.name, r.u = p.u
      PROVE  UnionSound(r, a)
  <2>1. Has(a, <<p.name, "mode">>)
    BY <1>6, <1>8
  <2>2. Once(a, <<p.name, "mode">>) => ~Has(q, <<p.name, "mode">>)
    BY <1>6, <1>8
  <2> QED BY <1>8, <2>1, <2>2 DEF UnionSound
<1>9. UnionSound(o, q)
  <2>1. CASE o = NewOverlay(sect)
    BY <1>2, <2>1 DEF NewOverlay, UnionSound
  <2>2. CASE o # NewOverlay(sect)
    BY <1>3, <1>4, <2>2
  <2> QED BY <2>1, <2>2
<1>10. UnionSound(ov, a)
  <2>1. CASE name = "mode" /\ ok /\ ov.u = o.u
    <3>1. <<o.name, "mode">> = c /\ ov.name = o.name
      BY <1>4, <2>1 DEF c
    <3> QED BY <1>8, <1>9, <2>1, <3>1
  <2>2. CASE name # "mode"
    <3>1. <<sect, "mode">> # c
      BY <2>2 DEF c
    <3>2. ~Has(a, <<sect, "mode">>) => ~Has(q, <<sect, "mode">>)
      BY <1>6
    <3>3. Once(a, <<sect, "mode">>) => Once(q, <<sect, "mode">>)
      BY <1>6
    <3>4. \/ ov.mode = o.mode /\ ov.u = o.u
          \/ /\ ov.mode = o.mode /\ o.mode # "unknown"
             /\ \A w \in 1..3 : ov.u[w] = o.u[w] \/ ov.u[w][1] = o.mode
      BY <1>1, <2>2 DEF SetsKey
    <3> QED BY <1>4, <1>9, <3>2, <3>3, <3>4 DEF UnionSound
  <2> QED BY <1>1, <2>1, <2>2 DEF SetsKey
<1>11. ASSUME NEW j \in 1..N PROVE UnionSound(new[j], a)
  <2>1. CASE j = i
    BY <1>4, <1>10, <2>1
  <2>2. CASE j # i
    <3>1. j \in 1..L /\ new[j] = old[j] /\ new[j] \in OverlayType
      <4>1. j \in 1..L
        BY <1>3, <1>4, <2>2
      <4>2. new[j] = old[j]
        BY <1>4, <2>2, <4>1
      <4> QED BY <4>1, <4>2 DEF L
    <3>2. UnionSound(new[j], q)
      BY <1>3, <3>1
    <3>3. new[j].u = new[j].u /\ new[j].name = new[j].name
      OBVIOUS
    <3> QED BY <1>7, <1>8, <3>1, <3>2, <3>3
  <2> QED BY <2>1, <2>2
<1> QED BY <1>3, <1>11 DEF a, c

(* A call for "devices" starts from nothing, and comes first.              *)
LEMMA DevicesListed ==
    ASSUME NEW devs \in Text, NEW new \in Text, NEW old, NEW settings, NEW q \in Seq(HandlerCall),
           <<"global", "devices">> \in HandlerCall, DevicesSound(devs, old, q)
    PROVE  DevicesSound(new, settings, Append(q, <<"global", "devices">>))
<1> DEFINE c == <<"global", "devices">>
           a == Append(q, c)
<1>1. c \in HandlerCall
  OBVIOUS
<1> HIDE DEF c
<1>2. /\ \A x : Has(a, x) <=> (Has(q, x) \/ x = c)
      /\ \A x : Once(a, x) /\ Has(q, x) => x # c
  BY <1>1, OneMoreCall
<1> HIDE DEF a
<1>3. ASSUME Once(a, c), NEW i \in DOMAIN new, NEW k \in DeviceKeys, new[i] \notin Reserved,
             Has(a, <<new[i], k>>)
      PROVE  FALSE
  <2>1. ~Has(q, c)
    BY <1>2, <1>3
  <2>2. \A x \in DOMAIN q : q[x][1] \in Reserved
    BY <2>1 DEF DevicesSound, c
  <2>3. ~Has(q, <<new[i], k>>)
    BY <1>3, <2>2 DEF Has
  <2>4. <<new[i], k>> # c
    BY <1>3 DEF Reserved, c
  <2> QED BY <1>2, <1>3, <2>3, <2>4
<1> QED BY <1>2, <1>3 DEF DevicesSound, a, c

(* Any other call for a section that is not a device's changes nothing.    *)
LEMMA DevicesUntouched ==
    ASSUME NEW devs \in Text, NEW settings, NEW q \in Seq(HandlerCall), NEW c \in HandlerCall,
           DevicesSound(devs, settings, q), c[1] \in Reserved, c # <<"global", "devices">>
    PROVE  DevicesSound(devs, settings, Append(q, c))
<1> DEFINE a == Append(q, c)
<1>1. /\ \A x : Has(a, x) <=> (Has(q, x) \/ x = c)
      /\ \A x : Once(a, x) => Once(q, x)
      /\ \A k \in DOMAIN a : a[k] = c \/ (k \in DOMAIN q /\ a[k] = q[k])
  <2>1. ASSUME NEW k \in DOMAIN a PROVE a[k] = c \/ (k \in DOMAIN q /\ a[k] = q[k])
    OBVIOUS
  <2> QED BY <2>1, OneMoreCall
<1> HIDE DEF a
<1>2. ASSUME ~Has(a, <<"global", "devices">>), NEW k \in DOMAIN a
      PROVE  devs = << >> /\ a[k][1] \in Reserved
  BY <1>1, <1>2 DEF DevicesSound
<1>3. ASSUME Once(a, <<"global", "devices">>), NEW i \in DOMAIN devs, NEW k \in DeviceKeys,
             devs[i] \notin Reserved, Has(a, <<devs[i], k>>)
      PROVE  \E j \in 1..i : devs[j] = devs[i] /\ settings[j][k] # Garbage
  <2>1. Has(q, <<devs[i], k>>)
    BY <1>1, <1>3
  <2> QED BY <1>1, <1>3, <2>1 DEF DevicesSound
<1>4. ~Has(a, <<"global", "devices">>) => devs = << >>
  BY <1>1 DEF DevicesSound
<1> QED BY <1>2, <1>3, <1>4 DEF DevicesSound, a

(* A call for a device sets a key in the first device of that name.        *)
LEMMA DevicesKept ==
    ASSUME NEW devs \in Text, NEW old, NEW new, NEW q \in Seq(HandlerCall),
           NEW sect \in PieceNames, NEW name \in PieceNames,
           DevicesSound(devs, old, q), DeviceCall(devs, old, new, sect, name),
           \E i \in DOMAIN devs : devs[i] = sect
    PROVE  DevicesSound(devs, new, Append(q, <<sect, name>>))
<1> DEFINE c == <<sect, name>>
           a == Append(q, c)
<1>1. c \in HandlerCall
  BY DEF HandlerCall
<1> HIDE DEF c
<1>2. /\ \A x : Has(a, x) <=> (Has(q, x) \/ x = c)
      /\ \A x : Once(a, x) => Once(q, x)
  BY <1>1, OneMoreCall
<1> HIDE DEF a
<1>3. Has(q, <<"global", "devices">>)
  <2>1. devs # << >>
    OBVIOUS
  <2> QED BY <2>1 DEF DevicesSound
<1>4. ASSUME Once(a, <<"global", "devices">>), NEW i \in DOMAIN devs, NEW k \in DeviceKeys,
             devs[i] \notin Reserved, Has(a, <<devs[i], k>>)
      PROVE  \E j \in 1..i : devs[j] = devs[i] /\ new[j][k] # Garbage
  <2>1. i \in Nat /\ DOMAIN devs = 1..Len(devs) /\ Len(devs) \in Nat
    OBVIOUS
  <2>2. CASE <<devs[i], k>> = c
    <3>1. devs[i] = sect /\ k = name
      BY <2>2 DEF c
    <3>2. PICK j \in DOMAIN devs : /\ devs[j] = sect /\ new[j][name] # Garbage
                                   /\ \A x \in DOMAIN devs : devs[x] = sect => j <= x
      BY <3>1, <1>4 DEF DeviceCall
    <3>3. j \in 1..i
      <4>1. j <= i /\ i \in DOMAIN devs
        BY <1>4, <3>1, <3>2
      <4> QED BY <2>1, <4>1
    <3> QED BY <3>1, <3>2, <3>3
  <2>3. CASE <<devs[i], k>> # c
    <3>1. Has(q, <<devs[i], k>>)
      BY <1>2, <1>4, <2>3
    <3>2. PICK j \in 1..i : devs[j] = devs[i] /\ old[j][k] # Garbage
      BY <1>2, <1>4, <3>1 DEF DevicesSound
    <3>3. j \in DOMAIN devs
      BY <2>1
    <3>4. new[j][k] # Garbage
      BY <3>2, <3>3 DEF DeviceCall
    <3> QED BY <3>2, <3>4
  <2> QED BY <2>2, <2>3
<1> QED BY <1>2, <1>3, <1>4 DEF DevicesSound, a, c

-----------------------------------------------------------------------------
(* What the handler does *)

(* handle_global leaves the overlays alone, and the devices unless it lists*)
(* them.                                                                   *)
LEMMA GlobalFacts ==
    ASSUME GoodConfig(cfg), NEW name, NEW value \in Text
    PROVE  LET r == handle_global(name, value) IN
           /\ r.ok \in BOOLEAN /\ GoodConfig(r.cfg) /\ r.cfg.overlays = cfg.overlays
           /\ IF name = "devices" THEN r.ok /\ r.cfg.devices = value
              ELSE r.cfg.devices = cfg.devices /\ r.cfg.device = cfg.device
<1> DEFINE r == handle_global(name, value)
<1>1. CASE name = "devices"
  <2> DEFINE fresh == [i \in DOMAIN value |-> [k \in DeviceKeys |-> Garbage]]
  <2>1. r = [ok |-> TRUE, cfg |-> [cfg EXCEPT !.devices = value, !.device = fresh]]
    BY <1>1 DEF handle_global, Accept
  <2>2. fresh \in Seq([DeviceKeys -> Text \cup {Garbage}]) /\ Len(fresh) = Len(value)
    <3>1. DOMAIN value = 1..Len(value) /\ Len(value) \in Nat
      BY DEF Text
    <3>2. fresh \in [1..Len(value) -> [DeviceKeys -> Text \cup {Garbage}]]
      BY <3>1
    <3> QED BY <3>1, <3>2
  <2> HIDE DEF fresh, r
  <2>3. /\ r.ok = TRUE /\ GoodConfig(r.cfg) /\ r.cfg.overlays = cfg.overlays
        /\ r.cfg.devices = value
    BY <2>1, <2>2 DEF GoodConfig, ConfigType
  <2> QED BY <1>1, <2>3 DEF r
<1>2. CASE name # "devices" /\ name \in GlobalKeys
  <2>1. r = [ok |-> TRUE, cfg |-> [cfg EXCEPT !.global[name] = value]]
    BY <1>2 DEF handle_global, Accept
  <2> HIDE DEF r
  <2>2. /\ r.ok = TRUE /\ GoodConfig(r.cfg) /\ r.cfg.overlays = cfg.overlays
        /\ r.cfg.devices = cfg.devices /\ r.cfg.device = cfg.device
    BY <1>2, <2>1 DEF GoodConfig, ConfigType
  <2> QED BY <1>2, <2>2 DEF r
<1>3. CASE name # "devices" /\ name \notin GlobalKeys
  BY <1>3 DEF handle_global, Reject
<1> QED BY <1>1, <1>2, <1>3

(* handle_device sets at most one key of one device.                       *)
LEMMA DeviceFacts ==
    ASSUME GoodConfig(cfg), NEW name, NEW value \in Text \ {Garbage},
           NEW i \in DOMAIN cfg.devices, cfg.devices[i] \notin Reserved,
           \A j \in DOMAIN cfg.devices : cfg.devices[j] = cfg.devices[i] => i <= j
    PROVE  LET r == handle_device(i, name, value) IN
           /\ r.ok = TRUE /\ GoodConfig(r.cfg)
           /\ r.cfg.overlays = cfg.overlays /\ r.cfg.devices = cfg.devices
           /\ DeviceCall(cfg.devices, cfg.device, r.cfg.device, cfg.devices[i], name)
<1> DEFINE r == handle_device(i, name, value)
<1>1. CASE name \notin DeviceKeys
  BY <1>1 DEF handle_device, Accept, DeviceCall
<1>2. CASE name \in DeviceKeys
  <2>1. r = [ok |-> TRUE, cfg |-> [cfg EXCEPT !.device[i][name] = value]]
    BY <1>2 DEF handle_device, Accept
  <2>2. /\ cfg.devices \in Text /\ cfg.device \in Seq([DeviceKeys -> Text \cup {Garbage}])
        /\ DOMAIN cfg.devices = 1..Len(cfg.devices) /\ DOMAIN cfg.device = 1..Len(cfg.device)
        /\ Len(cfg.device) = Len(cfg.devices)
    BY DEF GoodConfig, ConfigType, Text
  <2> DEFINE d == [cfg.device EXCEPT ![i][name] = value]
  <2>3. /\ d \in Seq([DeviceKeys -> Text \cup {Garbage}]) /\ Len(d) = Len(cfg.device)
        /\ d[i][name] = value
        /\ \A j \in DOMAIN cfg.devices, k \in DeviceKeys : d[j][k] = cfg.device[j][k] \/ d[j][k] = value
    BY <1>2, <2>2
  <2>4. r.ok = TRUE /\ r.cfg = [cfg EXCEPT !.device = d]
    BY <2>1
  <2> HIDE DEF d, r
  <2>5. /\ GoodConfig(r.cfg) /\ r.cfg.device = d
        /\ r.cfg.overlays = cfg.overlays /\ r.cfg.devices = cfg.devices
    BY <2>2, <2>3, <2>4 DEF GoodConfig, ConfigType
  <2>6. DeviceCall(cfg.devices, cfg.device, d, cfg.devices[i], name)
    BY <1>2, <2>3 DEF DeviceCall
  <2> QED BY <2>4, <2>5, <2>6 DEF r
<1> QED BY <1>1, <1>2

(* The union's word of a key: none without a mode.                         *)
LEMMA WordFacts ==
    ASSUME NEW mode, NEW key
    PROVE  /\ Word(mode, key) \in 0..3
           /\ Word(mode, key) # 0 => mode # "unknown"
BY DEF Word

LEMMA ElementOf == ASSUME NEW S, NEW q \in Seq(S), NEW m \in DOMAIN q PROVE q[m] \in S
OBVIOUS

(* What is stored in the union is a text, also for a gpio bank.            *)
LEMMA StoredIsText ==
    ASSUME NEW mode, NEW name, NEW value \in Text, NEW chips \in ChipLists
    PROVE  Stored(mode, name, value, chips) \in Text
<1> DEFINE stops == {i \in DOMAIN chips : ~chips[i].ok \/ chips[i].label = value}
<1>1. CASE stops # {} /\ chips[Min(stops)].ok
  <2>1. chips \in Seq([ok : BOOLEAN, label : Text, name : Text])
    BY ConfigAssumption
  <2>2. stops \in SUBSET Nat /\ stops \subseteq DOMAIN chips
    BY <2>1
  <2>3. Min(stops) \in DOMAIN chips
    <3> HIDE DEF stops
    <3> QED BY <1>1, <2>2, MinOf
  <2>4. chips[Min(stops)].name \in Text
    <3>1. \A m \in DOMAIN chips : chips[m] \in [ok : BOOLEAN, label : Text, name : Text]
      BY <2>1, ElementOf
    <3>2. \A m \in DOMAIN chips : chips[m].name \in Text
      BY <3>1
    <3> HIDE DEF stops
    <3> QED BY <2>3, <3>2
  <2>5. get_gpio_name(chips, value) \in Text
    BY <1>1, <2>4 DEF get_gpio_name
  <2> QED BY <2>5 DEF Stored
<1>2. CASE stops = {} \/ ~chips[Min(stops)].ok
  <2>1. get_gpio_name(chips, value) = Unset /\ Unset \in Text
    BY <1>2 DEF get_gpio_name, Unset, Text
  <2> QED BY <2>1 DEF Stored
<1> QED BY <1>1, <1>2

(* The overlay of a section is found, or made at the end of the list.      *)
LEMMA OverlayFound ==
    ASSUME GoodConfig(cfg), NEW sect \in PieceNames
    PROVE  LET list == find_or_create_overlay(sect)
               i == Position(sect)
           IN  /\ list \in Seq(OverlayType) /\ i \in DOMAIN list /\ list[i].name = sect
               /\ \/ i \in 1..Len(cfg.overlays) /\ list = cfg.overlays
                  \/ /\ i = Len(cfg.overlays) + 1 /\ list = Append(cfg.overlays, NewOverlay(sect))
                     /\ \A j \in 1..Len(cfg.overlays) : cfg.overlays[j].name # sect
<1> DEFINE old == cfg.overlays
<1>1. old \in Seq(OverlayType) /\ DOMAIN old = 1..Len(old) /\ Len(old) \in Nat
  BY DEF GoodConfig, ConfigType
<1>2. CASE \E i \in DOMAIN old : old[i].name = sect
  <2>1. Position(sect) \in DOMAIN old /\ old[Position(sect)].name = sect
    BY <1>2 DEF Position
  <2> HIDE DEF old
  <2>2. Position(sect) <= Len(old)
    BY <1>1, <2>1
  <2>3. find_or_create_overlay(sect) = old
    BY <2>2 DEF find_or_create_overlay, old
  <2> QED BY <1>1, <2>1, <2>3 DEF old
<1>3. CASE ~\E i \in DOMAIN old : old[i].name = sect
  <2>1. Position(sect) = Len(old) + 1
    BY <1>3 DEF Position
  <2>2. ~(Len(old) + 1 <= Len(old))
    BY <1>1
  <2>3. find_or_create_overlay(sect) = Append(old, NewOverlay(sect))
    BY <2>1, <2>2 DEF find_or_create_overlay
  <2>4. NewOverlay(sect) \in OverlayType /\ NewOverlay(sect).name = sect
    BY DEF NewOverlay, OverlayType, Modes, Unset, Text
  <2> DEFINE new == Append(old, NewOverlay(sect))
  <2> HIDE DEF old
  <2>5. new \in Seq(OverlayType) /\ Len(old) + 1 \in DOMAIN new /\ new[Len(old) + 1] = NewOverlay(sect)
    BY <1>1, <2>4
  <2> HIDE DEF new
  <2>6. \A j \in 1..Len(old) : old[j].name # sect
    BY <1>1, <1>3
  <2> QED BY <2>1, <2>3, <2>4, <2>5, <2>6 DEF old, new
<1> QED BY <1>2, <1>3

(* handle_overlay changes one overlay, also if it refuses the key.         *)
LEMMA OverlayFacts ==
    ASSUME GoodConfig(cfg), NEW sect \in PieceNames, sect \in OverlaySections, NEW name \in PieceNames,
           NEW value \in Text, NEW chips \in ChipLists
    PROVE  LET r == handle_overlay(sect, name, value, chips) IN
           /\ r.ok \in BOOLEAN /\ GoodConfig(r.cfg)
           /\ r.cfg.devices = cfg.devices /\ r.cfg.device = cfg.device
           /\ OverlayCall(cfg.overlays, r.cfg.overlays, r.ok, sect, name)
<1> DEFINE r == handle_overlay(sect, name, value, chips)
           old == cfg.overlays
           list == find_or_create_overlay(sect)
           i == Position(sect)
           o == list[i]
           w == Word(o.mode, name)
           stored == Stored(o.mode, name, value, chips)
           with(ov) == [cfg EXCEPT !.overlays = [list EXCEPT ![i] = ov]]
<1>1. \E ov \in OverlayType, ok \in BOOLEAN :
        r = [ok |-> ok, cfg |-> with(ov)] /\ ov.name = o.name /\ SetsKey(o, ov, name, ok)
  <2>1. /\ o \in OverlayType
        /\ stored \in Text /\ w \in 0..3 /\ (w # 0 => o.mode # "unknown")
    <3>1. o \in OverlayType
      BY OverlayFound, ElementOf
    <3> QED BY <3>1, StoredIsText, WordFacts
  <2> HIDE DEF o, w, stored, with
  <2>2. CASE name = "path"
    <3>1. r = [ok |-> TRUE, cfg |-> with([o EXCEPT !.path = value])]
      BY <2>2 DEF handle_overlay, Accept, o, with
    <3>2. /\ [o EXCEPT !.path = value] \in OverlayType /\ [o EXCEPT !.path = value].name = o.name
          /\ SetsKey(o, [o EXCEPT !.path = value], name, TRUE)
      BY <2>1, <2>2 DEF OverlayType, SetsKey
    <3> HIDE DEF r
    <3> QED BY <3>1, <3>2
  <2>3. CASE name = "devices"
    <3>1. r = [ok |-> TRUE, cfg |-> with([o EXCEPT !.devices = value])]
      BY <2>3 DEF handle_overlay, Accept, o, with
    <3>2. /\ [o EXCEPT !.devices = value] \in OverlayType /\ [o EXCEPT !.devices = value].name = o.name
          /\ SetsKey(o, [o EXCEPT !.devices = value], name, TRUE)
      BY <2>1, <2>3 DEF OverlayType, SetsKey
    <3> HIDE DEF r
    <3> QED BY <3>1, <3>2
  <2>4. CASE name = "mode"
    <3> DEFINE m == Mode(value)
    <3>1. r = [ok |-> TRUE, cfg |-> with([o EXCEPT !.mode = m])]
      BY <2>4 DEF handle_overlay, Accept, o, with
    <3>2. m \in Modes
      BY DEF Mode, Modes
    <3> HIDE DEF m
    <3>3. /\ [o EXCEPT !.mode = m] \in OverlayType /\ [o EXCEPT !.mode = m].name = o.name
          /\ SetsKey(o, [o EXCEPT !.mode = m], name, TRUE)
      BY <2>1, <2>4, <3>2 DEF OverlayType, SetsKey
    <3> HIDE DEF r
    <3> QED BY <3>1, <3>3
  <2>5. CASE name \notin {"path", "devices", "mode"} /\ (w = 0 \/ stored = Unset)
    <3>1. r = [ok |-> FALSE, cfg |-> with(o)]
      BY <2>5 DEF handle_overlay, Reject, o, w, stored, with
    <3>2. SetsKey(o, o, name, FALSE)
      BY <2>5 DEF SetsKey
    <3> HIDE DEF r
    <3> QED BY <2>1, <3>1, <3>2
  <2>6. CASE name \notin {"path", "devices", "mode"} /\ ~(w = 0 \/ stored = Unset)
    <3> DEFINE ov == [o EXCEPT !.u[w] = <<o.mode, stored>>]
    <3>1. r = [ok |-> TRUE, cfg |-> with(ov)]
      BY <2>6 DEF handle_overlay, Accept, o, w, stored, with
    <3>2. w \in 1..3
      BY <2>1, <2>6
    <3>3. ov \in OverlayType /\ ov.name = o.name /\ ov.mode = o.mode
      BY <2>1, <3>2 DEF OverlayType
    <3>4. \A x \in 1..3 : ov.u[x] = o.u[x] \/ ov.u[x][1] = o.mode
      BY <2>1, <3>2 DEF OverlayType
    <3>5. o.mode # "unknown" /\ name # "mode"
      BY <2>1, <2>6
    <3> HIDE DEF r, ov
    <3>6. SetsKey(o, ov, name, TRUE)
      BY <3>3, <3>4, <3>5 DEF SetsKey
    <3> QED BY <3>1, <3>3, <3>6
  <2> QED BY <2>2, <2>3, <2>4, <2>5, <2>6
<1>2. PICK ov \in OverlayType, ok \in BOOLEAN :
        r = [ok |-> ok, cfg |-> with(ov)] /\ ov.name = o.name /\ SetsKey(o, ov, name, ok)
  BY <1>1
<1>3. /\ list \in Seq(OverlayType) /\ i \in DOMAIN list /\ list[i].name = sect
      /\ \/ i \in 1..Len(old) /\ list = old
         \/ /\ i = Len(old) + 1 /\ list = Append(old, NewOverlay(sect))
            /\ \A j \in 1..Len(old) : old[j].name # sect
  BY OverlayFound
<1>4. old \in Seq(OverlayType) /\ Len(old) \in Nat
  BY DEF GoodConfig, ConfigType
<1> DEFINE new == [list EXCEPT ![i] = ov]
<1>5. r.ok = ok /\ r.cfg = [cfg EXCEPT !.overlays = new]
  BY <1>2
<1> HIDE DEF r, old, list, i
<1>6. /\ new \in Seq(OverlayType) /\ Len(new) = Len(list) /\ new[i] = ov /\ i \in 1..Len(new)
      /\ \A j \in DOMAIN list : j # i => new[j] = list[j]
  BY <1>3
<1> HIDE DEF new
<1>7. /\ GoodConfig(r.cfg) /\ r.cfg.overlays = new
      /\ r.cfg.devices = cfg.devices /\ r.cfg.device = cfg.device
  BY <1>5, <1>6 DEF GoodConfig, ConfigType
<1>8. Becomes(old, new, i, o, ov, sect)
  <2>1. CASE i \in 1..Len(old) /\ list = old
    <3>1. Len(new) = Len(old) /\ o = old[i] /\ \A j \in 1..Len(old) : j # i => new[j] = old[j]
      BY <1>4, <1>6, <2>1
    <3> QED BY <1>2, <1>3, <1>6, <2>1, <3>1 DEF Becomes
  <2>2. CASE /\ i = Len(old) + 1 /\ list = Append(old, NewOverlay(sect))
             /\ \A j \in 1..Len(old) : old[j].name # sect
    <3>1. Len(list) = Len(old) + 1 /\ list[i] = NewOverlay(sect) /\ \A j \in 1..Len(old) : j \in DOMAIN list /\ list[j] = old[j]
      BY <1>4, <2>2
    <3>2. Len(new) = i /\ o = NewOverlay(sect) /\ \A j \in 1..Len(old) : j # i => new[j] = old[j]
      BY <1>6, <2>2, <3>1
    <3> QED BY <1>2, <1>3, <1>6, <2>2, <3>2 DEF Becomes
  <2> QED BY <1>3, <2>1, <2>2
<1>9. o \in OverlayType
  BY <1>3
<1>10. OverlayCall(old, new, ok, sect, name)
  <2> HIDE DEF o
  <2> QED BY <1>2, <1>6, <1>8, <1>9 DEF OverlayCall
<1> QED BY <1>5, <1>7, <1>10 DEF r, old

-----------------------------------------------------------------------------
(* Preservation *)

(* One call of the handler, by the section it is for.                      *)
LEMMA HandlerFacts ==
    ASSUME TypeInv, NEW name \in PieceNames, NEW value \in Text \ {Garbage}, NEW chips \in ChipLists,
           Filled(cfg, calls, refused)
    PROVE  LET r == handler(section, name, value, chips) IN
           /\ r.ok \in BOOLEAN /\ GoodConfig(r.cfg)
           /\ Filled(r.cfg, IF r.ok THEN Append(calls, <<section, name>>) ELSE calls, refused \/ ~r.ok)
<1> DEFINE r == handler(section, name, value, chips)
           c == <<section, name>>
           q == IF r.ok THEN Append(calls, c) ELSE calls
           bad == refused \/ ~r.ok
<1>1. /\ GoodConfig(cfg) /\ section \in PieceNames /\ calls \in Seq(HandlerCall)
      /\ c \in HandlerCall /\ c[1] = section
      /\ cfg.devices \in Text /\ cfg.overlays \in Seq(OverlayType) /\ refused \in BOOLEAN
  <2>1. c \in HandlerCall /\ c[1] = section
    BY DEF TypeInv, HandlerCall
  <2> QED BY <2>1 DEF TypeInv, GoodConfig, ConfigType
<1>2. /\ ~refused => InOrder(cfg.overlays, calls)
      /\ \A i \in DOMAIN cfg.overlays : UnionSound(cfg.overlays[i], calls)
      /\ DevicesSound(cfg.devices, cfg.device, calls)
  BY DEF Filled
(* A call for another section does not touch the overlays.                 *)
<1>3. ASSUME section \notin OverlaySections
      PROVE  /\ ~refused => InOrder(cfg.overlays, Append(calls, c))
             /\ \A i \in DOMAIN cfg.overlays : UnionSound(cfg.overlays[i], Append(calls, c))
  <2> DEFINE a == Append(calls, c)
  <2> HIDE DEF c
  <2>1. /\ \A x : Has(a, x) <=> (Has(calls, x) \/ x = c)
        /\ \A x : Once(a, x) => Once(calls, x)
        /\ \A sect : Places(a, sect) = Places(calls, sect) \cup (IF c[1] = sect THEN {Len(calls) + 1} ELSE {})
    BY <1>1, OneMoreCall
  <2>2. \A k \in DOMAIN a : a[k] = c \/ (k \in DOMAIN calls /\ a[k] = calls[k])
    BY <1>1
  <2> HIDE DEF a
  <2>3. ASSUME NEW i \in DOMAIN cfg.overlays PROVE UnionSound(cfg.overlays[i], a)
    <3> DEFINE o == cfg.overlays[i]
    <3>1. UnionSound(o, calls)
      BY <1>2
    <3> HIDE DEF o
    <3> QED BY <2>1, <3>1 DEF UnionSound, o
  <2>4. ASSUME ~refused PROVE InOrder(cfg.overlays, a)
    <3>1. InOrder(cfg.overlays, calls)
      BY <1>2, <2>4
    <3>2. ASSUME NEW i \in DOMAIN cfg.overlays
          PROVE  Places(a, cfg.overlays[i].name) = Places(calls, cfg.overlays[i].name)
      <4>1. cfg.overlays[i].name \in OverlaySections
        BY <1>2 DEF UnionSound
      <4> QED BY <1>1, <1>3, <2>1, <4>1
    <3>3. ASSUME NEW k \in DOMAIN a, a[k][1] \in OverlaySections
          PROVE  \E i \in DOMAIN cfg.overlays : cfg.overlays[i].name = a[k][1]
      BY <1>1, <1>3, <2>2, <3>1, <3>3 DEF InOrder
    <3> QED BY <3>1, <3>2, <3>3 DEF InOrder
  <2> QED BY <2>3, <2>4 DEF a
<1>4. CASE section = "global"
  <2>1. r = handle_global(name, value)
    BY <1>4 DEF handler
  <2>2. /\ r.ok \in BOOLEAN /\ GoodConfig(r.cfg) /\ r.cfg.overlays = cfg.overlays
        /\ IF name = "devices" THEN r.ok /\ r.cfg.devices = value
           ELSE r.cfg.devices = cfg.devices /\ r.cfg.device = cfg.device
    BY <1>1, <2>1, GlobalFacts
  <2>3. section \notin OverlaySections /\ section \in Reserved
    BY <1>4, ConfigAssumption DEF Reserved
  <2> HIDE DEF r
  <2>4. DevicesSound(r.cfg.devices, r.cfg.device, q)
    <3>1. CASE name = "devices"
      <4>1. q = Append(calls, <<"global", "devices">>) /\ <<"global", "devices">> \in HandlerCall
        BY <1>1, <1>4, <2>2, <3>1
      <4>2. r.cfg.devices \in Text
        BY <2>2, <3>1
      <4> QED BY <1>1, <1>2, <4>1, <4>2, DevicesListed
    <3>2. CASE name # "devices"
      <4>1. c # <<"global", "devices">> /\ r.cfg.devices = cfg.devices /\ r.cfg.device = cfg.device
        BY <2>2, <3>2
      <4> HIDE DEF c
      <4>2. DevicesSound(cfg.devices, cfg.device, Append(calls, c))
        BY <1>1, <1>2, <2>3, <4>1, DevicesUntouched
      <4> QED BY <1>2, <4>1, <4>2
    <3> QED BY <3>1, <3>2
  <2>5. /\ ~bad => InOrder(r.cfg.overlays, q)
        /\ \A i \in DOMAIN r.cfg.overlays : UnionSound(r.cfg.overlays[i], q)
    <3> HIDE DEF c
    <3> QED BY <1>2, <1>3, <2>2, <2>3
  <2> QED BY <2>2, <2>4, <2>5 DEF Filled, r
<1>5. CASE section # "global" /\ section \in OverlaySections
  <2>1. r = handle_overlay(section, name, value, chips)
    BY <1>5 DEF handler
  <2>2. /\ r.ok \in BOOLEAN /\ GoodConfig(r.cfg)
        /\ r.cfg.devices = cfg.devices /\ r.cfg.device = cfg.device
        /\ OverlayCall(cfg.overlays, r.cfg.overlays, r.ok, section, name)
    BY <1>1, <1>5, <2>1, OverlayFacts
  <2> HIDE DEF r
  <2>3. DevicesSound(r.cfg.devices, r.cfg.device, q)
    <3>1. c # <<"global", "devices">> /\ section \in Reserved
      BY <1>5 DEF Reserved
    <3> HIDE DEF c
    <3>2. DevicesSound(cfg.devices, cfg.device, Append(calls, c))
      BY <1>1, <1>2, <3>1, DevicesUntouched
    <3> QED BY <1>2, <2>2, <3>2
  <2>4. \A i \in DOMAIN r.cfg.overlays : UnionSound(r.cfg.overlays[i], q)
    BY <1>1, <1>2, <2>2, UnionKept
  <2>5. ASSUME ~bad PROVE InOrder(r.cfg.overlays, q)
    <3>1. r.ok = TRUE /\ q = Append(calls, c) /\ InOrder(cfg.overlays, calls)
      BY <1>1, <1>2, <2>2, <2>5
    <3>2. OverlayCall(cfg.overlays, r.cfg.overlays, TRUE, section, name)
      BY <2>2, <3>1
    <3> QED BY <1>1, <3>1, <3>2, OrderKept
  <2> QED BY <2>2, <2>3, <2>4, <2>5 DEF Filled, r
<1>6. CASE section \notin Reserved /\ \E i \in DOMAIN cfg.devices : cfg.devices[i] = section
  <2> DEFINE same == {i \in DOMAIN cfg.devices : cfg.devices[i] = section}
             i == Min(same)
  <2>1. same \in SUBSET Nat /\ same # {}
    BY <1>1, <1>6 DEF Text
  <2>2. i \in same /\ \A j \in same : i <= j
    <3> HIDE DEF same
    <3> QED BY <2>1, MinOf
  <2>3. r = handle_device(i, name, value)
    BY <1>6 DEF handler, Reserved
  <2> HIDE DEF i
  <2>4. /\ i \in DOMAIN cfg.devices /\ cfg.devices[i] = section
        /\ \A j \in DOMAIN cfg.devices : cfg.devices[j] = section => i <= j
    BY <2>2
  <2>5. /\ r.ok = TRUE /\ GoodConfig(r.cfg)
        /\ r.cfg.overlays = cfg.overlays /\ r.cfg.devices = cfg.devices
        /\ DeviceCall(cfg.devices, cfg.device, r.cfg.device, section, name)
    <3>1. section \notin Reserved /\ GoodConfig(cfg)
      BY <1>1, <1>6
    <3>2. PICK k \in DOMAIN cfg.devices : k = i
      BY <2>4
    <3>3. /\ cfg.devices[k] = section
          /\ \A j \in DOMAIN cfg.devices : cfg.devices[j] = cfg.devices[k] => k <= j
      BY <2>4, <3>2
    <3> HIDE DEF r, same, c
    <3>4. LET x == handle_device(k, name, value) IN
          /\ x.ok = TRUE /\ GoodConfig(x.cfg)
          /\ x.cfg.overlays = cfg.overlays /\ x.cfg.devices = cfg.devices
          /\ DeviceCall(cfg.devices, cfg.device, x.cfg.device, cfg.devices[k], name)
      BY <3>1, <3>3, DeviceFacts
    <3>5. r = handle_device(k, name, value)
      BY <2>3, <3>2
    <3> QED BY <3>3, <3>4, <3>5
  <2> HIDE DEF r
  <2>6. DevicesSound(r.cfg.devices, r.cfg.device, q)
    BY <1>1, <1>2, <1>6, <2>5, DevicesKept
  <2>7. /\ ~bad => InOrder(r.cfg.overlays, q)
        /\ \A j \in DOMAIN r.cfg.overlays : UnionSound(r.cfg.overlays[j], q)
    <3>1. section \notin OverlaySections
      BY <1>6 DEF Reserved
    <3> HIDE DEF c
    <3> QED BY <1>3, <2>5, <3>1
  <2> QED BY <2>5, <2>6, <2>7 DEF Filled, r
<1>7. CASE section \notin Reserved /\ ~\E i \in DOMAIN cfg.devices : cfg.devices[i] = section
  <2>1. r.ok = FALSE /\ r.cfg = cfg
    BY <1>7 DEF handler, Reject, Reserved
  <2> HIDE DEF r
  <2> QED BY <1>1, <1>2, <2>1 DEF Filled, r
<1> QED BY <1>4, <1>5, <1>6, <1>7 DEF Reserved

(* The handler is called for a pair or a continuation.                     *)
LEMMA CallPreserves ==
    ASSUME Inv, result = "reading", result' = result, lineno' = lineno + 1, section' = section,
           prevName' \in PieceNames,
           NEW name \in PieceNames, NEW value \in Text \ {Garbage}, NEW chips \in ChipLists,
           Call(name, value, chips)
    PROVE  Inv'
<1> DEFINE r == handler(section, name, value, chips)
<1>1. TypeInv /\ ErrorInv /\ Filled(cfg, calls, refused)
  BY DEF Inv
<1>2. /\ r.ok \in BOOLEAN /\ GoodConfig(r.cfg)
      /\ Filled(r.cfg, IF r.ok THEN Append(calls, <<section, name>>) ELSE calls, refused \/ ~r.ok)
  BY <1>1, HandlerFacts
<1>3. /\ cfg' = r.cfg
      /\ calls' = IF r.ok THEN Append(calls, <<section, name>>) ELSE calls
      /\ error' = IF ~r.ok /\ error = 0 THEN lineno' ELSE error
      /\ refused' = (refused \/ ~r.ok)
  BY DEF Call, Refused
<1> HIDE DEF r
<1>4. Filled(cfg', calls', refused')
  BY <1>2, <1>3
<1>5. <<section, name>> \in HandlerCall /\ calls \in Seq(HandlerCall)
  BY <1>1 DEF TypeInv, HandlerCall
<1>6. calls' \in Seq(HandlerCall)
  BY <1>3, <1>5, OneMoreCall
<1>7. lineno' \in Nat /\ lineno' # 0 /\ error' \in Nat /\ refused' \in BOOLEAN
  BY <1>1, <1>2, <1>3 DEF TypeInv
<1>8. refused' => error' # 0
  BY <1>1, <1>2, <1>3, <1>7 DEF ErrorInv, TypeInv
<1>9. TypeInv'
  BY <1>1, <1>2, <1>3, <1>6, <1>7 DEF TypeInv
<1>10. ErrorInv'
  BY <1>8 DEF ErrorInv, Returned
<1> QED BY <1>4, <1>9, <1>10 DEF Inv

(* A piece for which the handler is not called.                            *)
LEMMA NoCallPreserves ==
    ASSUME Inv, result = "reading", result' = result, lineno' = lineno + 1, section' \in PieceNames,
           prevName' \in PieceNames, UNCHANGED <<cfg, calls>>, NEW bad \in BOOLEAN, Refused(bad)
    PROVE  Inv'
<1>1. TypeInv /\ ErrorInv /\ Filled(cfg, calls, refused)
  BY DEF Inv
<1>2. error' = (IF bad /\ error = 0 THEN lineno' ELSE error) /\ refused' = (refused \/ bad)
  BY DEF Refused
<1>3. lineno' \in Nat /\ lineno' # 0 /\ error' \in Nat /\ refused' \in BOOLEAN
  BY <1>1, <1>2 DEF TypeInv
<1>4. refused' => error' # 0
  BY <1>1, <1>2, <1>3 DEF ErrorInv, TypeInv
<1>5. TypeInv'
  BY <1>1, <1>3 DEF TypeInv
<1>6. ErrorInv'
  BY <1>4 DEF ErrorInv, Returned
<1>7. Filled(cfg', calls', refused')
  BY <1>1, <1>2 DEF Filled
<1> QED BY <1>5, <1>6, <1>7 DEF Inv

LEMMA InitEstablishes == Init => Inv
<1> SUFFICES ASSUME Init PROVE Inv
  OBVIOUS
<1>1. cfg = EmptyConfig /\ calls = << >> /\ refused = FALSE /\ error = 0 /\ lineno = 0
  BY DEF Init
<1>2. /\ EmptyConfig \in ConfigType /\ Len(EmptyConfig.device) = Len(EmptyConfig.devices)
      /\ EmptyConfig.overlays = << >> /\ EmptyConfig.devices = << >>
  BY DEF EmptyConfig, ConfigType, Unset, Text
<1>3. TypeInv
  <2>1. calls \in Seq(HandlerCall)
    BY <1>1
  <2>2. section \in PieceNames /\ prevName \in PieceNames
    BY DEF Init, PieceNames
  <2> QED BY <1>1, <1>2, <2>1, <2>2 DEF TypeInv, GoodConfig
<1>4. ErrorInv
  BY <1>1 DEF Init, ErrorInv, Returned
<1>5. DOMAIN << >> = {}
  OBVIOUS
<1>6. Filled(cfg, calls, refused)
  BY <1>1, <1>2, <1>5 DEF Filled, InOrder, DevicesSound
<1> QED BY <1>3, <1>4, <1>6 DEF Inv

LEMMA NextPreserves == Inv /\ [Next]_configVars => Inv'
<1> SUFFICES ASSUME Inv, [Next]_configVars PROVE Inv'
  OBVIOUS
<1>1. section \in PieceNames /\ prevName \in PieceNames /\ "" \in PieceNames
  BY DEF Inv, TypeInv, PieceNames
<1>2. CASE ReadPiece
  <2>1. PICK p \in Pieces, chips \in ChipLists :
            Continuation(p, chips) \/ Section(p) \/ Pair(p, chips) \/ Other(p)
    BY <1>2 DEF ReadPiece
  <2>2. result = "reading" /\ result' = result /\ lineno' = lineno + 1
    BY <1>2 DEF ReadPiece
  <2>3. p.name \in PieceNames /\ p.value \in Text \ {Garbage}
    BY ConfigAssumption DEF PieceNames
  <2>4. CASE Continuation(p, chips)
    BY <1>1, <2>2, <2>3, <2>4, CallPreserves DEF Continuation
  <2>5. CASE Section(p)
    <3>1. section' \in PieceNames /\ prevName' \in PieceNames /\ UNCHANGED <<cfg, calls>> /\ Refused(FALSE)
      BY <1>1, <2>3, <2>5 DEF Section
    <3> QED BY <2>2, <3>1, NoCallPreserves
  <2>6. CASE Pair(p, chips)
    BY <1>1, <2>2, <2>3, <2>6, CallPreserves DEF Pair
  <2>7. CASE Other(p)
    <3> DEFINE bad == p.kind # "blank"
    <3>1. section' \in PieceNames /\ prevName' \in PieceNames /\ UNCHANGED <<cfg, calls>> /\ Refused(bad)
      BY <1>1, <2>7 DEF Other
    <3>2. bad \in BOOLEAN
      OBVIOUS
    <3> HIDE DEF bad
    <3> QED BY <2>2, <3>1, <3>2, NoCallPreserves
  <2> QED BY <2>1, <2>4, <2>5, <2>6, <2>7
<1>3. CASE Finish
  <2>1. /\ result' = "config" => error = 0
        /\ UNCHANGED <<cfg, section, prevName, lineno, error, refused, calls>>
    BY <1>3 DEF Finish
  <2>2. refused \in BOOLEAN /\ (refused => error # 0)
    BY DEF Inv, TypeInv, ErrorInv
  <2>3. ErrorInv'
    BY <2>1, <2>2 DEF ErrorInv, Returned
  <2> QED BY <2>1, <2>3 DEF Inv, TypeInv, Filled
<1>4. CASE UNCHANGED configVars
  BY <1>4 DEF configVars, Inv, TypeInv, ErrorInv, Returned, Filled
<1> QED BY <1>2, <1>3, <1>4 DEF Next

-----------------------------------------------------------------------------
(* The invariant holds at every point of every file.                       *)
THEOREM ConfigInvariant == Spec => []Inv
<1>1. Init => Inv
  BY InitEstablishes
<1>2. Inv /\ [Next]_configVars => Inv'
  BY NextPreserves
<1> QED BY <1>1, <1>2, PTL DEF Spec

(* load_config returns no configuration from a file with a refused piece:  *)
(* ini_parse_stream keeps the number of the first one, which is never 0.   *)
THEOREM OnlyCleanFilesReturned == Spec => []OnlyCleanFiles
<1>1. Inv => OnlyCleanFiles
  BY DEF Inv, ErrorInv, OnlyCleanFiles
<1> QED BY <1>1, ConfigInvariant, PTL

(* Overlays are listed in the order in which their sections first appear,  *)
(* each section once, however often it comes back.                         *)
THEOREM OverlaysAlwaysInFileOrder == Spec => []OverlaysInFileOrder
<1>1. Inv => OverlaysInFileOrder
  BY DEF Inv, ErrorInv, Filled, InOrder, Places, FirstCall, OverlaysInFileOrder
<1> QED BY <1>1, ConfigInvariant, PTL

(* The union of an overlay is read as what was written into it, unless the *)
(* mode was set more than once.                                            *)
THEOREM UnionAlwaysReadAsWritten == Spec => []UnionReadAsWritten
<1>1. Inv => UnionReadAsWritten
  BY DEF Inv, Filled, UnionSound, Once, AtMostOnce, UnionReadAsWritten
<1> QED BY <1>1, ConfigInvariant, PTL

(* What the section of a device says is not lost, unless the devices are   *)
(* listed more than once.                                                  *)
THEOREM DeviceSettingsAlwaysKept == Spec => []DeviceSettingsKept
<1>1. Inv => DeviceSettingsKept
  BY DEF Inv, Filled, DevicesSound, Has, Called, Once, AtMostOnce, DeviceSettingsKept
<1> QED BY <1>1, ConfigInvariant, PTL
=============================================================================
