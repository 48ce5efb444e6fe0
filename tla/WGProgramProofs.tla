-------------------------- MODULE WGProgramProofs --------------------------
(***************************************************************************)
(* Proofs about what a loaded program runs on, for any program: that the   *)
(* stubs of WGMapper pop what their functions take, whatever is asked for  *)
(* by import, by name, by ordinal or through a COM object; that the        *)
(* decoder finds every instruction as long as it is; that the interpreter  *)
(* leaves the result, the flags and the stack an instruction should, at    *)
(* any width of words; and that WGLoader puts DLLs apart and every image   *)
(* into memory as its file wants it, for every set of images that are as   *)
(* LoaderAssumption says and however many are loaded.                      *)
(*                                                                         *)
(* A loop of the loader over sections, DLLs or functions is a function     *)
(* with one value for each turn; what k turns come to is shown from k - 1  *)
(* (UpTo). A turn is described by the words it writes and by those it      *)
(* leaves alone, and the turns of one image do not meet: its sections lie  *)
(* on different pages, its slots and pointers at different words.          *)
(***************************************************************************)
EXTENDS WGMapper, WGDecode, WGInterp, WGLoader, SequenceTheorems, FiniteSetTheorems,
        WellFoundedInduction, TLAPS

-----------------------------------------------------------------------------
(* The table of stubs.                                                     *)

\* The names there are; the literals are listed for the provers' sake, which do not
\* take them for strings.
Names == STRING \cup {"COM", "NSDIALOGS", "KERNEL32", "SHELL32", "IsUserAnAdmin", "Ordinal_17"}
                \cup {ComNames[i] : i \in 1 .. 6}
Stub == [dll : Names, suffixed : BOOLEAN, func : Names, args : Nat]

\* An entry that was added: a COM method, or a function its DLL has not among the
\* defaults, stubbed with no arguments.
Proper(e) ==
    \/ e.dll = "COM" /\ \E k \in 1 .. 6 : e.func = ComNames[k] /\ e.args = ComArgs[k]
    \/ /\ e.dll # "COM" /\ e.args = 0
       /\ \A n \in DOMAIN Defaults : Defaults[n].func = e.func => Defaults[n].dll # e.dll

TableRight ==
    /\ added \in Seq(Stub) /\ Size <= WG_MAPPER_CAPACITY
    /\ \A i \in 1 .. Len(added) : Proper(added[i])

\* The address t leads to COM method i.
LeadsToMethod(t, i) ==
    /\ t.base = "low" /\ t.at \in 1 .. Size
    /\ At(t.at).func = ComNames[i] /\ At(t.at).args = ComArgs[i]

\* The statics of the COM methods: within the table of some engine, and right for
\* the engine that registered them.
ComRight ==
    /\ comHere \in BOOLEAN
    /\ com = <<>> \/ (DOMAIN com = 1 .. 6 /\ Len(com) = 6)
    /\ com # <<>> => \A i \in 1 .. 6 : com[i] = NoThunk \/ com[i].at \in 1 .. WG_MAPPER_CAPACITY
    /\ comHere => com # <<>> /\ \A i \in 1 .. 6 : com[i] # NoThunk => LeadsToMethod(com[i], i)

GiftRight ==
    granted = NoGift \/ (/\ granted.thunk.at \in 1 .. WG_MAPPER_CAPACITY
                         /\ granted.how = "com" => com # <<>>
                         /\ (granted.how = "com" => comHere) => Leads(granted))

MapperInv ==
    /\ thunkBase \in {"high", "low"} /\ TableRight /\ ComRight /\ GiftRight

LEMMA DefaultFacts ==
    /\ Len(Defaults) \in Nat /\ DOMAIN Defaults = 1 .. Len(Defaults)
    /\ \A n \in 1 .. Len(Defaults) : Defaults[n] \in Stub /\ Defaults[n].dll # "COM"
    /\ \A n, k \in 1 .. Len(Defaults) :
         Defaults[n].func = Defaults[k].func /\ Defaults[n].dll = Defaults[k].dll =>
           Defaults[n].args = Defaults[k].args
<1> DEFINE D == [dll : STRING \ {"COM"}, suffixed : BOOLEAN, func : STRING, args : Nat]
<1>1. Defaults \in Seq(D)  BY DefaultsAssumption
<1>2. Len(Defaults) \in Nat /\ DOMAIN Defaults = 1 .. Len(Defaults)  BY <1>1, LenProperties
<1>3. \A n \in 1 .. Len(Defaults) : Defaults[n] \in D  BY <1>1, ElementOfSeq
<1>4. \A n \in 1 .. Len(Defaults) : Defaults[n] \in Stub /\ Defaults[n].dll # "COM"
  BY <1>3 DEF Stub, Names
<1>5. ASSUME NEW n \in 1 .. Len(Defaults), NEW k \in 1 .. Len(Defaults),
             Defaults[n].func = Defaults[k].func, Defaults[n].dll = Defaults[k].dll
      PROVE  Defaults[n].args = Defaults[k].args
  <2> DEFINE f == Defaults[n].func
  <2>1. f \in DOMAIN Places /\ n \in Places[f] /\ k \in Places[f]
    BY <1>2, <1>5 DEF Places
  <2> QED BY <1>5, <2>1, DefaultsAssumption DEF SameDefaults
<1> QED BY <1>2, <1>4, <1>5

\* The functions the defaults have, and where.
LEMMA PlacesFacts ==
    /\ \A n \in 1 .. Len(Defaults) : Defaults[n].func \in DOMAIN Places
                                     /\ n \in Places[Defaults[n].func]
    /\ \A f \in DOMAIN Places : /\ Places[f] # {}
                                /\ \A n \in Places[f] : n \in 1 .. Len(Defaults)
                                                       /\ Defaults[n].func = f
  BY DefaultFacts DEF Places

LEMMA TableFacts ==
    ASSUME TableRight
    PROVE  /\ Len(added) \in Nat /\ DOMAIN added = 1 .. Len(added)
           /\ Size \in Nat /\ Size = Len(Defaults) + Len(added)
           /\ \A i \in 1 .. Len(added) : added[i] \in Stub
           /\ \A n \in 1 .. Size : At(n) \in Stub
<1>1. Len(added) \in Nat /\ DOMAIN added = 1 .. Len(added)
      /\ \A i \in 1 .. Len(added) : added[i] \in Stub
  BY LenProperties, ElementOfSeq DEF TableRight
<1>2. Size \in Nat /\ Size = Len(Defaults) + Len(added)  BY <1>1, DefaultFacts DEF Size
<1>3. ASSUME NEW n \in 1 .. Size PROVE At(n) \in Stub
  <2>1. CASE n <= Len(Defaults)  BY <1>2, <2>1, DefaultFacts DEF At
  <2>2. CASE ~ n <= Len(Defaults)
    <3>1. n - Len(Defaults) \in 1 .. Len(added)  BY <1>1, <1>2, <2>2, DefaultFacts
    <3> QED BY <1>1, <2>2, <3>1 DEF At
  <2> QED BY <2>1, <2>2
<1> QED BY <1>1, <1>2, <1>3

\* Anywhere: the places of the function in the table.
LEMMA AnywhereFacts ==
    ASSUME TableRight, NEW f
    PROVE  \A n : n \in Anywhere(f) <=> n \in 1 .. Size /\ At(n).func = f
<1>1. PICK d \in Nat, m \in Nat : d = Len(Defaults) /\ m = Len(added)
  BY DefaultFacts, TableFacts
<1>2. \A n : n \in (IF f \in DOMAIN Places THEN Places[f] ELSE {}) <=>
               n \in 1 .. d /\ Defaults[n].func = f
  BY <1>1, PlacesFacts
<1>3. \A n : n \in {d + k : k \in {i \in DOMAIN added : added[i].func = f}} <=>
               \E k \in 1 .. m : n = d + k /\ added[k].func = f
  BY <1>1, TableFacts
<1>4. ASSUME NEW n, n \in Anywhere(f) PROVE n \in 1 .. Size /\ At(n).func = f
  <2>1. CASE n \in 1 .. d /\ Defaults[n].func = f
    BY <1>1, <2>1, TableFacts DEF At
  <2>2. CASE \E k \in 1 .. m : n = d + k /\ added[k].func = f
    <3>1. PICK k \in 1 .. m : n = d + k /\ added[k].func = f  BY <2>2
    <3>2. ~ n <= d /\ n - d = k /\ n \in 1 .. d + m  BY <3>1
    <3> QED BY <1>1, <3>1, <3>2, TableFacts DEF At
  <2> QED BY <1>1, <1>2, <1>3, <1>4, <2>1, <2>2 DEF Anywhere
<1>5. ASSUME NEW n \in 1 .. Size, At(n).func = f PROVE n \in Anywhere(f)
  <2>1. CASE n <= d
    BY <1>1, <1>2, <1>5, <2>1 DEF Anywhere, At
  <2>2. CASE ~ n <= d
    <3>1. n - d \in 1 .. m /\ n = d + (n - d)  BY <1>1, <2>2, TableFacts
    <3>2. added[n - d].func = f  BY <1>1, <1>5, <2>2 DEF At
    <3> QED BY <1>1, <1>3, <3>1, <3>2 DEF Anywhere
  <2>3. n \in Int /\ d \in Int  BY TableFacts
  <2> QED BY <2>1, <2>2, <2>3
<1> QED BY <1>4, <1>5

\* The entry that is taken is the first.
LEMMA LowestFacts ==
    ASSUME NEW ns, ns \subseteq Nat, ns # {}
    PROVE  Lowest(ns) \in ns /\ \A n \in ns : Lowest(ns) <= n
<1>1. PICK m \in ns : \A i \in ns : ~ (<<i, m>> \in OpToRel(<, Nat))
  BY NatLessThanWellFounded, WFMin
<1>2. \A i \in ns : m <= i
  <2> SUFFICES ASSUME NEW i \in ns PROVE m <= i  OBVIOUS
  <2>1. i \in Nat /\ m \in Nat  OBVIOUS
  <2>2. ~ (i < m)  BY <1>1, <2>1 DEF OpToRel
  <2> QED BY <2>1, <2>2
<1> QED BY <1>1, <1>2 DEF Lowest

\* How many of m entries fit.
LEMMA FitCount ==
    ASSUME NEW m \in Nat, NEW size \in Nat, NEW cap \in Nat, size <= cap
    PROVE  Cardinality({i \in 1 .. m : size + i <= cap}) =
             IF size + m <= cap THEN m ELSE cap - size
<1> DEFINE k == IF size + m <= cap THEN m ELSE cap - size
<1>1. k \in Nat /\ k <= m  OBVIOUS
<1>2. {i \in 1 .. m : size + i <= cap} = 1 .. k  OBVIOUS
<1> HIDE DEF k
<1>3. Cardinality(1 .. k) = k
  <2>1. CASE k = 0
    <3>1. 1 .. k = {}  BY <2>1
    <3> QED BY <2>1, <3>1, FS_EmptySet
  <2>2. CASE k # 0
    <3>1. 1 \in Int /\ k \in Int /\ ~ (1 > k) /\ k - 1 + 1 = k  BY <1>1, <2>2
    <3> QED BY <3>1, FS_Interval
  <2> QED BY <2>1, <2>2
<1> QED BY <1>2, <1>3 DEF k

\* The table only grows, and what it had stays in its place.
TableGrown ==
    /\ Size \in Nat /\ Size' \in Nat /\ Size <= Size'
    /\ \A n \in 1 .. Size : At(n)' = At(n)

LEMMA Unchanged == TableRight /\ UNCHANGED added => TableRight' /\ TableGrown
  BY TableFacts DEF TableRight, Size, At, TableGrown

\* wg_dll_mapper_register: what fits goes to the end, and its thunks lead to it.
LEMMA Registered ==
    ASSUME TableRight, NEW es \in Seq(Stub), \A i \in 1 .. Len(es) : Proper(es[i]),
           added' = wg_dll_mapper_register(es).table
    PROVE  /\ TableRight' /\ TableGrown
           /\ \A i \in 1 .. Len(es) :
                LET t == wg_dll_mapper_register(es).thunks[i]
                IN  t = NoThunk \/ \E n \in 1 .. WG_MAPPER_CAPACITY :
                                     t = ThunkAt(n) /\ n \in 1 .. Size' /\ At(n)' = es[i]
<1> DEFINE R == wg_dll_mapper_register(es)
<1>1. PICK d \in Nat, m \in Nat, z \in Nat, e \in Nat, cap \in Nat :
        /\ d = Len(Defaults) /\ m = Len(added) /\ z = Size /\ z = d + m
        /\ e = Len(es) /\ cap = WG_MAPPER_CAPACITY
  <2>1. Len(es) \in Nat  BY LenProperties
  <2> QED BY <2>1, DefaultFacts, TableFacts, MapperAssumption
<1>2. z <= cap  BY <1>1 DEF TableRight
<1>3. DOMAIN es = 1 .. e /\ \A i \in 1 .. e : es[i] \in Stub
  BY <1>1, LenProperties, ElementOfSeq
<1> DEFINE k == IF z + e <= cap THEN e ELSE cap - z
<1>4. k \in Nat /\ k <= e /\ z + k <= cap /\ \A i \in 1 .. e : z + i <= cap <=> i <= k
  BY <1>2
<1>5. Cardinality({i \in 1 .. e : z + i <= cap}) = k  BY <1>2, FitCount
<1> HIDE DEF k
<1> DEFINE u == SubSeq(es, 1, k)
<1>6. /\ R.table = added \o u
      /\ \A i \in 1 .. e : R.thunks[i] = IF z + i <= cap THEN ThunkAt(z + i) ELSE NoThunk
  BY <1>1, <1>3, <1>5 DEF wg_dll_mapper_register
<1> HIDE DEF R
<1>7. u \in Seq(Stub) /\ Len(u) = k /\ \A i \in 1 .. k : u[i] = es[i]
  <2>1. \A i \in 1 .. k : es[i] \in Stub /\ 1 + i - 1 = i  BY <1>3, <1>4
  <2>2. /\ u \in Seq(Stub) /\ Len(u) = (IF 1 <= k THEN k - 1 + 1 ELSE 0)
        /\ \A i \in 1 .. k - 1 + 1 : u[i] = es[1 + i - 1]
    BY <1>4, <2>1, SubSeqProperties
  <2>3. (IF 1 <= k THEN k - 1 + 1 ELSE 0) = k /\ k - 1 + 1 = k  BY <1>4
  <2> QED BY <2>1, <2>2, <2>3
<1> HIDE DEF u
<1>8. /\ added' \in Seq(Stub) /\ Len(added') = m + k
      /\ \A i \in 1 .. m + k : added'[i] = IF i <= m THEN added[i] ELSE u[i - m]
  <2>1. added' = added \o u /\ added \in Seq(Stub)  BY <1>6 DEF TableRight, R
  <2>2. /\ added \o u \in Seq(Stub) /\ Len(added \o u) = Len(added) + Len(u)
        /\ \A i \in 1 .. Len(added) + Len(u) :
             (added \o u)[i] = IF i <= Len(added) THEN added[i] ELSE u[i - Len(added)]
    BY <1>7, <2>1, ConcatProperties
  <2> QED BY <1>1, <1>7, <2>1, <2>2
<1>9. Size' = z + k
  <2>1. Size' = Len(Defaults) + Len(added')  BY DEF Size
  <2>2. Size' = d + (m + k)  BY <1>1, <1>8, <2>1
  <2>3. d \in Nat /\ m \in Nat /\ k \in Nat /\ z = d + m  BY <1>1, <1>4
  <2> HIDE <1>1, <1>8
  <2> QED BY <2>2, <2>3
<1>10. /\ \A n \in 1 .. z : At(n)' = At(n)
       /\ \A i \in 1 .. k : At(z + i)' = es[i]
  <2>1. ASSUME NEW n \in 1 .. z PROVE At(n)' = At(n)
    <3>1. CASE n <= d  BY <1>1, <3>1 DEF At
    <3>2. CASE ~ n <= d
      <4>1. n - d \in 1 .. m /\ n - d \in 1 .. m + k  BY <1>1, <1>4, <3>2
      <4>2. added'[n - d] = added[n - d]  BY <1>8, <4>1
      <4> QED BY <1>1, <3>2, <4>2 DEF At
    <3> QED BY <3>1, <3>2
  <2>2. ASSUME NEW i \in 1 .. k PROVE At(z + i)' = es[i]
    <3>1. ~ z + i <= d /\ (z + i) - d = m + i /\ m + i \in 1 .. m + k /\ ~ m + i <= m
          /\ (m + i) - m = i
      BY <1>1, <1>4
    <3>2. added'[m + i] = u[i]  BY <1>8, <3>1
    <3>3. At(z + i)' = added'[m + i]  BY <1>1, <3>1 DEF At
    <3> QED BY <1>7, <3>2, <3>3
  <2> QED BY <2>1, <2>2
<1>11. \A i \in 1 .. m + k : Proper(added'[i])
  <2> SUFFICES ASSUME NEW i \in 1 .. m + k PROVE Proper(added'[i])  OBVIOUS
  <2>1. CASE i <= m
    <3>1. i \in 1 .. m  BY <2>1
    <3> QED BY <1>1, <1>8, <2>1, <3>1 DEF TableRight
  <2>2. CASE ~ i <= m
    <3>1. i - m \in 1 .. k /\ i - m \in 1 .. e  BY <1>4, <2>2
    <3>2. added'[i] = es[i - m]  BY <1>7, <1>8, <2>2, <3>1
    <3> QED BY <1>1, <3>1, <3>2
  <2> QED BY <2>1, <2>2
<1>12. TableRight'
  BY <1>1, <1>4, <1>8, <1>9, <1>11 DEF TableRight
<1>13. TableGrown  BY <1>1, <1>4, <1>9, <1>10 DEF TableGrown
<1>14. ASSUME NEW i \in 1 .. Len(es)
       PROVE  R.thunks[i] = NoThunk \/ \E n \in 1 .. WG_MAPPER_CAPACITY :
                 R.thunks[i] = ThunkAt(n) /\ n \in 1 .. Size' /\ At(n)' = es[i]
  <2>1. i \in 1 .. e  BY <1>1
  <2>2. CASE z + i <= cap
    <3>1. i \in 1 .. k /\ z + i \in 1 .. cap /\ z + i \in 1 .. z + k  BY <1>1, <1>4, <2>1, <2>2
    <3> QED BY <1>1, <1>6, <1>9, <1>10, <2>1, <2>2, <3>1
  <2>3. CASE ~ z + i <= cap  BY <1>6, <2>1, <2>3
  <2> QED BY <2>2, <2>3
<1> QED BY <1>12, <1>13, <1>14 DEF R

\* A function of one DLL has one count of arguments.
LEMMA OneCount == TableRight => SameArguments
<1> SUFFICES ASSUME TableRight PROVE SameArguments  OBVIOUS
<1>1. ASSUME NEW i \in DOMAIN added, NEW n \in Anywhere(added[i].func),
             At(n).dll = added[i].dll
      PROVE  At(n).args = added[i].args
  <2>1. i \in 1 .. Len(added) /\ Proper(added[i])  BY TableFacts DEF TableRight
  <2>2. n \in 1 .. Size /\ At(n).func = added[i].func  BY AnywhereFacts
  <2>3. PICK d \in Nat, m \in Nat : d = Len(Defaults) /\ m = Len(added) /\ Size = d + m
    BY DefaultFacts, TableFacts
  <2>4. CASE n <= d
    <3>1. n \in 1 .. d /\ At(n) = Defaults[n]  BY <2>2, <2>3, <2>4 DEF At
    <3>2. Defaults[n].dll # "COM" /\ n \in DOMAIN Defaults  BY <2>3, <3>1, DefaultFacts
    <3> QED BY <1>1, <2>1, <2>2, <3>1, <3>2 DEF Proper
  <2>5. CASE ~ n <= d
    <3>1. n - d \in 1 .. m /\ At(n) = added[n - d]  BY <2>2, <2>3, <2>5 DEF At
    <3>2. Proper(At(n))  BY <2>3, <3>1 DEF TableRight
    <3>3. CASE At(n).dll = "COM"
      <4>1. PICK k \in 1 .. 6 : At(n).func = ComNames[k] /\ At(n).args = ComArgs[k]
        BY <3>2, <3>3 DEF Proper
      <4>2. PICK j \in 1 .. 6 : added[i].func = ComNames[j] /\ added[i].args = ComArgs[j]
        BY <1>1, <2>1, <3>3 DEF Proper
      <4>3. ComNames[k] = ComNames[j]  BY <2>2, <4>1, <4>2
      <4>4. k = j  BY <4>3 DEF ComNames
      <4> QED BY <4>1, <4>2, <4>4
    <3>4. CASE At(n).dll # "COM"  BY <1>1, <2>1, <3>2, <3>4 DEF Proper
    <3> QED BY <3>3, <3>4
  <2> QED BY <2>2, <2>3, <2>4, <2>5
<1> QED BY <1>1, DefaultsAssumption DEF SameArguments

-----------------------------------------------------------------------------
(* The addresses that are given out.                                       *)

LEMMA CountsFacts ==
    ASSUME NEW dll, NEW func
    PROVE  /\ \A n \in 1 .. Len(Defaults) :
                Defaults[n].func = func /\ (dll = "any" \/ Defaults[n].dll = dll) =>
                  Defaults[n].args \in CountsRight(dll, func)
           /\ (\A n \in 1 .. Len(Defaults) :
                 ~ (Defaults[n].func = func /\ (dll = "any" \/ Defaults[n].dll = dll))) =>
                   CountsRight(dll, func) = {}
<1>1. ASSUME NEW n \in 1 .. Len(Defaults), Defaults[n].func = func,
             dll = "any" \/ Defaults[n].dll = dll
      PROVE  Defaults[n].args \in CountsRight(dll, func)
  <2>1. func \in DOMAIN Places /\ n \in Places[func]  BY <1>1, PlacesFacts
  <2> QED BY <1>1, <2>1 DEF CountsRight
<1>2. ASSUME \A n \in 1 .. Len(Defaults) :
                ~ (Defaults[n].func = func /\ (dll = "any" \/ Defaults[n].dll = dll))
      PROVE  CountsRight(dll, func) = {}
  <2>1. CASE func \notin DOMAIN Places  BY <2>1 DEF CountsRight
  <2>2. CASE func \in DOMAIN Places
    <3>1. \A n \in Places[func] : ~ (dll = "any" \/ Defaults[n].dll = dll)
      BY <1>2, <2>2, PlacesFacts
    <3> QED BY <2>2, <3>1 DEF CountsRight
  <2> QED BY <2>1, <2>2
<1> QED BY <1>1, <1>2

\* The count that the stub of the function of a DLL, or of any, should have.
CountsOf(dll, func) == IF CountsRight(dll, func) = {} THEN {0} ELSE CountsRight(dll, func)

\* An entry of a function pops what the function takes.
LEMMA EntryCounts ==
    ASSUME TableRight, NEW n \in 1 .. Size, NEW dll,
           \/ At(n).dll = dll /\ dll \notin {"COM", "any"}
           \/ /\ dll = "any" /\ At(n).func \notin {ComNames[i] : i \in 1 .. 6}
              /\ \A k \in 1 .. Size : At(k).func = At(n).func => n <= k
    PROVE  At(n).args \in CountsOf(dll, At(n).func)
<1>1. PICK d \in Nat, m \in Nat : d = Len(Defaults) /\ m = Len(added) /\ Size = d + m
  BY DefaultFacts, TableFacts
<1>2. CASE n <= d
  <2>1. n \in 1 .. Len(Defaults) /\ At(n) = Defaults[n]  BY <1>1, <1>2 DEF At
  <2>2. Defaults[n].args \in CountsRight(dll, Defaults[n].func)  BY <2>1, CountsFacts
  <2> QED BY <2>1, <2>2 DEF CountsOf
<1>3. CASE ~ n <= d
  <2>1. n - d \in 1 .. m /\ At(n) = added[n - d]  BY <1>1, <1>3 DEF At
  <2>2. Proper(At(n))  BY <1>1, <2>1 DEF TableRight
  <2>3. ~ (At(n).dll = "COM" /\ \E k \in 1 .. 6 : At(n).func = ComNames[k] /\ At(n).args = ComArgs[k])
    OBVIOUS
  <2>4. At(n).args = 0 /\ \A k \in 1 .. d : Defaults[k].func = At(n).func =>
                            Defaults[k].dll # At(n).dll
    BY <1>1, <2>2, <2>3, DefaultFacts DEF Proper
  <2>5. ASSUME NEW k \in 1 .. Len(Defaults)
        PROVE  ~ (Defaults[k].func = At(n).func /\ (dll = "any" \/ Defaults[k].dll = dll))
    <3>1. CASE At(n).dll = dll /\ dll \notin {"COM", "any"}  BY <1>1, <2>4, <3>1
    <3>2. CASE \A j \in 1 .. Size : At(j).func = At(n).func => n <= j
      <4>1. k \in 1 .. Size /\ At(k) = Defaults[k] /\ ~ n <= k  BY <1>1, <1>3 DEF At
      <4> QED BY <3>2, <4>1
    <3> QED BY <3>1, <3>2
  <2>6. CountsRight(dll, At(n).func) = {}  BY <2>5, CountsFacts
  <2> QED BY <2>4, <2>6 DEF CountsOf
<1> QED BY <1>1, <1>2, <1>3

\* A gift that leads to an entry that pops what it should is a right one.
LEMMA GiftGiven ==
    ASSUME NEW n \in 1 .. WG_MAPPER_CAPACITY, n \in 1 .. Size', NEW dll, NEW func, NEW how,
           how # "com", thunkBase' = thunkBase, granted' = Gift(dll, func, how, ThunkAt(n)),
           At(n)'.func = func, At(n)'.args \in CountsOf(dll, func)
    PROVE  GiftRight'
<1>1. /\ granted'.dll = dll /\ granted'.func = func /\ granted'.how = how
      /\ granted'.thunk.base = thunkBase /\ granted'.thunk.at = n
  BY DEF Gift, ThunkAt
<1>2. Leads(granted)'  BY <1>1 DEF Leads, CountsOf, CountsRight
<1> QED BY <1>1, <1>2 DEF GiftRight

\* What was given before stays right while the table grows.
LEMMA GiftKept ==
    ASSUME TableRight, GiftRight, TableRight', TableGrown, thunkBase' = thunkBase,
           granted' = granted, com' = com \/ com = <<>>, comHere' = comHere \/ com = <<>>
    PROVE  GiftRight'
<1>1. CASE granted = NoGift  BY <1>1 DEF GiftRight
<1>2. CASE granted # NoGift
  <2>1. /\ granted.thunk.at \in 1 .. WG_MAPPER_CAPACITY
        /\ granted.how = "com" => com # <<>>
        /\ (granted.how = "com" => comHere) => Leads(granted)
    BY <1>2 DEF GiftRight
  <2>2. granted'.how = "com" => com' = com /\ comHere' = comHere  BY <2>1
  <2>3. ASSUME Leads(granted) PROVE Leads(granted)'
    <3>1. PICK n \in 1 .. Size : n = granted.thunk.at  BY <2>3 DEF Leads
    <3>2. n \in 1 .. Size' /\ At(n)' = At(n)  BY <3>1 DEF TableGrown
    <3> QED BY <2>3, <3>1, <3>2 DEF Leads, CountsRight
  <2> QED BY <1>2, <2>1, <2>2, <2>3 DEF GiftRight
<1> QED BY <1>1, <1>2

LEMMA ComKept ==
    ASSUME TableRight, ComRight, TableRight', TableGrown, com' = com, comHere' = comHere
    PROVE  ComRight'
<1>1. ASSUME NEW i \in 1 .. 6, LeadsToMethod(com[i], i) PROVE LeadsToMethod(com[i], i)'
  <2>1. PICK n \in 1 .. Size : n = com[i].at  BY <1>1 DEF LeadsToMethod
  <2>2. n \in 1 .. Size' /\ At(n)' = At(n)  BY <2>1 DEF TableGrown
  <2> QED BY <1>1, <2>1, <2>2 DEF LeadsToMethod
<1> QED BY <1>1 DEF ComRight

-----------------------------------------------------------------------------
(* Those who ask.                                                          *)

\* Only the table and the gift move.
Asking == UNCHANGED <<thunkBase, com, comHere>>

LEMMA AskingKeeps ==
    ASSUME MapperInv, Asking, TableRight', TableGrown, GiftRight' \/ granted' = granted
    PROVE  MapperInv'
<1>1. ComRight'  BY ComKept DEF MapperInv, Asking
<1>2. GiftRight'
  <2>1. CASE granted' = granted  BY <2>1, GiftKept DEF MapperInv, Asking
  <2> QED BY <2>1
<1> QED BY <1>1, <1>2 DEF MapperInv, Asking

\* The entry of a place of the table is given as what it is.
LEMMA PlaceGiven ==
    ASSUME MapperInv, Asking, UNCHANGED added, NEW n \in 1 .. Size, NEW dll, NEW how, how # "com",
           \/ At(n).dll = dll /\ dll \notin {"COM", "any"}
           \/ /\ dll = "any" /\ At(n).func \notin {ComNames[i] : i \in 1 .. 6}
              /\ \A k \in 1 .. Size : At(k).func = At(n).func => n <= k,
           Give({Gift(dll, At(n).func, how, ThunkAt(n))})
    PROVE  MapperInv'
<1>1. TableRight' /\ TableGrown  BY Unchanged DEF MapperInv
<1>2. CASE granted' = granted  BY <1>1, <1>2, AskingKeeps
<1>3. CASE granted' = Gift(dll, At(n).func, how, ThunkAt(n))
  <2>1. At(n).args \in CountsOf(dll, At(n).func)  BY EntryCounts DEF MapperInv
  <2>2. /\ n \in 1 .. WG_MAPPER_CAPACITY /\ n \in 1 .. Size' /\ At(n)' = At(n)
    BY <1>1, TableFacts, MapperAssumption DEF MapperInv, TableRight, TableGrown
  <2>3. PICK func : func = At(n).func  OBVIOUS
  <2>4. GiftRight'  BY <1>3, <2>1, <2>2, <2>3, GiftGiven DEF Asking
  <2> QED BY <1>1, <2>4, AskingKeeps
<1> QED BY <1>2, <1>3 DEF Give

\* wg_dll_mapper_resolve: asked as one of the DLL, or of any when none has it.
LEMMA Resolved ==
    ASSUME MapperInv, Asking, NEW dll \in Names, dll \notin {"COM", "any"},
           NEW suffixed \in BOOLEAN, NEW func \in Names, NEW asked, NEW how, how # "com",
           asked = dll \/ (asked = "any" /\ Anywhere(func) = {}),
           wg_dll_mapper_resolve(dll, suffixed, func, asked, how)
    PROVE  MapperInv'
<1> DEFINE hits == Found(dll, suffixed, func)
           own == {n \in Anywhere(func) : At(n).dll = dll}
<1>1. hits \subseteq own /\ (hits = {} => own = {})  BY DEF Found
<1>2. \A n : n \in Anywhere(func) <=> n \in 1 .. Size /\ At(n).func = func
  BY AnywhereFacts DEF MapperInv
<1>3. \A n \in own : n \in 1 .. Size /\ At(n).func = func /\ At(n).dll = dll  BY <1>2
<1>4. CASE hits # {}
  <2>1. UNCHANGED added /\ Give({Gift(asked, func, how, ThunkAt(Lowest(hits)))})
    BY <1>4 DEF wg_dll_mapper_resolve
  <2>2. Anywhere(func) # {}  BY <1>1, <1>4
  <2>3. asked = dll  BY <2>2
  <2>4. Lowest(hits) \in hits
    <3>1. Size \in Nat  BY TableFacts DEF MapperInv
    <3>2. hits \subseteq Nat  BY <1>1, <1>3, <3>1
    <3> HIDE DEF hits
    <3> QED BY <1>4, <3>2, LowestFacts
  <2>5. PICK n \in 1 .. Size : n = Lowest(hits) /\ At(n).func = func /\ At(n).dll = dll
    BY <1>1, <1>3, <2>4
  <2> HIDE DEF hits, own
  <2>6. Give({Gift(dll, At(n).func, how, ThunkAt(n))})  BY <2>1, <2>3, <2>5
  <2> QED BY <2>1, <2>5, <2>6, PlaceGiven
<1>5. CASE hits = {}
  <2> DEFINE e == Entry(dll, suffixed, func, 0)
             es == <<e>>
             R == wg_dll_mapper_register(es)
  <2>1. added' = R.table /\ Give({Gift(asked, func, how, R.thunks[1])})
    BY <1>5 DEF wg_dll_mapper_resolve
  <2>2. e \in Stub /\ e.dll = dll /\ e.func = func /\ e.args = 0  BY DEF Entry, Stub
  <2>3. \A n \in 1 .. Len(Defaults) : ~ (Defaults[n].func = func /\ Defaults[n].dll = dll)
    <3> SUFFICES ASSUME NEW n \in 1 .. Len(Defaults), Defaults[n].func = func,
                        Defaults[n].dll = dll
                 PROVE  FALSE
      OBVIOUS
    <3>1. n \in 1 .. Size /\ At(n) = Defaults[n]
      BY DefaultFacts, TableFacts DEF MapperInv, At
    <3>2. n \in own  BY <1>2, <3>1
    <3> QED BY <1>1, <1>5, <3>2
  <2> HIDE DEF e
  <2>4. Proper(e)  BY <2>2, <2>3, DefaultFacts DEF Proper
  <2>5. es \in Seq(Stub) /\ Len(es) = 1 /\ es[1] = e  BY <2>2
  <2> HIDE DEF es
  <2>6. /\ TableRight' /\ TableGrown
        /\ R.thunks[1] = NoThunk \/ \E n \in 1 .. WG_MAPPER_CAPACITY :
             R.thunks[1] = ThunkAt(n) /\ n \in 1 .. Size' /\ At(n)' = es[1]
    <3>1. \A i \in 1 .. Len(es) : Proper(es[i])  BY <2>4, <2>5
    <3>2. 1 \in 1 .. Len(es)  BY <2>5
    <3> QED BY <2>1, <2>5, <3>1, <3>2, Registered DEF MapperInv, R
  <2> HIDE DEF R
  <2>7. CASE granted' = granted  BY <2>6, <2>7, AskingKeeps
  <2>8. CASE granted' = Gift(asked, func, how, R.thunks[1]) /\ R.thunks[1] # NoThunk
    <3>1. PICK n \in 1 .. WG_MAPPER_CAPACITY :
             R.thunks[1] = ThunkAt(n) /\ n \in 1 .. Size' /\ At(n)' = e
      BY <2>5, <2>6, <2>8
    <3>2. CountsRight(asked, func) = {}
      <4>1. CASE asked = dll
        <5>1. \A k \in 1 .. Len(Defaults) :
                ~ (Defaults[k].func = func /\ (asked = "any" \/ Defaults[k].dll = asked))
          BY <2>3, <4>1
        <5> QED BY <5>1, CountsFacts
      <4>2. CASE asked = "any" /\ Anywhere(func) = {}
        <5>1. \A k \in 1 .. Len(Defaults) :
                ~ (Defaults[k].func = func /\ (asked = "any" \/ Defaults[k].dll = asked))
          <6> SUFFICES ASSUME NEW k \in 1 .. Len(Defaults), Defaults[k].func = func PROVE FALSE
            OBVIOUS
          <6>1. k \in 1 .. Size /\ At(k) = Defaults[k]
            BY DefaultFacts, TableFacts DEF MapperInv, At
          <6> QED BY <1>2, <4>2, <6>1
        <5> QED BY <5>1, CountsFacts
      <4> QED BY <4>1, <4>2
    <3>3. (At(n)').args \in CountsOf(asked, func) /\ (At(n)').func = func
      BY <2>2, <3>1, <3>2 DEF CountsOf
    <3>4. GiftRight'  BY <2>8, <3>1, <3>3, GiftGiven DEF Asking
    <3> QED BY <2>6, <3>4, AskingKeeps
  <2> QED BY <2>1, <2>7, <2>8 DEF Give, Gift
<1> QED BY <1>4, <1>5

LEMMA ImportStep ==
    ASSUME MapperInv, NEW i \in Imports, Import(i)
    PROVE  MapperInv'
<1>1. /\ i[1] \in Names /\ i[1] \notin {"COM", "any"}
      /\ i[2] \in BOOLEAN /\ i[3] \in Names
  BY MapperAssumption DEF Names
<1>2. wg_dll_mapper_resolve(i[1], i[2], i[3], i[1], "import") /\ Asking  BY DEF Import, Asking
<1> QED BY <1>1, <1>2, Resolved

\* The first entry of a function is given as one of any DLL.
LEMMA FirstGiven ==
    ASSUME MapperInv, Asking, UNCHANGED added, NEW func, Anywhere(func) # {},
           func \notin {ComNames[i] : i \in 1 .. 6},
           Give({Gift("any", func, "name", ThunkAt(Lowest(Anywhere(func))))})
    PROVE  MapperInv'
<1>1. \A n : n \in Anywhere(func) <=> n \in 1 .. Size /\ At(n).func = func
  BY AnywhereFacts DEF MapperInv
<1>2. Anywhere(func) \subseteq Nat
  <2>1. Size \in Nat  BY TableFacts DEF MapperInv
  <2> QED BY <1>1, <2>1
<1>3. PICK n \in 1 .. Size : /\ n = Lowest(Anywhere(func)) /\ At(n).func = func
                             /\ \A k \in Anywhere(func) : n <= k
  BY <1>1, <1>2, LowestFacts
<1>4. \A k \in 1 .. Size : At(k).func = At(n).func => n <= k  BY <1>1, <1>3
<1>5. Give({Gift("any", At(n).func, "name", ThunkAt(n))})  BY <1>3
<1> QED BY <1>3, <1>4, <1>5, PlaceGiven

LEMMA GetProcAddressStep ==
    ASSUME MapperInv, NEW func \in Wanted, GetProcAddress(func)
    PROVE  MapperInv'
<1>1. func \in Names /\ func \notin {ComNames[i] : i \in 1 .. 6}  BY MapperAssumption DEF Names
<1>2. Asking  BY DEF GetProcAddress, Asking
<1>3. CASE func \in PluginExports
  <2>1. wg_dll_mapper_resolve("NSDIALOGS", TRUE, func, "NSDIALOGS", "name")
    BY <1>3 DEF GetProcAddress
  <2>2. "NSDIALOGS" \in Names /\ "NSDIALOGS" \notin {"COM", "any"}  BY DEF Names
  <2>3. TRUE \in BOOLEAN /\ "name" # "com"  OBVIOUS
  <2> QED BY <1>1, <1>2, <2>1, <2>2, <2>3, Resolved, Zenon
<1>4. CASE func \notin PluginExports /\ Anywhere(func) # {}
  <2>1. UNCHANGED added /\ Give({Gift("any", func, "name", ThunkAt(Lowest(Anywhere(func))))})
    BY <1>4 DEF GetProcAddress
  <2> QED BY <1>1, <1>2, <1>4, <2>1, FirstGiven
<1>5. CASE func \notin PluginExports /\ Anywhere(func) = {}
  <2>1. wg_dll_mapper_resolve("KERNEL32", TRUE, func, "any", "name")
    BY <1>5 DEF GetProcAddress
  <2>2. "KERNEL32" \in Names /\ "KERNEL32" \notin {"COM", "any"}  BY DEF Names
  <2>3. TRUE \in BOOLEAN /\ "name" # "com"  OBVIOUS
  <2> QED BY <1>1, <1>2, <1>5, <2>1, <2>2, <2>3, Resolved, Zenon
<1> QED BY <1>3, <1>4, <1>5

LEMMA GetProcOrdinalStep ==
    ASSUME MapperInv, GetProcOrdinal
    PROVE  MapperInv'
<1>1. PICK name \in {"IsUserAnAdmin", "Ordinal_17"} :
        wg_dll_mapper_resolve("SHELL32", TRUE, name, "SHELL32", "import")
  BY DEF GetProcOrdinal
<1>2. Asking  BY DEF GetProcOrdinal, Asking
<1>3. name \in Names  BY DEF Names
<1>4. "SHELL32" \in Names /\ "SHELL32" \notin {"COM", "any"}  BY DEF Names
<1>5. TRUE \in BOOLEAN /\ "import" # "com"  OBVIOUS
<1> QED BY <1>1, <1>2, <1>3, <1>4, <1>5, Resolved, Zenon

LEMMA WSAIoctlStep ==
    ASSUME MapperInv, WSAIoctlExtension
    PROVE  MapperInv'
<1>1. PICK func \in {"ConnectEx", "DisconnectEx", "AcceptEx"} :
        /\ Give({Gift("any", func, "name", ThunkAt(Lowest(Anywhere(func))))})
        /\ UNCHANGED added /\ Asking
  BY DEF WSAIoctlExtension, Asking
<1>2. Anywhere(func) # {}
  <2>1. func \in DOMAIN Places  BY DefaultsAssumption
  <2> QED BY <2>1, PlacesFacts DEF Anywhere
<1>3. func \notin {ComNames[i] : i \in 1 .. 6}
  <2> SUFFICES ASSUME NEW i \in 1 .. 6 PROVE func # ComNames[i]  OBVIOUS
  <2> QED BY DEF ComNames
<1> QED BY <1>1, <1>2, <1>3, FirstGiven

LEMMA LoadProgramStep ==
    ASSUME MapperInv, NEW wide \in BOOLEAN, LoadProgram(wide)
    PROVE  MapperInv'
<1>1. /\ thunkBase' \in {"high", "low"} /\ granted' = NoGift
      /\ UNCHANGED <<added, com, comHere>>
  BY DEF LoadProgram
<1>2. TableRight' /\ TableGrown  BY <1>1, Unchanged DEF MapperInv
<1>3. ComRight'  BY <1>1, <1>2, ComKept DEF MapperInv
<1> QED BY <1>1, <1>2, <1>3 DEF MapperInv, GiftRight

LEMMA NewEngineStep ==
    ASSUME MapperInv, NewEngine
    PROVE  MapperInv'
<1>1. /\ added' = <<>> /\ thunkBase' = "high" /\ granted' = NoGift /\ comHere' = FALSE
      /\ com' = com
  BY DEF NewEngine
<1>2. TableRight'
  <2>1. added' \in Seq(Stub) /\ Len(added') = 0  BY <1>1
  <2>2. Len(Defaults) + 0 <= WG_MAPPER_CAPACITY
    BY DefaultFacts, DefaultsAssumption, MapperAssumption
  <2>3. Size' = Len(Defaults) + 0  BY <2>1 DEF Size
  <2> QED BY <2>1, <2>2, <2>3 DEF TableRight
<1> QED BY <1>1, <1>2 DEF MapperInv, ComRight, GiftRight

\* wg_build_fake_com: the first time, in the table of this engine.
LEMMA BuildComStep ==
    ASSUME MapperInv, BuildCom
    PROVE  MapperInv'
<1> DEFINE es == [i \in 1 .. 6 |-> Entry("COM", FALSE, ComNames[i], ComArgs[i])]
           R == wg_dll_mapper_register(es)
           methods == IF com = <<>> THEN R.thunks ELSE com
<1>1. /\ thunkBase = "low" /\ thunkBase' = thunkBase /\ com' = methods
      /\ added' = (IF com = <<>> THEN R.table ELSE added)
      /\ comHere' = (comHere \/ com = <<>>)
      /\ Give({Gift("COM", ComNames[i], "com", methods[i]) : i \in 1 .. 6})
  BY DEF BuildCom
<1>2. es \in Seq(Stub) /\ Len(es) = 6 /\ DOMAIN es = 1 .. 6
      /\ \A i \in 1 .. 6 : es[i].dll = "COM" /\ es[i].func = ComNames[i] /\ es[i].args = ComArgs[i]
  <2>1. ASSUME NEW i \in 1 .. 6 PROVE es[i] \in Stub
    <3>1. ComNames[i] \in Names /\ "COM" \in Names /\ ComArgs[i] \in Nat
      <4>1. ComNames[i] \in Names /\ "COM" \in Names  BY DEF Names
      <4>2. ComArgs[i] \in Nat  BY DEF ComArgs
      <4> QED BY <4>1, <4>2
    <3> QED BY <3>1 DEF Entry, Stub
  <2>2. DOMAIN es = 1 .. 6  OBVIOUS
  <2>3. \A i \in 1 .. 6 : es[i].dll = "COM" /\ es[i].func = ComNames[i] /\ es[i].args = ComArgs[i]
    BY DEF Entry
  <2>4. es \in [1 .. 6 -> Stub]  BY <2>1
  <2> HIDE DEF es
  <2>5. es \in UNION {[1 .. n -> Stub] : n \in Nat}  BY <2>4
  <2>6. es \in Seq(Stub)  BY <2>5, SeqDef, Zenon
  <2>7. Len(es) = 6
    <3>1. Len(es) \in Nat /\ DOMAIN es = 1 .. Len(es)  BY <2>6, LenProperties
    <3> QED BY <2>2, <3>1
  <2> QED BY <2>2, <2>3, <2>6, <2>7
<1> HIDE DEF es
<1>3. CASE com = <<>>
  <2>1. added' = R.table /\ com' = R.thunks /\ comHere' = TRUE  BY <1>1, <1>3
  <2>2. \A i \in 1 .. Len(es) : Proper(es[i])  BY <1>2 DEF Proper
  <2>3. /\ TableRight' /\ TableGrown
        /\ \A i \in 1 .. 6 : R.thunks[i] = NoThunk \/ \E n \in 1 .. WG_MAPPER_CAPACITY :
             R.thunks[i] = ThunkAt(n) /\ n \in 1 .. Size' /\ At(n)' = es[i]
    BY <1>2, <2>1, <2>2, Registered DEF MapperInv, R
  <2>4. DOMAIN R.thunks = 1 .. 6 /\ Len(R.thunks) = 6
    <3>1. R.thunks \in [1 .. 6 -> {R.thunks[i] : i \in 1 .. 6}]
      BY <1>2 DEF wg_dll_mapper_register
    <3> DEFINE T == R.thunks
               U == {T[i] : i \in 1 .. 6}
    <3>2. T \in [1 .. 6 -> U]  BY <3>1
    <3> HIDE DEF T, U
    <3>3. T \in UNION {[1 .. n -> U] : n \in Nat}  BY <3>2
    <3>4. T \in Seq(U)  BY <3>3, SeqDef, Zenon
    <3>5. DOMAIN T = 1 .. 6  BY <3>2
    <3>6. Len(T) \in Nat /\ DOMAIN T = 1 .. Len(T)  BY <3>4, LenProperties
    <3>7. Len(T) = 6  BY <3>5, <3>6
    <3> QED BY <3>5, <3>7 DEF T
  <2> HIDE DEF R
  <2>5. ASSUME NEW i \in 1 .. 6, com'[i] # NoThunk
        PROVE  LeadsToMethod(com[i], i)' /\ com'[i].at \in 1 .. WG_MAPPER_CAPACITY
               /\ com'[i].base = thunkBase'
    <3>1. PICK n \in 1 .. WG_MAPPER_CAPACITY :
             com'[i] = ThunkAt(n) /\ n \in 1 .. Size' /\ At(n)' = es[i]
      BY <2>1, <2>3, <2>5
    <3>2. com'[i].at = n /\ com'[i].base = "low"  BY <1>1, <3>1 DEF ThunkAt
    <3> QED BY <1>1, <1>2, <3>1, <3>2 DEF LeadsToMethod
  <2>6. com' # <<>>  BY <2>1, <2>4
  <2>7. ComRight'  BY <2>1, <2>4, <2>5, <2>6 DEF ComRight
  <2>8. CASE granted' = granted
    <3>1. GiftRight'  BY <1>1, <1>3, <2>3, <2>8, GiftKept DEF MapperInv
    <3> QED BY <1>1, <2>3, <2>7, <3>1 DEF MapperInv
  <2>9. ASSUME NEW i \in 1 .. 6, com'[i] # NoThunk,
               granted' = Gift("COM", ComNames[i], "com", com'[i])
        PROVE  MapperInv'
    <3>1. granted'.thunk = com'[i] /\ granted'.func = ComNames[i] /\ granted'.how = "com"
      BY <2>9 DEF Gift
    <3>2. Leads(granted)'
      <4>1. ComArgs[i] \in {ComArgs[k] : k \in {j \in 1 .. 6 : ComNames[j] = ComNames[i]}}
        OBVIOUS
      <4>2. LeadsToMethod(com[i], i)' /\ com'[i].base = thunkBase'  BY <2>5, <2>9
      <4> QED BY <1>1, <3>1, <4>1, <4>2 DEF Leads, LeadsToMethod
    <3>3. GiftRight'  BY <2>5, <2>6, <2>9, <3>1, <3>2 DEF GiftRight
    <3> QED BY <1>1, <2>3, <2>7, <3>3 DEF MapperInv
  <2>10. granted' = granted \/ \E i \in 1 .. 6 :
            com'[i] # NoThunk /\ granted' = Gift("COM", ComNames[i], "com", com'[i])
    BY <1>1 DEF Give, Gift
  <2> QED BY <2>8, <2>9, <2>10
<1>4. CASE com # <<>>
  <2>1. added' = added /\ com' = com /\ comHere' = comHere
    <3>1. comHere \in BOOLEAN /\ comHere' = (comHere \/ FALSE)  BY <1>1, <1>4 DEF MapperInv, ComRight
    <3>2. comHere' = comHere  BY <3>1, Zenon
    <3> QED BY <1>1, <1>4, <3>2
  <2>2. TableRight' /\ TableGrown  BY <2>1, Unchanged DEF MapperInv
  <2>3. ComRight'  BY <2>1, <2>2, ComKept DEF MapperInv
  <2>4. CASE granted' = granted
    <3>1. GiftRight'  BY <1>1, <2>1, <2>2, <2>4, GiftKept DEF MapperInv
    <3> QED BY <1>1, <2>2, <2>3, <3>1 DEF MapperInv
  <2>5. ASSUME NEW i \in 1 .. 6, com[i] # NoThunk,
               granted' = Gift("COM", ComNames[i], "com", com[i])
        PROVE  MapperInv'
    <3>1. granted'.thunk = com'[i] /\ granted'.func = ComNames[i] /\ granted'.how = "com"
      BY <2>1, <2>5 DEF Gift
    <3>2. com'[i].at \in 1 .. WG_MAPPER_CAPACITY  BY <1>4, <2>1, <2>5 DEF MapperInv, ComRight
    <3>3. ASSUME comHere' PROVE Leads(granted)'
      <4>1. LeadsToMethod(com[i], i)'  BY <2>1, <2>3, <2>5, <3>3 DEF ComRight
      <4>2. ComArgs[i] \in {ComArgs[k] : k \in {j \in 1 .. 6 : ComNames[j] = ComNames[i]}}
        OBVIOUS
      <4> QED BY <1>1, <3>1, <4>1, <4>2 DEF Leads, LeadsToMethod
    <3>4. GiftRight'  BY <1>4, <2>1, <3>1, <3>2, <3>3 DEF GiftRight
    <3> QED BY <1>1, <2>2, <2>3, <3>4 DEF MapperInv
  <2>6. granted' = granted \/ \E i \in 1 .. 6 :
            com[i] # NoThunk /\ granted' = Gift("COM", ComNames[i], "com", com[i])
    BY <1>1, <1>4 DEF Give, Gift
  <2> QED BY <2>4, <2>5, <2>6
<1> QED BY <1>3, <1>4

LEMMA MapperStep == MapperInv /\ [MapperNext]_mapperVars => MapperInv'
<1> SUFFICES ASSUME MapperInv, [MapperNext]_mapperVars PROVE MapperInv'  OBVIOUS
<1>1. CASE UNCHANGED mapperVars
  <2>1. Asking /\ UNCHANGED added /\ granted' = granted  BY <1>1 DEF mapperVars, Asking
  <2>2. TableRight' /\ TableGrown  BY <2>1, Unchanged DEF MapperInv
  <2> QED BY <2>1, <2>2, AskingKeeps
<1> QED BY <1>1, LoadProgramStep, ImportStep, GetProcAddressStep, GetProcOrdinalStep, WSAIoctlStep,
           BuildComStep, NewEngineStep DEF MapperNext

LEMMA MapperStarts == MapperInit => MapperInv
<1> SUFFICES ASSUME MapperInit PROVE MapperInv  OBVIOUS
<1>1. /\ added = <<>> /\ thunkBase = "high" /\ com = <<>> /\ comHere = FALSE
      /\ granted = NoGift
  BY DEF MapperInit
<1>2. TableRight
  <2>1. added \in Seq(Stub) /\ Len(added) = 0  BY <1>1
  <2>2. Len(Defaults) + 0 <= WG_MAPPER_CAPACITY
    BY DefaultFacts, DefaultsAssumption, MapperAssumption
  <2>3. Size = Len(Defaults) + 0  BY <2>1 DEF Size
  <2> QED BY <2>1, <2>2, <2>3 DEF TableRight
<1>3. ComRight
  <2>1. comHere \in BOOLEAN /\ ~ comHere  BY <1>1, Zenon
  <2>2. com = <<>>  BY <1>1
  <2> QED BY <2>1, <2>2 DEF ComRight
<1>4. GiftRight  BY <1>1 DEF GiftRight
<1> QED BY <1>1, <1>2, <1>3, <1>4 DEF MapperInv

\* MapperTypeOK of WGMapper: the table never outgrows its capacity, and an address that
\* is given out is one of its entries (wg_dll_mapper_register), for every capacity.
THEOREM MapperTyped == MapperSpec => []MapperTypeOK
<1>1. MapperInv => MapperTypeOK
  <2> SUFFICES ASSUME MapperInv PROVE MapperTypeOK  OBVIOUS
  <2>1. Len(com) \in {0, 6}
    <3>1. Len(<<>>) = 0  OBVIOUS
    <3> QED BY <3>1 DEF MapperInv, ComRight
  <2>2. NoGift.thunk = NoThunk  BY DEF NoGift, Gift
  <2> QED BY <2>1, <2>2 DEF MapperInv, TableRight, GiftRight, MapperTypeOK
<1> QED BY <1>1, MapperStarts, MapperStep, PTL DEF MapperSpec

\* StackBalanced of WGMapper: whoever asks for a function, by import, by name, by
\* ordinal, by WSAIoctl or through a COM object, gets the stub of that function, which
\* pops what the function takes, however many names are asked for and however full the
\* table is (wg_dll_mapper_resolve, wg_build_fake_com).
THEOREM StacksBalanced == MapperSpec => []StackBalanced
<1>1. MapperInv => StackBalanced
  BY OneCount DEF MapperInv, GiftRight, StackBalanced, ThunksLead
<1> QED BY <1>1, MapperStarts, MapperStep, PTL DEF MapperSpec

-----------------------------------------------------------------------------
(* The decoder: the forms.                                                 *)

\* What is known of a form, whatever the opcode.
Shape(f) ==
    /\ f.modrm \in BOOLEAN /\ f.rel \in BOOLEAN
    /\ f.imm \in {0, 1, 2, 4, 8}
    /\ f.modrm => f.imm \in {0, 1, 4}

LEMMA Makers ==
    ASSUME NEW op
    PROVE  /\ Shape(Plain(op)) /\ ~ Plain(op).modrm /\ Plain(op).imm = 0
           /\ Shape(Unknown) /\ ~ Unknown.modrm /\ Unknown.imm = 0
           /\ Shape(RM(op)) /\ RM(op).modrm /\ RM(op).imm = 0
           /\ \A n \in {1, 2, 4, 8} : Shape(Imm(op, n)) /\ ~ Imm(op, n).modrm
           /\ \A n \in {1, 4} : Shape(Rel(op, n)) /\ ~ Rel(op, n).modrm /\ Rel(op, n).imm = n
           /\ \A n \in {0, 1, 4} : Shape(RMImm(op, n)) /\ RMImm(op, n).modrm
  BY DEF Shape, Plain, Imm, Rel, RM, RMImm, Unknown

LEMMA SimpleShape ==
    ASSUME NEW opcode, NEW w \in BOOLEAN
    PROVE  Shape(Simple(opcode, w)) /\ ~ Simple(opcode, w).modrm
<1>1. Shape(OneByte(opcode)) /\ ~ OneByte(opcode).modrm
  BY Makers DEF OneByte
<1> QED BY <1>1, Makers DEF Simple

LEMMA GroupedShape ==
    ASSUME NEW opcode \in GroupedOpcodes, NEW reg
    PROVE  Shape(Grouped(opcode, reg)) /\ Grouped(opcode, reg).modrm
<1> DEFINE Fine(f) == Shape(f) /\ f.modrm
           n == IF reg > 1 THEN 0 ELSE IF opcode = \hF6 THEN 1 ELSE 4
<1>1. n \in {0, 1, 4}  OBVIOUS
<1>2. \A op : Fine(RM(op)) /\ Fine(RMImm(op, 1)) /\ Fine(RMImm(op, 4)) /\ Fine(RMImm(op, n))
  BY <1>1, Makers
<1>3. Grouped(opcode, reg) \in {RM(op) : op \in {"TEST", "MOV", "LEA", GroupC0[reg + 1], GroupFF[reg + 1]}}
        \cup {RMImm(Group80[reg + 1], 1), RMImm(Group80[reg + 1], 4), RMImm("MOV", 1),
              RMImm("MOV", 4), RMImm(GroupC0[reg + 1], 1), RMImm(GroupF6[reg + 1], n),
              RMImm("IMUL", 4), RMImm("IMUL", 1)}
  <2>1. CASE opcode \in \h80 .. \h83  BY <2>1 DEF Grouped
  <2>2. CASE opcode \in \h84 .. \h8B \cup {\h8D, \hC6, \hC7}  BY <2>2 DEF Grouped, GroupedOpcodes
  <2>3. CASE opcode \in {\hC0, \hC1}  BY <2>3 DEF Grouped
  <2>4. CASE opcode \in \hD0 .. \hD3  BY <2>4 DEF Grouped
  <2>5. CASE opcode \in {\hF6, \hF7}  BY <2>5 DEF Grouped
  <2>6. CASE opcode \in {\hFF, \h69, \h6B}  BY <2>6 DEF Grouped
  <2> QED BY <2>1, <2>2, <2>3, <2>4, <2>5, <2>6 DEF GroupedOpcodes
<1> HIDE DEF n, Fine
<1>4. Fine(Grouped(opcode, reg))  BY <1>2, <1>3
<1> QED BY <1>4 DEF Fine

LEMMA TwoByteShape ==
    ASSUME NEW op2
    PROVE  /\ Shape(TwoByte(op2)) /\ (TwoByte(op2).modrm => TwoByte(op2).imm = 0)
           /\ (~ TwoByte(op2).modrm => TwoByte(op2).imm \in {0, 4})
<1> DEFINE Fine(f) == /\ Shape(f) /\ (f.modrm => f.imm = 0)
                      /\ (~ f.modrm => f.imm \in {0, 4})
<1>1. \A op : Fine(RM(op)) /\ Fine(Plain(op))  BY Makers
<1>2. Fine(Rel("JCC", 4)) /\ Fine(Unknown)  BY Makers
<1>3. TwoByte(op2) \in {Rel("JCC", 4), Unknown, Plain("BSWAP"), Plain("SYSTEM")}
        \cup {RM(op) : op \in {"SETCC", "CMOVCC", "MOVZX", "MOVSX", "IMUL", "BIT_SCAN", "NOP", "VECTOR"}}
  BY DEF TwoByte
<1> HIDE DEF Fine
<1>4. Fine(TwoByte(op2))  BY <1>1, <1>2, <1>3
<1> QED BY <1>4 DEF Fine

LEMMA ArithmeticShape ==
    ASSUME NEW opcode
    PROVE  Shape(Arithmetic(opcode)) /\ (Arithmetic(opcode).modrm => Arithmetic(opcode).imm = 0)
  BY Makers DEF Arithmetic

-----------------------------------------------------------------------------
(* The decoder: what is read.                                              *)

\* Some n bytes at the start of buf are its prefixes.
IsLead(buf, n) ==
    /\ n \in 0 .. Len(buf)
    /\ \A i \in 1 .. n : buf[i] \in Legacy \cup Rex
    /\ n < Len(buf) => buf[n + 1] \notin Legacy \cup Rex

LEMMA PrefixIs ==
    ASSUME NEW buf \in Seq(0 .. 255)
    PROVE  /\ IsLead(buf, PrefixLength(buf))
           /\ \A n : IsLead(buf, n) => PrefixLength(buf) = n
<1> DEFINE S == {n \in 0 .. Len(buf) : n < Len(buf) => buf[n + 1] \notin Legacy \cup Rex}
<1>1. Len(buf) \in S  OBVIOUS
<1>2. PICK m \in S : \A k \in S : ~ (<<k, m>> \in OpToRel(<, Nat))
  <2>1. S \subseteq Nat  OBVIOUS
  <2> QED BY <1>1, <2>1, NatLessThanWellFounded, WFMin
<1>0. m \in Nat /\ S \subseteq Nat  OBVIOUS
<1>3. \A k \in S : m <= k
  <2> SUFFICES ASSUME NEW k \in S PROVE ~ (k < m)  BY <1>0
  <2>1. k \in Nat  BY <1>0
  <2> QED BY <1>0, <1>2, <2>1 DEF OpToRel
<1>4. \A i \in 1 .. m : buf[i] \in Legacy \cup Rex
  <2> SUFFICES ASSUME NEW i \in 1 .. m PROVE buf[i] \in Legacy \cup Rex  OBVIOUS
  <2>0. PICK l \in Nat : l = Len(buf)  OBVIOUS
  <2>1. i - 1 < m /\ i - 1 \in Nat /\ m <= l  BY <1>0, <2>0
  <2>3. i - 1 \notin S
    <3> SUFFICES ASSUME i - 1 \in S PROVE FALSE  OBVIOUS
    <3> HIDE DEF S
    <3>1. m <= i - 1  BY <1>3
    <3> QED BY <2>1, <3>1, <1>0
  <2>2. i - 1 \in 0 .. Len(buf) /\ i - 1 < Len(buf) /\ (i - 1) + 1 = i  BY <2>0, <2>1
  <2> QED BY <2>2, <2>3
<1>5. IsLead(buf, m)  BY <1>2, <1>4 DEF IsLead
<1>6. \A n, k : IsLead(buf, n) /\ IsLead(buf, k) => n = k
  <2> SUFFICES ASSUME NEW n, NEW k, IsLead(buf, n), IsLead(buf, k) PROVE ~ (n < k)
    BY DEF IsLead
  <2> SUFFICES ASSUME n < k PROVE FALSE  OBVIOUS
  <2>1. n + 1 \in 1 .. k /\ n < Len(buf)  BY DEF IsLead
  <2> QED BY <2>1 DEF IsLead
<1>7. \A n : n \in 0 .. Len(buf) /\ (\A i \in 1 .. n : buf[i] \in Legacy \cup Rex)
              /\ (n < Len(buf) => buf[n + 1] \notin Legacy \cup Rex) <=> IsLead(buf, n)
  BY DEF IsLead
<1>8. IsLead(buf, PrefixLength(buf))
  BY <1>5, <1>7 DEF PrefixLength
<1> QED BY <1>6, <1>8

LEMMA ByteTyped ==
    ASSUME NEW buf \in Seq(0 .. 255), NEW p \in Nat
    PROVE  byte(buf, p) \in 0 .. 255
<1>1. CASE p < Len(buf)
  <2>2. PICK l \in Nat : l = Len(buf)  OBVIOUS
  <2>1. p + 1 \in 1 .. Len(buf)  BY <1>1, <2>2
  <2> QED BY <1>1, <2>1, ElementOfSeq DEF byte
<1>2. CASE ~ (p < Len(buf))  BY <1>2 DEF byte
<1> QED BY <1>1, <1>2

\* What LengthsRight calls whole.
FormOf(buf)   == FormAt(buf, PrefixLength(buf), RexW(buf, PrefixLength(buf)))
OperandOf(buf) == OperandLength(byte(buf, FormOf(buf).next), byte(buf, FormOf(buf).next + 1))
Whole(buf)    == FormOf(buf).next + FormOf(buf).form.imm
                   + (IF FormOf(buf).form.modrm THEN OperandOf(buf) ELSE 0)

\* A form has its shape, behind its opcode.
LEMMA FormShape ==
    ASSUME NEW buf \in Seq(0 .. 255), NEW n \in 0 .. Len(buf), n < Len(buf), NEW w \in BOOLEAN
    PROVE  LET f == FormAt(buf, n, w)
           IN  /\ Shape(f.form)
               /\ f.next \in (n + 1) .. (n + 2) /\ f.next <= Len(buf)
               /\ f.next = n + 2 => ((f.form.modrm => f.form.imm = 0)
                                      /\ (~ f.form.modrm => f.form.imm \in {0, 4}))
<1>1. fetch(buf, n, 1) = n + 1  BY DEF fetch
<1>2. fetch(buf, n + 1, 1) \in (n + 1) .. (n + 2) /\ fetch(buf, n + 1, 1) <= Len(buf)  BY DEF fetch
<1>3. CASE byte(buf, n) = \h0F
  <2>1. FormAt(buf, n, w) = [form |-> TwoByte(byte(buf, n + 1)), next |-> fetch(buf, n + 1, 1)]
    BY <1>1, <1>3 DEF FormAt
  <2> QED BY <1>2, <2>1, TwoByteShape
<1>4. CASE byte(buf, n) # \h0F
  <2> DEFINE opcode == byte(buf, n)
             reg == (byte(buf, n + 1) \div 8) % 8
  <2>1. FormAt(buf, n, w).next = n + 1  BY <1>1, <1>4 DEF FormAt
  <2>2. FormAt(buf, n, w).form = IF opcode < \h40 /\ opcode % 8 < 6 THEN Arithmetic(opcode)
                       ELSE IF opcode \in GroupedOpcodes THEN Grouped(opcode, reg)
                       ELSE Simple(opcode, w)
    BY <1>1, <1>4 DEF FormAt
  <2> HIDE DEF opcode, reg
  <2>3. Shape(FormAt(buf, n, w).form)  BY <2>2, ArithmeticShape, GroupedShape, SimpleShape
  <2> QED BY <2>1, <2>3
<1> QED BY <1>3, <1>4

LEMMA RexWTyped ==
    ASSUME NEW buf, NEW n PROVE RexW(buf, n) \in BOOLEAN
  BY DEF RexW

LEMMA OperandLengths ==
    ASSUME NEW m \in 0 .. 255, NEW s \in 0 .. 255
    PROVE  OperandLength(m, s) \in 1 .. 6
  BY DEF OperandLength

\* A whole instruction that is there is decoded as such.
LEMMA DecodedWhole ==
    ASSUME NEW buf \in Seq(0 .. 255), PrefixLength(buf) < Len(buf), Whole(buf) <= Len(buf)
    PROVE  LET d == wg_x86_decode(buf)
           IN  /\ d.length = Whole(buf) /\ d.branch \in {0, Whole(buf)}
               /\ d.imm = 0 => d.rip \in {0, Whole(buf)}
               /\ Whole(buf) \in Nat /\ Whole(buf) > PrefixLength(buf)
<1> DEFINE n == PrefixLength(buf)
           f == FormOf(buf)
           p == f.next
           m == byte(buf, p)
           mod == m \div 64
           rm == m % 8
           s == byte(buf, p + 1)
           mem == decode_modrm_mem(buf, p)
           next == IF f.form.modrm THEN mem.next ELSE p
           last == IF f.form.imm = 8 THEN fetch(buf, fetch(buf, next, 4), 4)
                   ELSE fetch(buf, next, f.form.imm)
<1>0. PICK l \in Nat : l = Len(buf)  OBVIOUS
<1>1. n \in 0 .. Len(buf) /\ n < Len(buf)  BY PrefixIs DEF IsLead
<1>2. /\ Shape(f.form) /\ p \in (n + 1) .. (n + 2) /\ p <= Len(buf)
      /\ f = FormAt(buf, n, RexW(buf, n))
  BY <1>1, FormShape, RexWTyped DEF FormOf
<1>3. p \in Nat /\ p + 1 \in Nat /\ p <= l /\ n \in Nat /\ p > n  BY <1>0, <1>1, <1>2
<1>4. m \in 0 .. 255 /\ s \in 0 .. 255 /\ OperandOf(buf) = OperandLength(m, s)
  BY <1>3, ByteTyped DEF OperandOf
<1>5. OperandLength(m, s) \in 1 .. 6  BY <1>4, OperandLengths
<1>6. PICK i \in {0, 1, 2, 4, 8} : i = f.form.imm  BY <1>2 DEF Shape
<1>7. Whole(buf) = p + i + (IF f.form.modrm THEN OperandLength(m, s) ELSE 0)
  BY <1>4, <1>6 DEF Whole
<1>8. ~ (n >= Len(buf))  BY <1>0, <1>1
<1>9. wg_x86_decode(buf) =
         [length |-> last, op |-> f.form.op,
          branch |-> IF f.form.rel THEN last ELSE 0,
          rip    |-> IF f.form.modrm /\ mem.base = RipBase THEN mem.from ELSE 0,
          imm    |-> f.form.imm]
  BY <1>2, <1>8 DEF wg_x86_decode
<1>10. Whole(buf) <= l  BY <1>0
<1>11. f.form.modrm \in BOOLEAN  BY <1>2 DEF Shape
<1> HIDE DEF n, f, p, m, s, mem, next, last
<1>12. ASSUME f.form.modrm
       PROVE  /\ mem.next = p + OperandLength(m, s)
              /\ mem.from <= mem.next /\ (mem.base = RipBase => mem.from = mem.next)
  <2>1. p + OperandLength(m, s) <= l  BY <1>3, <1>5, <1>6, <1>7, <1>10, <1>12, SMTT(30)
  <2>2. fetch(buf, p, 1) = p + 1  BY <1>0, <1>3, <1>5, <2>1 DEF fetch
  <2>3. mod \in 0 .. 3 /\ rm \in 0 .. 7 /\ s % 8 \in 0 .. 7  BY <1>4
  <2>4. mem = decode_modrm_mem(buf, p)  BY DEF mem
  <2> DEFINE p2 == IF rm = 4 THEN fetch(buf, p + 1, 1) ELSE p + 1
             bare == mod = 0 /\ (rm = 5 \/ (rm = 4 /\ s % 8 = 5))
             p3 == IF bare THEN fetch(buf, p2, 4) ELSE p2
  <2>5. mem = IF mod = 3 THEN [next |-> p + 1, base |-> NoBase, from |-> p + 1]
        ELSE [next |-> CASE mod = 1 -> fetch(buf, p3, 1)
                         [] mod = 2 -> fetch(buf, p3, 4)
                         [] OTHER   -> p3,
              base |-> IF mod = 0 /\ rm = 5 THEN RipBase ELSE NoBase,
              from |-> p3]
    BY <2>2, <2>4 DEF decode_modrm_mem, m, s
  <2>6. OperandLength(m, s) = IF mod = 3 THEN 1
        ELSE 1 + (IF rm = 4 THEN 1 ELSE 0)
               + (CASE mod = 1 -> 1 [] mod = 2 -> 4
                    [] OTHER -> IF rm = 5 \/ (rm = 4 /\ s % 8 = 5) THEN 4 ELSE 0)
    BY DEF OperandLength
  <2> HIDE DEF mod, rm
  <2>7. CASE mod = 3
    <3>1. mem = [next |-> p + 1, base |-> NoBase, from |-> p + 1]  BY <2>5, <2>7
    <3> QED BY <1>3, <2>6, <2>7, <3>1 DEF NoBase, RipBase
  <2>8. CASE mod # 3
    <3>1. p2 = IF rm = 4 THEN p + 2 ELSE p + 1
      BY <1>0, <1>3, <2>1, <2>3, <2>6, <2>8 DEF fetch
    <3>2. p3 = IF bare THEN p2 + 4 ELSE p2
      BY <1>0, <1>3, <2>1, <2>3, <2>6, <2>8, <3>1 DEF fetch
    <3> HIDE DEF p2, bare, p3
    <3>3. mem.next = CASE mod = 1 -> fetch(buf, p3, 1)
                         [] mod = 2 -> fetch(buf, p3, 4)
                         [] OTHER   -> p3
      BY <2>5, <2>8
    <3>4. mem.base = (IF mod = 0 /\ rm = 5 THEN RipBase ELSE NoBase) /\ mem.from = p3
      BY <2>5, <2>8
    <3>5. CASE mod = 0
      <4>1. mem.next = p3  BY <3>3, <3>5
      <4>2. p3 = p + OperandLength(m, s)
        BY <1>3, <2>3, <2>6, <2>8, <3>1, <3>2, <3>5 DEF bare
      <4> QED BY <3>4, <4>1, <4>2, <1>3, <1>5
    <3>6. CASE mod \in {1, 2}
      <4>1. p3 = p2 /\ p2 \in Nat  BY <1>3, <3>1, <3>2, <3>6 DEF bare
      <4>2. p + OperandLength(m, s) = p2 + (IF mod = 1 THEN 1 ELSE 4)
        BY <1>3, <2>6, <2>8, <3>1, <3>6
      <4>3. mem.next = p2 + (IF mod = 1 THEN 1 ELSE 4)
        BY <1>0, <2>1, <3>3, <3>6, <4>1, <4>2 DEF fetch
      <4>4. mem.base = NoBase  BY <3>4, <3>6
      <4> QED BY <3>4, <4>1, <4>2, <4>3, <4>4 DEF NoBase, RipBase
    <3> QED BY <2>3, <2>8, <3>5, <3>6
  <2> QED BY <2>7, <2>8
<1>13. next \in Nat /\ next + i = Whole(buf) /\ next >= p
  BY <1>3, <1>5, <1>6, <1>7, <1>12, <1>11 DEF next
<1>14. last = Whole(buf)
  BY <1>0, <1>6, <1>10, <1>13 DEF last, fetch
<1>15. Whole(buf) \in Nat /\ Whole(buf) > n  BY <1>3, <1>6, <1>13
<1>16. /\ wg_x86_decode(buf).length = last /\ wg_x86_decode(buf).branch \in {0, last}
       /\ wg_x86_decode(buf).rip = (IF f.form.modrm /\ mem.base = RipBase THEN mem.from ELSE 0)
       /\ wg_x86_decode(buf).imm = i
  BY <1>6, <1>9
<1>17. i = 0 => wg_x86_decode(buf).rip \in {0, Whole(buf)}
  <2> SUFFICES ASSUME i = 0, f.form.modrm, mem.base = RipBase
               PROVE mem.from = Whole(buf)
    BY <1>16
  <2> QED BY <1>12, <1>13 DEF next
<1> QED BY <1>14, <1>15, <1>16, <1>17 DEF n

\* What is cut off behind an instruction changes nothing of it.
LEMMA CutSame ==
    ASSUME NEW buf \in Seq(0 .. 255), PrefixLength(buf) < Len(buf),
           Whole(buf) \in 1 .. Len(buf) - 1, PrefixLength(buf) < Whole(buf)
    PROVE  LET cut == SubSeq(buf, 1, Whole(buf))
           IN  /\ cut \in Seq(0 .. 255) /\ Len(cut) = Whole(buf)
               /\ PrefixLength(cut) = PrefixLength(buf) /\ Whole(cut) = Whole(buf)
<1> DEFINE n == PrefixLength(buf)
           L == Whole(buf)
           cut == SubSeq(buf, 1, L)
           f == FormOf(buf)
           p == f.next
<1>0. PICK l \in Nat : l = Len(buf)  OBVIOUS
<1>1. n \in 0 .. l /\ n < l /\ IsLead(buf, n)  BY <1>0, PrefixIs DEF IsLead
<1>2. L \in 1 .. l - 1 /\ n < L /\ n \in Nat /\ L \in Nat  BY <1>0, <1>1
<1>3. cut \in Seq(0 .. 255) /\ Len(cut) = L /\ \A i \in 1 .. L : cut[i] = buf[i]
  <2> HIDE DEF L, cut
  <2>1. L \in Int /\ 1 \in Int /\ 1 <= L /\ L <= l  BY <1>2
  <2>2. \A i \in 1 .. L : buf[i] \in 0 .. 255
    <3>1. ASSUME NEW i \in 1 .. L PROVE i \in 1 .. Len(buf)  BY <1>0, <2>1
    <3>2. buf \in Seq(0 .. 255)  OBVIOUS
    <3> QED BY ONLY <3>1, <3>2, ElementOfSeq
  <2>3. cut = SubSeq(buf, 1, L)  BY DEF cut
  <2>4. /\ cut \in Seq(0 .. 255) /\ Len(cut) = (IF 1 <= L THEN L - 1 + 1 ELSE 0)
        /\ \A i \in 1 .. L - 1 + 1 : cut[i] = buf[1 + i - 1]
    BY ONLY <2>1, <2>2, <2>3, SubSeqProperties
  <2>5. Len(cut) = L /\ \A i \in 1 .. L : cut[i] = buf[i]  BY <2>1, <2>4
  <2> QED BY <2>4, <2>5
<1>4. IsLead(cut, n)
  <2>1. n \in 0 .. Len(cut) /\ n + 1 \in 1 .. L  BY <1>2, <1>3
  <2>2. \A i \in 1 .. n : i \in 1 .. L  BY <1>2
  <2>3. cut[n + 1] \notin Legacy \cup Rex  BY <1>0, <1>1, <1>3, <2>1 DEF IsLead
  <2>4. \A i \in 1 .. n : cut[i] \in Legacy \cup Rex  BY <1>1, <1>3, <2>2 DEF IsLead
  <2> QED BY <2>1, <2>3, <2>4 DEF IsLead
<1>5. PrefixLength(cut) = n  BY <1>3, <1>4, PrefixIs
<1>6. \A k \in Nat : k < L => byte(cut, k) = byte(buf, k)
  <2> SUFFICES ASSUME NEW k \in Nat, k < L PROVE byte(cut, k) = byte(buf, k)  OBVIOUS
  <2>1. k + 1 \in 1 .. L /\ k < l  BY <1>2
  <2> QED BY <1>0, <1>3, <2>1 DEF byte
<1>7. \A k \in Nat, x \in {0, 1} : k + x <= L => fetch(cut, k, x) = fetch(buf, k, x)
  BY <1>0, <1>2, <1>3 DEF fetch
<1>8. RexW(cut, n) = RexW(buf, n)
  <2> DEFINE R == {i \in 1 .. n : buf[i] \in Rex}
             c == CHOOSE i \in R : \A j \in R : j <= i
  <2>1. R = {i \in 1 .. n : cut[i] \in Rex}
    <3>1. \A i \in 1 .. n : cut[i] = buf[i]  BY <1>2, <1>3
    <3> QED BY <3>1
  <2>2. RexW(buf, n) = (R # {} /\ (buf[c] \div 8) % 2 = 1)  BY DEF RexW
  <2>3. RexW(cut, n) = (R # {} /\ (cut[c] \div 8) % 2 = 1)  BY <2>1 DEF RexW
  <2>4. R # {} => c \in 1 .. n
    <3> SUFFICES ASSUME R # {} PROVE c \in 1 .. n  OBVIOUS
    <3> DEFINE D == {n - i : i \in R}
    <3>1. D \subseteq Nat /\ D # {}  BY <1>2
    <3>2. PICK d \in D : \A e \in D : ~ (<<e, d>> \in OpToRel(<, Nat))
      <4> HIDE DEF D
      <4> QED BY <3>1, NatLessThanWellFounded, WFMin
    <3>3. PICK m \in R : d = n - m  OBVIOUS
    <3>4. ASSUME NEW j \in R PROVE j <= m
      <4> SUFFICES ASSUME m < j PROVE FALSE  BY <1>2
      <4>1. n - j \in D  OBVIOUS
      <4>2. n - j < d /\ n - j \in Nat /\ d \in Nat  BY <1>2, <3>3, SMTT(30)
      <4> QED BY <3>2, <4>1, <4>2 DEF OpToRel
    <3>5. c \in R  BY <3>4
    <3> QED BY <3>5
  <2>5. R # {} => cut[c] = buf[c]
    <3>1. \A i \in 1 .. n : cut[i] = buf[i]  BY <1>2, <1>3
    <3> HIDE DEF R, c
    <3> QED BY <2>4, <3>1
  <2> HIDE DEF R, c
  <2>6. CASE R = {}  BY <2>2, <2>3, <2>6, Zenon
  <2>7. CASE R # {}
    <3>1. cut[c] = buf[c]  BY <2>5, <2>7
    <3>2. ((cut[c] \div 8) % 2 = 1) = ((buf[c] \div 8) % 2 = 1)  BY <3>1, Zenon
    <3> QED BY <2>2, <2>3, <3>2, Zenon
  <2> QED BY <2>6, <2>7, Zenon
<1>9. FormOf(cut) = FormAt(cut, n, RexW(buf, n)) /\ f = FormAt(buf, n, RexW(buf, n))
  BY <1>5, <1>8 DEF FormOf
<1>10. /\ Shape(f.form) /\ p \in (n + 1) .. (n + 2) /\ p <= l
  BY <1>0, <1>1, <1>9, FormShape, RexWTyped
<1>11. PICK q \in Nat : q = p /\ q > n  BY <1>2, <1>10
<1>12. byte(buf, q) \in 0 .. 255 /\ byte(buf, q + 1) \in 0 .. 255 /\ OperandOf(buf) \in 1 .. 6
      /\ OperandOf(buf) = OperandLength(byte(buf, q), byte(buf, q + 1))
  <2>1. byte(buf, q) \in 0 .. 255 /\ byte(buf, q + 1) \in 0 .. 255  BY ByteTyped
  <2>2. OperandOf(buf) = OperandLength(byte(buf, q), byte(buf, q + 1))  BY <1>11 DEF OperandOf
  <2> HIDE DEF f, p
  <2> QED BY <2>1, <2>2, OperandLengths
<1>13. PICK i \in {0, 1, 2, 4, 8} : i = f.form.imm  BY <1>10 DEF Shape
<1>14. L = q + i + (IF f.form.modrm THEN OperandOf(buf) ELSE 0) /\ f.form.modrm \in BOOLEAN
  BY <1>10, <1>11, <1>13 DEF Whole, Shape
<1>15. q <= L /\ (f.form.modrm => q + OperandOf(buf) <= L)
  <2> DEFINE o == OperandOf(buf)
             b == f.form.modrm
  <2>1. o \in 1 .. 6  BY <1>12
  <2>2. L = q + i + (IF b THEN o ELSE 0) /\ b \in BOOLEAN  BY <1>14
  <2>3. L \in Nat  BY <1>2
  <2> HIDE DEF o, b, L
  <2>4. q <= L /\ (b => q + o <= L)  BY <2>1, <2>2, <2>3
  <2> QED BY <2>4 DEF o, b
<1>16. FormOf(cut) = f
  <2>1. byte(cut, n) = byte(buf, n)  BY <1>2, <1>6
  <2>2. fetch(cut, n, 1) = n + 1 /\ fetch(buf, n, 1) = n + 1  BY <1>0, <1>1, <1>2, <1>3 DEF fetch
  <2>3. CASE byte(buf, n) = \h0F
    <3>1. f = [form |-> TwoByte(byte(buf, n + 1)), next |-> fetch(buf, n + 1, 1)]
      BY <1>9, <2>2, <2>3 DEF FormAt
    <3>2. FormOf(cut) = [form |-> TwoByte(byte(cut, n + 1)), next |-> fetch(cut, n + 1, 1)]
      BY <1>9, <2>1, <2>2, <2>3 DEF FormAt
    <3>3. q = n + 2
      BY <1>0, <1>2, <1>11, <1>15, <3>1 DEF fetch
    <3>4. n + 1 < L /\ n + 1 \in Nat  BY <1>2, <1>15, <3>3
    <3>5. byte(cut, n + 1) = byte(buf, n + 1)  BY <1>6, <3>4
    <3>6. fetch(cut, n + 1, 1) = fetch(buf, n + 1, 1)  BY <1>2, <1>7, <3>4
    <3> QED BY <3>1, <3>2, <3>5, <3>6
  <2>4. CASE byte(buf, n) # \h0F
    <3> DEFINE o == byte(buf, n)
               reg(b) == (byte(b, n + 1) \div 8) % 8
               form(b) == IF o < \h40 /\ o % 8 < 6 THEN Arithmetic(o)
                       ELSE IF o \in GroupedOpcodes THEN Grouped(o, reg(b))
                       ELSE Simple(o, RexW(buf, n))
    <3>1. f = [form |-> form(buf), next |-> n + 1]  BY <1>9, <2>2, <2>4 DEF FormAt
    <3>2. FormOf(cut) = [form |-> form(cut), next |-> n + 1]
      BY <1>9, <2>1, <2>2, <2>4 DEF FormAt
    <3>3. ASSUME o \in GroupedOpcodes, ~ (o < \h40 /\ o % 8 < 6) PROVE reg(cut) = reg(buf)
      <4>1. f.form = Grouped(o, reg(buf))  BY <3>1, <3>3
      <4>2. f.form.modrm  BY <3>3, <4>1, GroupedShape
      <4>3. q = n + 1  BY <1>11, <3>1
      <4>4. n + 1 < L /\ n + 1 \in Nat  BY <1>2, <1>12, <1>15, <4>2, <4>3
      <4> QED BY <1>6, <4>4
    <3> HIDE DEF o, reg
    <3>4. form(cut) = form(buf)  BY <3>3
    <3> QED BY <3>1, <3>2, <3>4
  <2> QED BY <2>3, <2>4
<1>17. f.form.modrm => OperandOf(cut) = OperandOf(buf)
  <2> SUFFICES ASSUME f.form.modrm PROVE OperandOf(cut) = OperandOf(buf)  OBVIOUS
  <2>1. q < L  BY <1>2, <1>12, <1>15
  <2>2. byte(cut, q) = byte(buf, q)  BY <1>6, <2>1
  <2>3. OperandOf(cut) = OperandLength(byte(buf, q), byte(cut, q + 1))
    BY <1>11, <1>16, <2>2 DEF OperandOf
  <2>4. CASE q + 1 < L
    <3>1. byte(cut, q + 1) = byte(buf, q + 1)  BY <1>6, <2>4
    <3> QED BY <1>12, <2>3, <3>1
  <2>5. CASE ~ (q + 1 < L)
    <3>1. OperandOf(buf) = 1  BY <1>2, <1>12, <1>15, <2>5
    <3> DEFINE m == byte(buf, q)
    <3> HIDE DEF m
    <3>2. \A s : OperandLength(m, s) = 1 \/ OperandLength(m, s) # OperandOf(buf)  BY <3>1
    <3>3. m \div 64 = 3 \/ (m % 8 # 4 /\ m \div 64 \notin {1, 2} /\ m % 8 # 5)
      BY <1>12, <3>1 DEF OperandLength, m
    <3>4. \A s : OperandLength(m, s) = 1  BY <3>3 DEF OperandLength
    <3> QED BY <2>3, <3>1, <3>4 DEF m
  <2> QED BY <2>4, <2>5
<1>18. Whole(cut) = L
  BY <1>11, <1>13, <1>14, <1>16, <1>17 DEF Whole
<1> QED BY <1>3, <1>5, <1>18

-----------------------------------------------------------------------------
(* The decoder: the invariant.                                             *)

\* What was decoded is the decoding of the bytes at hand, and those hold it whole.
DecodeInv ==
    /\ code \in Seq(0 .. 255) /\ instruction = wg_x86_decode(code)
    /\ \/ code = <<>>
       \/ PrefixLength(code) < Len(code) /\ Whole(code) <= Len(code)

LEMMA DecodedNothing == wg_x86_decode(<<>>).length = 0
<1>1. <<>> \in Seq(0 .. 255) /\ Len(<<>>) = 0  OBVIOUS
<1>2. PrefixLength(<<>>) \in 0 .. 0  BY <1>1, PrefixIs DEF IsLead
<1> QED BY <1>1, <1>2 DEF wg_x86_decode

LEMMA DecodeOneKeeps == DecodeInv /\ DecodeOne => DecodeInv'
<1> SUFFICES ASSUME DecodeInv, DecodeOne PROVE DecodeInv'  OBVIOUS
<1>1. PICK prefix \in LeadBytes, opcode \in 0 .. 255, modrm \in ModRMs, sib \in Sibs :
        /\ opcode \notin Legacy \cup Rex
        /\ code' = prefix \o <<opcode, modrm, sib>> \o Filler(12)
  BY DEF DecodeOne
<1>2. PICK buf : buf = code'  OBVIOUS
<1>3. prefix \in Seq(0 .. 255) /\ modrm \in 0 .. 255 /\ sib \in 0 .. 255  BY DecodeAssumption
<1>4. Filler(12) \in Seq(0 .. 255) /\ Len(Filler(12)) = 12
  <2>1. Filler(12) \in [1 .. 12 -> 0 .. 255]  BY DEF Filler
  <2> QED BY <2>1, SeqDef, LenProperties DEF Filler
<1>5. <<opcode, modrm, sib>> \in Seq(0 .. 255) /\ Len(<<opcode, modrm, sib>>) = 3  BY <1>3
<1>6. PICK n \in Nat : n = Len(prefix)  BY <1>3
<1> DEFINE head == prefix \o <<opcode, modrm, sib>>
<1>7. /\ head \in Seq(0 .. 255) /\ Len(head) = n + 3
      /\ \A j \in 1 .. n : head[j] = prefix[j]
      /\ head[n + 1] = opcode
  BY <1>3, <1>5, <1>6
<1>8. /\ buf \in Seq(0 .. 255) /\ Len(buf) = n + 15
      /\ \A j \in 1 .. n + 3 : buf[j] = head[j]
  <2> HIDE DEF head
  <2>1. buf = head \o Filler(12)  BY <1>1, <1>2 DEF head
  <2>2. head \in Seq(0 .. 255) /\ Len(head) = n + 3  BY <1>7
  <2>3. PICK fill \in Seq(0 .. 255) : fill = Filler(12) /\ Len(fill) = 12  BY <1>4
  <2>4. buf = head \o fill  BY <2>1, <2>3
  <2>5. buf \in Seq(0 .. 255) /\ Len(buf) = Len(head) + Len(fill)  BY <2>2, <2>3, <2>4, ConcatProperties
  <2>6. \A j \in 1 .. Len(head) : buf[j] = head[j]  BY <2>2, <2>3, <2>4, ConcatProperties
  <2> QED BY <2>2, <2>3, <2>5, <2>6
<1>9. buf[n + 1] = opcode  BY <1>7, <1>8
<1>10. PrefixLength(buf) \in 0 .. n
  <2>1. IsLead(buf, PrefixLength(buf))  BY <1>8, PrefixIs
  <2>2. PICK k \in Nat : k = PrefixLength(buf)  BY <2>1 DEF IsLead
  <2>3. ASSUME k > n PROVE FALSE
    <3>1. n + 1 \in 1 .. k  BY <2>3
    <3> QED BY <1>1, <1>9, <2>1, <2>2, <3>1 DEF IsLead
  <2> QED BY <2>2, <2>3
<1>11. Whole(buf) <= Len(buf)
  <2> DEFINE k == PrefixLength(buf)
             f == FormOf(buf)
  <2>1. k \in 0 .. n /\ k < Len(buf) /\ k \in 0 .. Len(buf)  BY <1>8, <1>10
  <2>2. /\ Shape(f.form) /\ f.next \in (k + 1) .. (k + 2)
        /\ f.next = k + 2 => ((f.form.modrm => f.form.imm = 0)
                               /\ (~ f.form.modrm => f.form.imm \in {0, 4}))
    BY <1>8, <2>1, FormShape, RexWTyped DEF FormOf
  <2>3. PICK q \in Nat : q = f.next  BY <2>1, <2>2
  <2>4. byte(buf, q) \in 0 .. 255 /\ byte(buf, q + 1) \in 0 .. 255
    <3>1. buf \in Seq(0 .. 255) /\ q \in Nat /\ q + 1 \in Nat  BY <1>8
    <3> QED BY ONLY <3>1, ByteTyped
  <2>5. OperandOf(buf) \in 1 .. 6
    <3>1. OperandOf(buf) = OperandLength(byte(buf, q), byte(buf, q + 1))  BY <2>3 DEF OperandOf
    <3> QED BY <2>4, <3>1, OperandLengths
  <2>6. PICK i \in {0, 1, 2, 4, 8} : i = f.form.imm /\ (f.form.modrm => i \in {0, 1, 4})
    BY <2>2 DEF Shape
  <2> DEFINE b == f.form.modrm
             o == OperandOf(buf)
  <2>7. Whole(buf) = q + i + (IF b THEN o ELSE 0) /\ b \in BOOLEAN
    BY <2>2, <2>3, <2>6 DEF Whole, Shape
  <2>8. q \in (k + 1) .. (k + 2) /\ (b => i \in {0, 1, 4}) /\ o \in 1 .. 6
        /\ (q = k + 2 => ((b => i = 0) /\ (~ b => i \in {0, 4})))
    BY <2>2, <2>3, <2>5, <2>6
  <2> HIDE DEF b, o, k
  <2> QED BY <1>8, <2>1, <2>7, <2>8
<1>12. instruction' = wg_x86_decode(code')  BY DEF DecodeOne
<1> QED BY <1>2, <1>8, <1>10, <1>11, <1>12 DEF DecodeInv

LEMMA DecodeInductive == DecodeInv /\ [DecodeNext]_decodeVars => DecodeInv'
<1> SUFFICES ASSUME DecodeInv, [DecodeNext]_decodeVars PROVE DecodeInv'  OBVIOUS
<1>1. CASE DecodeOne  BY <1>1, DecodeOneKeeps
<1>2. CASE DecodeAgain
  <2>1. instruction.length \in 1 .. Len(code) - 1  BY <1>2 DEF DecodeAgain
  <2>2. code \in Seq(0 .. 255) /\ code # <<>>  BY <2>1, DecodedNothing DEF DecodeInv
  <2>3. PrefixLength(code) < Len(code) /\ Whole(code) <= Len(code)  BY <2>2 DEF DecodeInv
  <2>4. instruction.length = Whole(code) /\ Whole(code) > PrefixLength(code)
    BY <2>2, <2>3, DecodedWhole DEF DecodeInv
  <2>5. PICK cut : cut = code' /\ cut = SubSeq(code, 1, Whole(code))  BY <1>2, <2>4 DEF DecodeAgain
  <2>6. PrefixLength(code) \in Nat /\ Whole(code) \in Nat  BY <2>1, <2>2, <2>4, PrefixIs DEF IsLead
  <2>7. PrefixLength(code) < Whole(code)  BY <2>4, <2>6
  <2>8. /\ cut \in Seq(0 .. 255) /\ Len(cut) = Whole(code)
        /\ PrefixLength(cut) = PrefixLength(code) /\ Whole(cut) = Whole(code)
    BY <2>1, <2>2, <2>3, <2>4, <2>5, <2>7, CutSame
  <2>9. instruction' = wg_x86_decode(cut)  BY <1>2, <2>5 DEF DecodeAgain
  <2> QED BY <2>5, <2>6, <2>7, <2>8, <2>9 DEF DecodeInv
<1>3. CASE UNCHANGED decodeVars  BY <1>3 DEF DecodeInv, decodeVars
<1> QED BY <1>1, <1>2, <1>3 DEF DecodeNext

THEOREM DecodeInvariant == DecodeSpec => []DecodeInv
<1>1. DecodeInit => DecodeInv  BY DEF DecodeInit, DecodeInv
<1> QED BY <1>1, DecodeInductive, PTL DEF DecodeSpec

\* An instruction is never longer than the bytes it was decoded from, whatever
\* the prefixes and operands (wg_x86_decode).
THEOREM DecodeTyped == DecodeSpec => []DecodeTypeOK
<1>1. DecodeInv => DecodeTypeOK
  <2> SUFFICES ASSUME DecodeInv PROVE DecodeTypeOK  OBVIOUS
  <2>1. CASE code = <<>>
    BY <2>1, DecodedNothing DEF DecodeInv, DecodeTypeOK
  <2>2. CASE code # <<>>
    <3>1. code \in Seq(0 .. 255) /\ PrefixLength(code) < Len(code) /\ Whole(code) <= Len(code)
      BY <2>2 DEF DecodeInv
    <3>2. wg_x86_decode(code).length = Whole(code) /\ Whole(code) \in Nat  BY <3>1, DecodedWhole
    <3> QED BY <3>1, <3>2 DEF DecodeInv, DecodeTypeOK
  <2> QED BY <2>1, <2>2
<1> QED BY <1>1, DecodeInvariant, PTL

\* An instruction is exactly as long as its prefixes, opcode, operand and immediate
\* are together, also when the buffer ends right behind it, and a branch counts
\* from there (wg_x86_decode, decode_modrm_mem).
THEOREM LengthsAlwaysRight == DecodeSpec => []LengthsRight
<1>1. DecodeInv => LengthsRight
  <2> SUFFICES ASSUME DecodeInv, code # <<>> PROVE LengthsRight  BY DEF LengthsRight
  <2>1. code \in Seq(0 .. 255) /\ PrefixLength(code) < Len(code) /\ Whole(code) <= Len(code)
    BY DEF DecodeInv
  <2>2. /\ instruction.length = Whole(code) /\ instruction.branch \in {0, Whole(code)}
        /\ instruction.imm = 0 => instruction.rip \in {0, Whole(code)}
    BY <2>1, DecodedWhole DEF DecodeInv
  <2> QED BY <2>2 DEF LengthsRight, Whole, OperandOf, FormOf
<1> QED BY <1>1, DecodeInvariant, PTL

-----------------------------------------------------------------------------
(* Counting, recursion and powers of two.                                  *)

\* A set of numbers up to N that holds 0 and, with each, the next one, holds all.
LEMMA UpTo ==
    ASSUME NEW N \in Nat, NEW B, 0 \in B, \A n \in 1 .. N : n - 1 \in B => n \in B
    PROVE  \A n \in 0 .. N : n \in B
<1> DEFINE Bad == {n \in 0 .. N : n \notin B}
<1> SUFFICES ASSUME Bad # {} PROVE FALSE  OBVIOUS
<1>1. Bad \subseteq Nat  OBVIOUS
<1>2. PICK m \in Bad : \A k \in Bad : ~ (<<k, m>> \in OpToRel(<, Nat))
  <2> HIDE DEF Bad
  <2> QED BY <1>1, NatLessThanWellFounded, WFMin
<1>3. m \in 1 .. N /\ m \notin B  OBVIOUS
<1>4. m - 1 \notin Bad
  <2> HIDE DEF Bad
  <2>1. m - 1 \in Nat /\ m - 1 < m  BY <1>3
  <2> QED BY <1>2, <2>1, <1>1 DEF OpToRel
<1>5. m - 1 \in B  BY <1>3, <1>4
<1> QED BY <1>3, <1>5

\* A function on 0 .. N may be defined by what it does at the number before.
Recursive(g, S, c, N, h) ==
    /\ g \in [0 .. N -> S]
    /\ g = [i \in 0 .. N |-> IF i = 0 THEN c ELSE h[<<g[i - 1], i>>]]

LEMMA Recursion ==
    ASSUME NEW S, NEW c \in S, NEW N \in Nat, NEW h \in [S \X (1 .. N) -> S]
    PROVE  \E g : Recursive(g, S, c, N, h)
<1> DEFINE Ok(n) == \E g \in [0 .. n -> S] :
                       g = [i \in 0 .. n |-> IF i = 0 THEN c ELSE h[<<g[i - 1], i>>]]
           B == {n \in 0 .. N : Ok(n)}
<1>1. Ok(0)
  <2> DEFINE g == [i \in 0 .. 0 |-> c]
  <2>1. g = [i \in 0 .. 0 |-> IF i = 0 THEN c ELSE h[<<g[i - 1], i>>]]  OBVIOUS
  <2> QED BY <2>1
<1>2. ASSUME NEW n \in 1 .. N, Ok(n - 1) PROVE Ok(n)
  <2>1. PICK g \in [0 .. n - 1 -> S] :
               g = [i \in 0 .. n - 1 |-> IF i = 0 THEN c ELSE h[<<g[i - 1], i>>]]
    BY <1>2
  <2> DEFINE f == [i \in 0 .. n |-> IF i < n THEN g[i] ELSE h[<<g[n - 1], n>>]]
  <2>2. f \in [0 .. n -> S]  OBVIOUS
  <2>3. ASSUME NEW i \in 0 .. n PROVE f[i] = IF i = 0 THEN c ELSE h[<<f[i - 1], i>>]
    <3>1. CASE i = 0  BY <2>1, <3>1
    <3>2. CASE i \in 1 .. n - 1
      <4>1. g[i] = h[<<g[i - 1], i>>]  BY <2>1, <3>2
      <4>2. f[i] = g[i] /\ f[i - 1] = g[i - 1]  BY <3>2
      <4>3. i # 0  BY <3>2
      <4> HIDE DEF f
      <4> QED BY <4>1, <4>2, <4>3, Zenon
    <3>3. CASE i = n
      <4>0. n \in 0 .. n /\ n - 1 \in 0 .. n /\ n # 0 /\ n - 1 < n /\ ~ (n < n)  OBVIOUS
      <4>1. f[n] = h[<<g[n - 1], n>>] /\ f[n - 1] = g[n - 1]  BY <4>0
      <4>2. f[n] = h[<<f[n - 1], n>>]  BY <4>1, Zenon
      <4> HIDE DEF f
      <4> QED BY <3>3, <4>0, <4>2
    <3> HIDE DEF f
    <3> QED BY <3>1, <3>2, <3>3
  <2>4. f = [i \in 0 .. n |-> IF i = 0 THEN c ELSE h[<<f[i - 1], i>>]]  BY <2>3
  <2> QED BY <2>2, <2>4
<1> HIDE DEF Ok
<1>3. 0 \in B /\ \A n \in 1 .. N : n - 1 \in B => n \in B  BY <1>1, <1>2
<1> HIDE DEF B
<1>4. N \in B  BY <1>3, UpTo
<1> QED BY <1>4 DEF B, Ok, Recursive

LEMMA Widths ==
    /\ QWORD \in Nat /\ DWORD \in 1 .. QWORD /\ BYTE \in 1 .. QWORD /\ QWORD \in 1 .. QWORD
    /\ DWORD < QWORD /\ BYTE < DWORD /\ DWORD > 1
  BY InterpAssumption

LEMMA PowerDef ==
    /\ Power \in [0 .. QWORD -> Nat]
    /\ Power[0] = 1 /\ \A n \in 1 .. QWORD : Power[n] = 2 * Power[n - 1]
<1> DEFINE h == [p \in Nat \X (1 .. QWORD) |-> 2 * p[1]]
<1>0. h \in [Nat \X (1 .. QWORD) -> Nat] /\ 1 \in Nat /\ QWORD \in Nat  BY Widths
<1>1. \E g \in [0 .. QWORD -> Nat] : g = [i \in 0 .. QWORD |-> IF i = 0 THEN 1 ELSE h[<<g[i - 1], i>>]]
  <2>1. PICK H \in [Nat \X (1 .. QWORD) -> Nat] : H = h  BY <1>0
  <2> HIDE DEF h
  <2>2. \E g : Recursive(g, Nat, 1, QWORD, H)  BY <1>0, Recursion
  <2> QED BY <2>1, <2>2 DEF Recursive
<1>2. ASSUME NEW g \in [0 .. QWORD -> Nat]
      PROVE [i \in 0 .. QWORD |-> IF i = 0 THEN 1 ELSE h[<<g[i - 1], i>>]]
              = [i \in 0 .. QWORD |-> IF i = 0 THEN 1 ELSE 2 * g[i - 1]]
  <2>1. ASSUME NEW i \in 0 .. QWORD, i # 0 PROVE h[<<g[i - 1], i>>] = 2 * g[i - 1]
    <3>1. i - 1 \in 0 .. QWORD /\ i \in 1 .. QWORD  BY <1>0, <2>1
    <3>2. <<g[i - 1], i>> \in Nat \X (1 .. QWORD)  BY <3>1
    <3> QED BY <3>2
  <2> QED BY <2>1
<1>3. \E g \in [0 .. QWORD -> Nat] : g = [n \in 0 .. QWORD |-> IF n = 0 THEN 1 ELSE 2 * g[n - 1]]
  BY <1>1, <1>2
<1>4. \A g : g = [n \in 0 .. QWORD |-> IF n = 0 THEN 1 ELSE 2 * g[n - 1]] =>
         \A n \in 0 .. QWORD : g[n] = IF n = 0 THEN 1 ELSE 2 * g[n - 1]
  OBVIOUS
<1>5. Power = [n \in 0 .. QWORD |-> IF n = 0 THEN 1 ELSE 2 * Power[n - 1]]
  BY <1>3 DEF Power
<1>6. \A n \in 0 .. QWORD : Power[n] = IF n = 0 THEN 1 ELSE 2 * Power[n - 1]
  BY <1>5, <1>4
<1>7. Power[0] = 1 /\ \A n \in 1 .. QWORD : Power[n] = 2 * Power[n - 1]
  BY <1>0, <1>6
<1>8. DOMAIN Power = 0 .. QWORD /\ Power = [n \in 0 .. QWORD |-> Power[n]]  BY <1>5
<1>9. \A n \in 0 .. QWORD : Power[n] \in Nat
  <2> DEFINE B == {n \in 0 .. QWORD : Power[n] \in Nat}
  <2>1. 0 \in B /\ \A n \in 1 .. QWORD : n - 1 \in B => n \in B  BY <1>0, <1>7
  <2> HIDE DEF B
  <2>2. \A n \in 0 .. QWORD : n \in B  BY <1>0, <2>1, UpTo
  <2> QED BY <2>2 DEF B
<1> QED BY <1>7, <1>8, <1>9

LEMMA Powers ==
    /\ \A n \in 0 .. QWORD : Power[n] \in Nat \ {0}
    /\ \A n \in 1 .. QWORD : n - 1 \in 0 .. QWORD /\ Power[n] = 2 * Power[n - 1]
<1> DEFINE B == {n \in 0 .. QWORD : Power[n] \in Nat \ {0}}
<1>1. 0 \in B /\ \A n \in 1 .. QWORD : n - 1 \in B => n \in B  BY Widths, PowerDef, SMTT(30)
<1> HIDE DEF B
<1>2. \A n \in 0 .. QWORD : n \in B  BY <1>1, Widths, UpTo
<1> QED BY <1>2, Widths, PowerDef, SMTT(30) DEF B

\* The larger power of two is a multiple of the smaller.
LEMMA PowersDivide ==
    ASSUME NEW j \in 0 .. QWORD, NEW k \in 0 .. j
    PROVE  \E m \in Nat \ {0} : Power[j] = m * Power[k]
<1> DEFINE B == {i \in 0 .. j - k : \E m \in Nat \ {0} : Power[k + i] = m * Power[k]}
<1>1. 0 \in B
  <2>1. k + 0 = k /\ Power[k] = 1 * Power[k] /\ 0 \in 0 .. j - k  BY Powers, Widths
  <2> QED BY <2>1
<1>2. ASSUME NEW i \in 1 .. j - k, i - 1 \in B PROVE i \in B
  <2>1. PICK m \in Nat \ {0} : Power[k + (i - 1)] = m * Power[k]  BY <1>2
  <2>2. k + i \in 1 .. QWORD /\ k \in 0 .. QWORD /\ k + (i - 1) = (k + i) - 1  BY Widths
  <2>3. Power[k + i] = 2 * Power[k + (i - 1)]  BY <2>2, Powers
  <2>4. PICK P \in Nat : P = Power[k]  BY <2>2, Powers
  <2>5. 2 * (m * P) = (2 * m) * P  BY <2>1, <2>4
  <2>6. 2 * m \in Nat \ {0} /\ Power[k + i] = (2 * m) * Power[k]  BY <2>1, <2>3, <2>4, <2>5
  <2> QED BY <2>6
<1> HIDE DEF B
<1>3. j - k \in Nat /\ j - k \in 0 .. j - k  BY Widths
<1>4. j - k \in B  BY <1>1, <1>2, <1>3, UpTo
<1>5. k + (j - k) = j  BY Widths
<1> QED BY <1>4, <1>5 DEF B

LEMMA PowersGrow ==
    ASSUME NEW j \in 0 .. QWORD, NEW k \in 0 .. j
    PROVE  /\ Power[k] <= Power[j] /\ (k < j => 2 * Power[k] <= Power[j])
<1>1. \A i \in 0 .. j : Power[i] <= Power[j]
  <2> SUFFICES ASSUME NEW i \in 0 .. j PROVE Power[i] <= Power[j]  OBVIOUS
  <2>1. PICK m \in Nat \ {0} : Power[j] = m * Power[i]  BY PowersDivide
  <2>2. PICK P \in Nat \ {0} : P = Power[i]  BY Powers, Widths
  <2>3. PICK e \in Nat : m = e + 1  BY <2>1
  <2>4. m * P = e * P + P /\ e * P >= 0  BY <2>2, <2>3
  <2> QED BY <2>1, <2>2, <2>4
<1>2. ASSUME k < j PROVE 2 * Power[k] <= Power[j]
  <2>1. k + 1 \in 0 .. j /\ k + 1 \in 1 .. QWORD /\ (k + 1) - 1 = k  BY <1>2, Widths
  <2>2. Power[k + 1] = 2 * Power[k]  BY <2>1, Powers
  <2> QED BY <1>1, <2>1, <2>2
<1> QED BY <1>1, <1>2

-----------------------------------------------------------------------------
(* Division, and the parts of a word.                                      *)

LEMMA Division ==
    ASSUME NEW x \in Int, NEW d \in Int, d > 0
    PROVE  /\ x \div d \in Int /\ x % d \in 0 .. d - 1
           /\ x = d * (x \div d) + (x % d)
  OBVIOUS

LEMMA DivisionIs ==
    ASSUME NEW x \in Int, NEW d \in Int, d > 0, NEW q \in Int, NEW r \in 0 .. d - 1, x = d * q + r
    PROVE  x \div d = q /\ x % d = r
<1>1. PICK Q \in Int, R \in 0 .. d - 1 : Q = x \div d /\ R = x % d /\ x = d * Q + R
  BY Division
<1>2. ASSUME NEW a \in Int, NEW b \in Int, a < b, NEW s \in 0 .. d - 1, NEW t \in 0 .. d - 1
      PROVE d * a + s # d * b + t
  <2>1. PICK c \in Nat : b = a + 1 + c  BY <1>2
  <2>2. d * b = d * a + d + d * c /\ d * c >= 0  BY <2>1
  <2>3. PICK u \in Int : u = d * a  OBVIOUS
  <2>4. PICK v \in Int : v = d * c /\ v >= 0  BY <2>1, <2>2
  <2>5. d * b = u + d + v  BY <2>2, <2>3, <2>4
  <2> QED BY <2>3, <2>4, <2>5
<1>3. Q = q  BY <1>1, <1>2
<1>4. d * Q = d * q /\ d * q \in Int  BY <1>3
<1> QED BY <1>1, <1>3, <1>4

LEMMA LowTyped ==
    ASSUME NEW x \in Int, NEW n \in 0 .. QWORD
    PROVE  /\ Low(x, n) \in 0 .. Power[n] - 1
           /\ \E q \in Int : x = Power[n] * q + Low(x, n)
<1>1. PICK P \in Int : P = Power[n] /\ P > 0  BY Powers
<1>2. x \div P \in Int /\ x % P \in 0 .. P - 1 /\ x = P * (x \div P) + (x % P)
  BY <1>1, Division
<1> QED BY <1>1, <1>2 DEF Low

LEMMA LowIs ==
    ASSUME NEW x \in Int, NEW n \in 0 .. QWORD, NEW q \in Int, NEW r \in 0 .. Power[n] - 1,
           x = Power[n] * q + r
    PROVE  Low(x, n) = r
<1>1. PICK P \in Int : P = Power[n] /\ P > 0  BY Powers
<1> QED BY <1>1, DivisionIs DEF Low

LEMMA LowSmall ==
    ASSUME NEW n \in 0 .. QWORD, NEW r \in 0 .. Power[n] - 1
    PROVE  Low(r, n) = r
<1>1. PICK P \in Int : P = Power[n] /\ P > 0  BY Powers
<1>2. r = P * 0 + r /\ r \in Int /\ 0 \in Int  BY <1>1
<1>3. r = Power[n] * 0 + r  BY <1>1, <1>2
<1> QED BY <1>2, <1>3, LowIs

\* Cutting down twice is cutting down once.
LEMMA LowLow ==
    ASSUME NEW x \in Int, NEW n \in 0 .. QWORD, NEW k \in 0 .. n
    PROVE  Low(Low(x, n), k) = Low(x, k)
<1>0. k \in 0 .. QWORD  BY Widths
<1>1. PICK P \in Int : P = Power[n] /\ P > 0  BY Powers
<1>2. PICK R \in Int : R = Power[k] /\ R > 0  BY <1>0, Powers
<1>3. PICK m \in Nat \ {0} : P = m * R  BY <1>1, <1>2, PowersDivide
<1>4. PICK l \in 0 .. P - 1, q \in Int : l = Low(x, n) /\ x = P * q + l
  BY <1>1, LowTyped
<1>9. l \in Int  BY <1>1, <1>4
<1>5. PICK s \in 0 .. R - 1, e \in Int : s = Low(l, k) /\ l = R * e + s
  <2>1. Low(l, k) \in 0 .. R - 1 /\ \E e \in Int : l = R * e + Low(l, k)
    BY <1>0, <1>2, <1>9, LowTyped
  <2> QED BY <2>1
<1>6. x = R * (m * q + e) + s
  <2>1. P * q = R * (m * q)  BY <1>1, <1>2, <1>3, <1>4
  <2>2. R * (m * q + e) = R * (m * q) + R * e  BY <1>2, <1>3, <1>4, <1>5
  <2> QED BY <1>4, <1>5, <2>1, <2>2
<1>7. m * q + e \in Int  BY <1>3, <1>4, <1>5
<1>8. Low(x, k) = s  BY <1>0, <1>2, <1>5, <1>6, <1>7, LowIs
<1> QED BY <1>4, <1>5, <1>8

\* The sign bit.
LEMMA TopBit ==
    ASSUME NEW x \in Int, NEW n \in 1 .. QWORD
    PROVE  Bit(x, n - 1) <=> Low(x, n) >= Power[n - 1]
<1>0. n \in 0 .. QWORD /\ n - 1 \in 0 .. QWORD  BY Widths
<1>1. PICK H \in Int : H = Power[n - 1] /\ H > 0  BY <1>0, Powers
<1>2. Power[n] = 2 * H  BY <1>1, Powers
<1>3. PICK l \in 0 .. 2 * H - 1, q \in Int : l = Low(x, n) /\ x = (2 * H) * q + l
  <2>1. PICK P \in Int : P = Power[n] /\ P = 2 * H /\ P > 0  BY <1>1, <1>2
  <2>2. Low(x, n) \in 0 .. Power[n] - 1 /\ \E q \in Int : x = Power[n] * q + Low(x, n)
    BY <1>0, LowTyped
  <2>3. PICK q \in Int : x = P * q + Low(x, n)  BY <2>1, <2>2
  <2> QED BY <2>1, <2>2, <2>3
<1>4. (2 * H) * q = H * (2 * q)  BY <1>1, <1>3
<1>5. CASE l >= H
  <2>1. x = H * (2 * q + 1) + (l - H)
    <3>1. H * (2 * q + 1) = H * (2 * q) + H  BY <1>1, <1>3
    <3> QED BY <1>1, <1>3, <1>4, <3>1
  <2>2. x \div H = 2 * q + 1  BY <1>1, <1>3, <1>5, <2>1, DivisionIs, SMTT(30)
  <2> QED BY <1>1, <1>3, <1>5, <2>2 DEF Bit
<1>6. CASE ~ (l >= H)
  <2>1. x = H * (2 * q) + l  BY <1>1, <1>3, <1>4
  <2>3. 2 * q \in Int /\ l \in 0 .. H - 1  BY <1>1, <1>3, <1>6
  <2>2. x \div H = 2 * q  BY <1>1, <2>3, <2>1, DivisionIs
  <2> QED BY <1>1, <1>3, <1>6, <2>2 DEF Bit
<1> QED BY <1>5, <1>6

\* What is written to a register is a word, and in it the low bits are the result's.
LEMMA OperandWritten ==
    ASSUME NEW old \in Words, NEW size \in {BYTE, DWORD, QWORD}, NEW x \in Int
    PROVE  LET w == write_operand(old, size, Wrap(x))
           IN  /\ w \in Words /\ Low(w, size) = Low(x, size)
               /\ w = IF size = BYTE THEN old - Low(old, size) + Low(x, size) ELSE Low(x, size)
<1>0. size \in 1 .. QWORD /\ size \in 0 .. QWORD /\ QWORD \in 0 .. QWORD /\ BYTE < DWORD /\ DWORD < QWORD
      /\ {BYTE, DWORD, QWORD} \subseteq Nat
  BY Widths
<1>1. PICK W \in Nat \ {0} : W = Power[QWORD]  BY <1>0, Powers
<1>2. PICK P \in Nat \ {0} : P = Power[size]  BY <1>0, Powers
<1>3. P <= W  BY <1>0, <1>1, <1>2, PowersGrow
<1>4. old \in 0 .. W - 1  BY <1>1 DEF Words
<1>5. Wrap(x) \in Int /\ Low(Wrap(x), size) = Low(x, size)
  <2>1. Wrap(x) = Low(x, QWORD)  BY DEF Wrap, Low
  <2>2. Wrap(x) \in 0 .. W - 1  BY <1>0, <1>1, <2>1, LowTyped
  <2> QED BY <1>0, <2>1, <2>2, LowLow
<1>6. PICK r \in 0 .. P - 1 : r = Low(x, size)  BY <1>0, <1>2, LowTyped
<1>7. CASE size # BYTE
  <2>1. write_operand(old, size, Wrap(x)) = r
    <3>1. CASE size = DWORD  BY <1>5, <1>6, <3>1 DEF write_operand
    <3>2. CASE size = QWORD
      <4>1. write_operand(old, size, Wrap(x)) = Wrap(Wrap(x))  BY <1>0, <3>2 DEF write_operand
      <4> QED BY <1>5, <1>6, <3>2, <4>1 DEF Wrap, Low
    <3> QED BY <1>7, <3>1, <3>2
  <2>2. Low(r, size) = r  BY <1>0, <1>2, LowSmall
  <2> QED BY <1>1, <1>3, <1>6, <1>7, <2>1, <2>2 DEF Words
<1>8. CASE size = BYTE
  <2>9. old \in Int  BY <1>1, <1>4
  <2>1. PICK l \in 0 .. P - 1, q \in Int : l = Low(old, size) /\ old = P * q + l
    BY <1>0, <1>2, <2>9, LowTyped
  <2>2. PICK m \in Nat \ {0} : W = m * P  BY <1>0, <1>1, <1>2, PowersDivide
  <2>3. write_operand(old, size, Wrap(x)) = (old - l) + r
    BY <1>0, <1>5, <1>6, <1>8, <2>1 DEF write_operand
  <2>4. PICK u \in Int : u = P * q /\ old = u + l  BY <2>1
  <2>5. (old - l) + r = u + r /\ u + r = P * q + r /\ u + r \in Int  BY <1>6, <2>1, <2>4
  <2>6. Low(u + r, size) = r  BY <1>0, <1>2, <1>6, <2>1, <2>5, LowIs
  <2>7. u >= 0 /\ u + P <= W
    <3>1. q >= 0
      <4> SUFFICES ASSUME q <= -1 PROVE FALSE  BY <2>1
      <4>1. PICK e \in Nat : q = -1 - e  BY <2>1
      <4>2. P * q = -P - P * e /\ P * e >= 0  BY <2>1, <4>1
      <4> QED BY <1>2, <1>4, <2>1, <2>4, <4>2
    <3>2. q < m
      <4> SUFFICES ASSUME q >= m PROVE FALSE  BY <2>1, <2>2
      <4>1. PICK e \in Nat : q = m + e  BY <2>1, <2>2
      <4>2. P * q = m * P + P * e /\ P * e >= 0  BY <2>2, <4>1
      <4> QED BY <1>1, <1>4, <2>1, <2>2, <2>4, <4>2
    <3>3. PICK e \in Nat : m = q + 1 + e  BY <2>1, <2>2, <3>1, <3>2
    <3>4. m * P = P * q + P + P * e /\ P * e >= 0 /\ P * q >= 0  BY <3>1, <3>3, <2>1
    <3> QED BY <1>1, <2>2, <2>4, <3>4
  <2>8. u + r \in 0 .. W - 1  BY <1>3, <1>6, <2>1, <2>4, <2>7
  <2> QED BY <1>1, <1>6, <1>8, <2>1, <2>3, <2>5, <2>6, <2>8 DEF Words
<1> QED BY <1>7, <1>8

-----------------------------------------------------------------------------
(* What the flags say.                                                     *)

LEMMA FlagsTyped ==
    ASSUME NEW a \in Int, NEW b \in Int, NEW r \in Int, NEW bits \in 1 .. QWORD
    PROVE  /\ wg_x86_update_flags_add(a, b, r, bits) \in Flags
           /\ wg_x86_update_flags_sub(a, b, r, bits) \in Flags
           /\ wg_x86_update_flags_logic(r, bits) \in Flags
<1>1. Sum(r, bits).ZF \in BOOLEAN /\ Sum(r, bits).SF \in BOOLEAN /\ Sum(r, bits).PF \in BOOLEAN
  <2>1. Bit(r, bits - 1) \in BOOLEAN  BY DEF Bit
  <2>2. (Low(r, bits) = 0) \in BOOLEAN /\ (Ones(Low(r, bits)) % 2 = 0) \in BOOLEAN  OBVIOUS
  <2> QED BY <2>1, <2>2 DEF Sum
<1> DEFINE z == Sum(r, bits).ZF
           s == Sum(r, bits).SF
           p == Sum(r, bits).PF
<1>2. \A c, o \in BOOLEAN : [CF |-> c, ZF |-> z, SF |-> s, PF |-> p, OF |-> o] \in Flags
  BY <1>1 DEF Flags
<1>3. (r >= Power[bits]) \in BOOLEAN /\ (a < b) \in BOOLEAN /\ FALSE \in BOOLEAN
      /\ (Bit(a, bits - 1) # Bit(r, bits - 1) /\ Bit(b, bits - 1) # Bit(r, bits - 1)) \in BOOLEAN
      /\ (Bit(a, bits - 1) # Bit(b, bits - 1) /\ Bit(a, bits - 1) # Bit(r, bits - 1)) \in BOOLEAN
  <2>1. Power[bits] \in Int  BY Powers, Widths
  <2>2. (r >= Power[bits]) \in BOOLEAN /\ (a < b) \in BOOLEAN /\ FALSE \in BOOLEAN
    BY <2>1
  <2> QED BY <2>2, Zenon
<1>4. /\ wg_x86_update_flags_add(a, b, r, bits) =
           [CF |-> r >= Power[bits], ZF |-> z, SF |-> s, PF |-> p,
            OF |-> Bit(a, bits - 1) # Bit(r, bits - 1) /\ Bit(b, bits - 1) # Bit(r, bits - 1)]
      /\ wg_x86_update_flags_sub(a, b, r, bits) =
           [CF |-> a < b, ZF |-> z, SF |-> s, PF |-> p,
            OF |-> Bit(a, bits - 1) # Bit(b, bits - 1) /\ Bit(a, bits - 1) # Bit(r, bits - 1)]
      /\ wg_x86_update_flags_logic(r, bits) =
           [CF |-> FALSE, ZF |-> z, SF |-> s, PF |-> p, OF |-> FALSE]
  BY Zenon DEF wg_x86_update_flags_add, wg_x86_update_flags_sub, wg_x86_update_flags_logic
<1> HIDE DEF z, s, p
<1> QED BY <1>2, <1>3, <1>4, Zenon

\* A number below P = 2 * H read with its sign.
WithSign(x, H) == IF x >= H THEN x - 2 * H ELSE x

LEMMA SignedIs ==
    ASSUME NEW n \in 1 .. QWORD, NEW x \in Int
    PROVE  Signed(x, n) = WithSign(Low(x, n), Power[n - 1])
<1>1. Power[n] = 2 * Power[n - 1] /\ n \in 0 .. QWORD  BY Powers, Widths
<1> QED BY <1>1, TopBit DEF Signed, WithSign

\* The flags in terms of the low bits of the operands and the result.
LEMMA FlagsMean ==
    ASSUME NEW n \in 1 .. QWORD, NEW a \in 0 .. Power[n] - 1, NEW b \in 0 .. Power[n] - 1,
           NEW r \in Int
    PROVE  LET H == Power[n - 1]
               l == Low(r, n)
               sub == wg_x86_update_flags_sub(a, b, r, n)
               add == wg_x86_update_flags_add(a, b, r, n)
           IN  /\ sub.CF <=> a < b
               /\ sub.ZF <=> l = 0
               /\ sub.SF <=> l >= H
               /\ sub.OF <=> ~ (a >= H <=> b >= H) /\ ~ (a >= H <=> l >= H)
               /\ add.CF <=> r >= Power[n]
               /\ add.OF <=> ~ (a >= H <=> l >= H) /\ ~ (b >= H <=> l >= H)
<1> DEFINE H == Power[n - 1]
           l == Low(r, n)
           A == Bit(a, n - 1)
           B == Bit(b, n - 1)
           L == Bit(r, n - 1)
           sub == wg_x86_update_flags_sub(a, b, r, n)
           add == wg_x86_update_flags_add(a, b, r, n)
<1>1. n \in 0 .. QWORD /\ a \in Int /\ b \in Int  BY Powers, Widths
<1>2. (A <=> a >= H) /\ (B <=> b >= H) /\ (L <=> l >= H)
  BY <1>1, TopBit, LowSmall
<1>3. A \in BOOLEAN /\ B \in BOOLEAN /\ L \in BOOLEAN  BY DEF Bit
<1>4. sub.CF = (a < b) /\ sub.ZF = (l = 0) /\ sub.SF = L /\ sub.OF = (A # B /\ A # L)
      /\ add.CF = (r >= Power[n]) /\ add.OF = (A # L /\ B # L)
  <2>1. Sum(r, n).ZF = (l = 0) /\ Sum(r, n).SF = L  BY DEF Sum
  <2>2. /\ add = [CF |-> r >= Power[n], ZF |-> Sum(r, n).ZF, SF |-> Sum(r, n).SF,
                  PF |-> Sum(r, n).PF, OF |-> A # L /\ B # L]
        /\ sub = [CF |-> a < b, ZF |-> Sum(r, n).ZF, SF |-> Sum(r, n).SF,
                  PF |-> Sum(r, n).PF, OF |-> A # B /\ A # L]
    BY Zenon DEF wg_x86_update_flags_add, wg_x86_update_flags_sub
  <2> HIDE DEF A, B, L, l, add, sub
  <2> QED BY <2>1, <2>2, Zenon
<1> HIDE DEF A, B, L, l, add, sub, H
<1>5. (sub.CF <=> a < b) /\ (sub.ZF <=> l = 0) /\ (sub.SF <=> l >= H)
      /\ (add.CF <=> r >= Power[n])
  BY <1>2, <1>4, Zenon
<1>6. (A # B <=> ~ (A <=> B)) /\ (A # L <=> ~ (A <=> L)) /\ (B # L <=> ~ (B <=> L))
  BY <1>3, Zenon
<1>7. (sub.OF <=> A # B /\ A # L) /\ (add.OF <=> A # L /\ B # L)
  BY <1>4, Zenon
<1>8. (sub.OF <=> ~ (a >= H <=> b >= H) /\ ~ (a >= H <=> l >= H))
      /\ (add.OF <=> ~ (a >= H <=> l >= H) /\ ~ (b >= H <=> l >= H))
  BY <1>2, <1>6, <1>7, Zenon
<1> QED BY <1>5, <1>8 DEF H, l, add, sub

\* What is left of a word of n bits after a difference, and after a sum.
LEMMA LowDifference ==
    ASSUME NEW n \in 1 .. QWORD, NEW a \in 0 .. Power[n] - 1, NEW b \in 0 .. Power[n] - 1
    PROVE  /\ Low(a - b, n) = IF a >= b THEN a - b ELSE a - b + Power[n]
           /\ Low(a + b, n) = IF a + b < Power[n] THEN a + b ELSE a + b - Power[n]
<1>1. PICK P \in Nat \ {0} : P = Power[n]  BY Powers, Widths
<1>2. n \in 0 .. QWORD /\ a \in Int /\ b \in Int  BY <1>1, Widths
<1>3. \A x \in Int, q \in {-1, 0, 1}, r \in 0 .. P - 1 : x = P * q + r => Low(x, n) = r
  <2> SUFFICES ASSUME NEW x \in Int, NEW q \in {-1, 0, 1}, NEW r \in 0 .. P - 1, x = P * q + r
               PROVE Low(x, n) = r
    OBVIOUS
  <2>1. q \in Int /\ r \in 0 .. Power[n] - 1 /\ x = Power[n] * q + r  BY <1>1
  <2> QED BY <1>2, <2>1, LowIs
<1>4. ASSUME a >= b PROVE Low(a - b, n) = a - b
  <2>1. a - b = P * 0 + (a - b) /\ a - b \in 0 .. P - 1  BY <1>1, <1>2, <1>4
  <2>2. Low(a - b, n) = a - b  BY <1>2, <1>3, <2>1
  <2> QED BY <1>4, <2>2
<1>5. ASSUME ~ (a >= b) PROVE Low(a - b, n) = a - b + P
  <2>1. a - b = P * (-1) + (a - b + P) /\ a - b + P \in 0 .. P - 1  BY <1>1, <1>2, <1>5
  <2>2. Low(a - b, n) = a - b + P  BY <1>2, <1>3, <2>1
  <2> QED BY <1>1, <1>5, <2>2
<1>6. Low(a + b, n) = IF a + b < P THEN a + b ELSE a + b - P
  <2>1. CASE a + b < P
    <3>1. a + b = P * 0 + (a + b) /\ a + b \in 0 .. P - 1  BY <1>1, <1>2, <2>1
    <3> QED BY <1>2, <1>3, <2>1, <3>1
  <2>2. CASE ~ (a + b < P)
    <3>1. a + b = P * 1 + (a + b - P) /\ a + b - P \in 0 .. P - 1  BY <1>1, <1>2, <2>2
    <3> QED BY <1>2, <1>3, <2>2, <3>1
  <2> QED BY <2>1, <2>2
<1>7. Low(a - b, n) = IF a >= b THEN a - b ELSE a - b + P  BY <1>1, <1>4, <1>5
<1> QED BY <1>1, <1>6, <1>7

-----------------------------------------------------------------------------
(* Bitwise operations stay within the width of their operands.             *)

LEMMA BitsAbove ==
    ASSUME NEW n \in 0 .. QWORD, NEW a \in 0 .. Power[n] - 1, NEW i \in n .. QWORD
    PROVE  ~ Bit(a, i)
<1>1. i \in 0 .. QWORD /\ n \in 0 .. i  BY Widths
<1>2. PICK P \in Nat \ {0} : P = Power[i]  BY <1>1, Powers
<1>3. a \in 0 .. P - 1
  <2>1. Power[n] <= P  BY <1>1, <1>2, PowersGrow
  <2> QED BY <1>2, <2>1, Powers
<1>4. a = P * 0 + a /\ a \in Int /\ P > 0  BY <1>2, <1>3
<1>5. a \div P = 0  BY <1>2, <1>3, <1>4, DivisionIs
<1>6. 0 % 2 # 1  OBVIOUS
<1> QED BY <1>2, <1>5, <1>6 DEF Bit

LEMMA LogicSmall ==
    ASSUME NEW op \in {"AND", "OR", "XOR", "TEST"}, NEW n \in 1 .. QWORD,
           NEW a \in 0 .. Power[n] - 1, NEW b \in 0 .. Power[n] - 1
    PROVE  Logic(op, a, b) \in 0 .. Power[n] - 1
<1> DEFINE v(i) == Value(OnBits(op, Bit(a, i - 1), Bit(b, i - 1)))
           h == [p \in Nat \X (1 .. QWORD) |-> p[1] + Power[p[2] - 1] * v(p[2])]
           Step(g) == [i \in 0 .. QWORD |-> IF i = 0 THEN 0 ELSE g[i - 1] + Power[i - 1] * v(i)]
           sum == CHOOSE g : g = Step(g)
<1>1. Logic(op, a, b) = sum[QWORD]  BY DEF Logic
<1>2. \A i : v(i) \in {0, 1}  BY DEF Value
<1>3. \A i \in 1 .. QWORD : Power[i - 1] \in Nat \ {0} /\ Power[i] = 2 * Power[i - 1]
  BY Powers
<1>4. h \in [Nat \X (1 .. QWORD) -> Nat]
  <2> HIDE DEF v
  <2>1. \A s \in Nat, i \in 1 .. QWORD : s + Power[i - 1] * v(i) \in Nat  BY <1>2, <1>3
  <2> QED BY <2>1
<1> HIDE DEF v
<1>5. PICK g \in [0 .. QWORD -> Nat] : g = Step(g)
  <2>1. PICK H \in [Nat \X (1 .. QWORD) -> Nat] : H = h  BY <1>4
  <2> HIDE DEF h
  <2>2. PICK g : Recursive(g, Nat, 0, QWORD, H)  BY Recursion, Widths
  <2>3. ASSUME NEW i \in 1 .. QWORD PROVE H[<<g[i - 1], i>>] = g[i - 1] + Power[i - 1] * v(i)
    <3>3. g \in [0 .. QWORD -> Nat]  BY <2>2 DEF Recursive
    <3>4. i - 1 \in 0 .. QWORD  BY Widths
    <3>1. g[i - 1] \in Nat  BY <3>3, <3>4
    <3>2. <<g[i - 1], i>> \in Nat \X (1 .. QWORD)  BY <3>1
    <3> QED BY <2>1, <3>2 DEF h
  <2>4. \A i \in 0 .. QWORD : i # 0 => i \in 1 .. QWORD  BY Widths
  <2>5. [i \in 0 .. QWORD |-> IF i = 0 THEN 0 ELSE H[<<g[i - 1], i>>]] = Step(g)
    BY <2>3, <2>4
  <2> QED BY <2>2, <2>5 DEF Recursive
<1>6. sum = Step(sum)  BY <1>5
<1> HIDE DEF sum
<1>7. \A i \in 0 .. QWORD : sum[i] = IF i = 0 THEN 0 ELSE sum[i - 1] + Power[i - 1] * v(i)
  BY <1>6
<1>8. \A i \in n + 1 .. QWORD : v(i) = 0
  <2> SUFFICES ASSUME NEW i \in n + 1 .. QWORD PROVE v(i) = 0  OBVIOUS
  <2>1. n \in 0 .. QWORD /\ i - 1 \in n .. QWORD  BY Widths
  <2>2. ~ Bit(a, i - 1) /\ ~ Bit(b, i - 1)  BY <2>1, BitsAbove
  <2>3. Bit(a, i - 1) = FALSE /\ Bit(b, i - 1) = FALSE  BY <2>2, Zenon DEF Bit
  <2>4. ~ OnBits(op, FALSE, FALSE)  BY DEF OnBits
  <2>5. v(i) = Value(OnBits(op, FALSE, FALSE))  BY <2>3, Zenon DEF v
  <2> QED BY <2>4, <2>5, Zenon DEF Value
<1> DEFINE B == {i \in 0 .. QWORD : sum[i] \in 0 .. Power[i] - 1 /\ sum[i] <= Power[n] - 1}
<1>9. n \in 0 .. QWORD /\ Power[n] \in Nat \ {0}  BY Powers, Widths
<1>10. 0 \in B
  <2>1. 0 \in 0 .. QWORD /\ Power[0] \in Nat \ {0}  BY Powers, Widths
  <2>2. sum[0] = 0  BY <1>7, <2>1
  <2> QED BY <1>9, <2>1, <2>2
<1>11. ASSUME NEW i \in 1 .. QWORD, i - 1 \in B PROVE i \in B
  <2>1. PICK Q \in Nat \ {0} : Q = Power[i - 1] /\ Power[i] = 2 * Q  BY <1>3
  <2>2. PICK s \in 0 .. Q - 1 : s = sum[i - 1] /\ s <= Power[n] - 1  BY <1>11, <2>1
  <2>3. i \in 0 .. QWORD /\ i # 0  BY Widths
  <2>4. sum[i] = s + Q * v(i)  BY <1>7, <2>1, <2>2, <2>3
  <2>5. CASE i \in n + 1 .. QWORD
    <3>0. v(i) = 0 /\ Q * 0 = 0  BY <1>8, <2>1, <2>5
    <3>1. sum[i] = s  BY <2>1, <2>2, <2>4, <3>0
    <3>2. s \in 0 .. Power[i] - 1
      <4>1. s \in 0 .. 2 * Q - 1  BY <2>1, <2>2
      <4> QED BY <2>1, <4>1
    <3> QED BY <2>2, <2>3, <3>1, <3>2
  <2>6. CASE i <= n
    <3>1. i \in 0 .. n  BY <2>3, <2>6
    <3>2. Power[i] <= Power[n]  BY <1>9, <3>1, PowersGrow
    <3>3. v(i) = 0 \/ v(i) = 1  BY <1>2
    <3>4. sum[i] = s \/ sum[i] = s + Q  BY <2>1, <2>2, <2>4, <3>3
    <3>5. PICK t \in 0 .. 2 * Q - 1 : t = sum[i]  BY <2>1, <2>2, <3>4, SMTT(30)
    <3>6. PICK N \in Nat : N = Power[n] /\ 2 * Q <= N  BY <1>9, <2>1, <3>2
    <3>8. t <= N - 1  BY <3>5, <3>6
    <3>7. t <= N - 1 /\ t \in 0 .. Power[i] - 1  BY <2>1, <3>5, <3>8
    <3> QED BY <2>3, <3>5, <3>6, <3>7
  <2> QED BY <2>3, <2>5, <2>6
<1>12. QWORD \in B
  <2> HIDE DEF B
  <2>1. QWORD \in Nat /\ QWORD \in 0 .. QWORD  BY Widths
  <2> QED BY <1>10, <1>11, <2>1, UpTo
<1>13. QWORD \in 0 .. QWORD  BY Widths
<1>14. sum[QWORD] \in Nat
  BY <1>12, <1>13, Powers
<1> QED BY <1>1, <1>9, <1>12, <1>14

-----------------------------------------------------------------------------
(* What an instruction leaves behind.                                      *)

Kinds == Arithmetic2 \cup {"ADD", "SUB", "CMP", "AND", "OR", "XOR", "TEST", "INC", "DEC", "NOT",
                           "NEG", "SHL", "SHR", "SAR", "MOV", "MOVZX", "MOVSX", "CMOVcc", "SETcc",
                           "IMUL", "XCHG"}
Ran == [op : Kinds \cup {"nothing"}, a : Int, b : Int, size : Sizes, bits : Sizes,
        old : Words, before : Flags]

\* The result x was written over old at size n.
Result(n, x, old, d) == d = IF n = BYTE THEN old - Low(old, n) + Low(x, n) ELSE Low(x, n)

\* What the flags f say after a was compared with b at n bits.
Compared(n, a, b, f) ==
    /\ f.CF <=> a < b
    /\ (f.CF \/ f.ZF) <=> a <= b
    /\ ~ (f.SF <=> f.OF) <=> Signed(a, n) < Signed(b, n)
    /\ (f.ZF \/ ~ (f.SF <=> f.OF)) <=> Signed(a, n) <= Signed(b, n)

Fits(n, x) == x \in -(Power[n - 1]) .. Power[n - 1] - 1

\* ConditionsMean, said of the flags f and the register d after op.
Meaning(op, n, a, b, old, before, f, d) ==
    /\ op \in {"SUB", "CMP"} /\ n # BYTE =>
         /\ Compared(n, a, b, f)
         /\ f.OF <=> ~ Fits(n, Signed(a, n) - Signed(b, n))
    /\ op \in {"SUB", "CMP"} => (f.ZF <=> a = b)
    /\ op = "ADD" /\ n = DWORD =>
         (f.CF <=> a + b >= Power[n]) /\ (f.OF <=> ~ Fits(n, Signed(a, n) + Signed(b, n)))
    /\ op = "INC" /\ n # BYTE => (f.OF <=> ~ Fits(n, Signed(a, n) + 1)) /\ f.CF = before.CF
    /\ op = "DEC" /\ n # BYTE => (f.OF <=> ~ Fits(n, Signed(a, n) - 1)) /\ f.CF = before.CF
    /\ op \in {"AND", "OR", "XOR"} => (f.ZF <=> Low(d, n) = 0)
    /\ op = "ADD"  => Result(n, a + b, old, d)
    /\ op = "SUB"  => Result(n, a - b, old, d)
    /\ op = "IMUL" => Result(n, Signed(a, n) * Signed(b, n), old, d)
    /\ op = "NEG"  => Result(n, -a, old, d)
    /\ op = "SAR" /\ n # BYTE => Result(n, Signed(a, n) \div Power[b], old, d)
    /\ op = "SHR"  => Result(n, a \div Power[b], old, d)
    /\ op = "SHL"  => Result(n, a * Power[b], old, d)

LEMMA MeaningIs ==
    ASSUME flags \in Flags,
           Meaning(ran.op, ran.size, ran.a, ran.b, ran.old, ran.before, flags, dst)
    PROVE  ConditionsMean
<1>1. /\ eval_condition("O") = flags.OF /\ eval_condition("B") = flags.CF
      /\ eval_condition("E") = flags.ZF /\ eval_condition("BE") = (flags.CF \/ flags.ZF)
      /\ eval_condition("L") = (flags.SF # flags.OF)
      /\ eval_condition("LE") = (flags.ZF \/ (flags.SF # flags.OF))
  <2>1. "O" # "B" /\ "O" # "E" /\ "B" # "E" /\ "BE" # "O" /\ "BE" # "B" /\ "BE" # "E"
        /\ "L" \notin {"O", "B", "E", "BE", "S", "P"} /\ "LE" \notin {"O", "B", "E", "BE", "S", "P", "L"}
    OBVIOUS
  <2> QED BY <2>1, Zenon DEF eval_condition
<1>2. flags.SF \in BOOLEAN /\ flags.OF \in BOOLEAN  BY DEF Flags
<1>3. (flags.SF # flags.OF) <=> ~ (flags.SF <=> flags.OF)  BY <1>2
<1>4. /\ eval_condition("O") <=> flags.OF
      /\ eval_condition("B") <=> flags.CF
      /\ eval_condition("E") <=> flags.ZF
      /\ eval_condition("BE") <=> (flags.CF \/ flags.ZF)
      /\ eval_condition("L") <=> ~ (flags.SF <=> flags.OF)
      /\ eval_condition("LE") <=> (flags.ZF \/ ~ (flags.SF <=> flags.OF))
  BY <1>1, <1>3, Zenon
<1> DEFINE o == eval_condition("O")
           c == eval_condition("B")
           z == eval_condition("E")
           be == eval_condition("BE")
           l == eval_condition("L")
           le == eval_condition("LE")
<1> HIDE DEF o, c, z, be, l, le
<1> QED BY <1>4 DEF ConditionsMean, Meaning, Compared, Result, Fits, o, c, z, be, l, le

LEMMA WordsSmall ==
    /\ \A x \in Words : x \in Int /\ Wrap(x) = x
    /\ \A n \in 0 .. QWORD : 0 .. Power[n] - 1 \subseteq Words
    /\ \A x \in Int : Wrap(x) \in Words
    /\ \A x \in Int, n \in 0 .. QWORD : Low(Wrap(x), n) = Low(x, n)
<1>1. QWORD \in 0 .. QWORD  BY Widths
<1>2. \A x : Wrap(x) = Low(x, QWORD)  BY DEF Wrap, Low
<1>3. \A x \in Words : x \in Int /\ Wrap(x) = x  BY <1>1, <1>2, LowSmall, Powers DEF Words
<1>4. \A n \in 0 .. QWORD : 0 .. Power[n] - 1 \subseteq Words
  <2> SUFFICES ASSUME NEW n \in 0 .. QWORD PROVE 0 .. Power[n] - 1 \subseteq Words  OBVIOUS
  <2>1. n \in 0 .. QWORD /\ Power[n] <= Power[QWORD]  BY <1>1, PowersGrow
  <2>2. Power[n] \in Nat /\ Power[QWORD] \in Nat  BY <1>1, Powers
  <2> QED BY <2>1, <2>2 DEF Words
<1>5. \A x \in Int : Wrap(x) \in Words  BY <1>1, <1>2, LowTyped DEF Words
<1>6. \A x \in Int, n \in 0 .. QWORD : Low(Wrap(x), n) = Low(x, n)
  BY <1>1, <1>2, LowLow
<1> QED BY <1>3, <1>4, <1>5, <1>6

LEMMA SubMeans ==
    ASSUME NEW n \in 1 .. QWORD, NEW a \in 0 .. Power[n] - 1, NEW b \in 0 .. Power[n] - 1
    PROVE  LET f == wg_x86_update_flags_sub(a, b, Wrap(a - b), n)
           IN  /\ f \in Flags /\ Compared(n, a, b, f) /\ (f.ZF <=> a = b)
               /\ f.OF <=> ~ Fits(n, Signed(a, n) - Signed(b, n))
<1> DEFINE f == wg_x86_update_flags_sub(a, b, Wrap(a - b), n)
           l == Low(Wrap(a - b), n)
<1>1. PICK H \in Nat : H = Power[n - 1] /\ H > 0 /\ Power[n] = 2 * H  BY Powers, Widths
<1>2. a \in Int /\ b \in Int /\ n \in 0 .. QWORD /\ a - b \in Int  BY <1>1, Widths
<1>3. Wrap(a - b) \in Int  BY <1>2, WordsSmall
<1>4. l = IF a >= b THEN a - b ELSE a - b + 2 * H
  BY <1>1, <1>2, WordsSmall, LowDifference
<1>5. /\ f.CF <=> a < b
      /\ f.ZF <=> l = 0
      /\ f.SF <=> l >= H
      /\ f.OF <=> ~ (a >= H <=> b >= H) /\ ~ (a >= H <=> l >= H)
  BY <1>1, <1>3, FlagsMean
<1>6. Signed(a, n) = WithSign(a, H) /\ Signed(b, n) = WithSign(b, H)
  BY <1>1, <1>2, SignedIs, LowSmall
<1>7. f \in Flags  BY <1>2, <1>3, FlagsTyped
<1> HIDE DEF f, l
<1>8. PICK m \in Int : m = l  BY <1>1, <1>2, <1>4
<1>9. /\ ~ (f.SF <=> f.OF) <=> WithSign(a, H) < WithSign(b, H)
      /\ f.OF <=> WithSign(a, H) - WithSign(b, H) \notin -H .. H - 1
      /\ l = 0 <=> a = b
      /\ WithSign(a, H) = WithSign(b, H) <=> a = b
  <2>1. a \in 0 .. 2 * H - 1 /\ b \in 0 .. 2 * H - 1 /\ m = IF a >= b THEN a - b ELSE a - b + 2 * H
    BY <1>1, <1>4, <1>8
  <2>2. /\ ~ (m >= H <=> (~ (a >= H <=> b >= H) /\ ~ (a >= H <=> m >= H)))
             <=> WithSign(a, H) < WithSign(b, H)
        /\ (~ (a >= H <=> b >= H) /\ ~ (a >= H <=> m >= H))
             <=> WithSign(a, H) - WithSign(b, H) \notin -H .. H - 1
        /\ m = 0 <=> a = b
        /\ WithSign(a, H) = WithSign(b, H) <=> a = b
    BY <1>1, <2>1 DEF WithSign
  <2> QED BY <1>5, <1>8, <2>2
<1>10. PICK x \in Int, y \in Int : x = Signed(a, n) /\ y = Signed(b, n)
  BY <1>1, <1>2, <1>6 DEF WithSign
<1>11. /\ ~ (f.SF <=> f.OF) <=> x < y
       /\ f.OF <=> x - y \notin -H .. H - 1
       /\ f.ZF <=> a = b
       /\ x = y <=> a = b
  BY <1>5, <1>6, <1>9, <1>10
<1>12. Compared(n, a, b, f)
  <2>1. (f.CF \/ f.ZF) <=> a <= b  BY <1>2, <1>5, <1>11
  <2>2. (f.ZF \/ ~ (f.SF <=> f.OF)) <=> x <= y  BY <1>10, <1>11
  <2> QED BY <1>5, <1>10, <1>11, <2>1, <2>2 DEF Compared
<1>13. f.OF <=> ~ Fits(n, Signed(a, n) - Signed(b, n))
  BY <1>1, <1>10, <1>11 DEF Fits
<1> QED BY <1>7, <1>11, <1>12, <1>13 DEF f

LEMMA AddMeans ==
    ASSUME NEW n \in 1 .. QWORD, NEW a \in 0 .. Power[n] - 1, NEW b \in 0 .. Power[n] - 1
    PROVE  LET f == wg_x86_update_flags_add(a, b, Wrap(a + b), n)
           IN  /\ f \in Flags
               /\ n < QWORD => (f.CF <=> a + b >= Power[n])
               /\ f.OF <=> ~ Fits(n, Signed(a, n) + Signed(b, n))
<1> DEFINE f == wg_x86_update_flags_add(a, b, Wrap(a + b), n)
           l == Low(Wrap(a + b), n)
<1>1. PICK H \in Nat : H = Power[n - 1] /\ H > 0 /\ Power[n] = 2 * H  BY Powers, Widths
<1>2. a \in Int /\ b \in Int /\ n \in 0 .. QWORD /\ a + b \in Int  BY <1>1, Widths
<1>3. Wrap(a + b) \in Int  BY <1>2, WordsSmall
<1>4. l = IF a + b < 2 * H THEN a + b ELSE a + b - 2 * H
  BY <1>1, <1>2, WordsSmall, LowDifference
<1>5. /\ f.CF <=> Wrap(a + b) >= Power[n]
      /\ f.OF <=> ~ (a >= H <=> l >= H) /\ ~ (b >= H <=> l >= H)
  BY <1>1, <1>3, FlagsMean
<1>6. Signed(a, n) = WithSign(a, H) /\ Signed(b, n) = WithSign(b, H)
  BY <1>1, <1>2, SignedIs, LowSmall
<1>7. f \in Flags  BY <1>2, <1>3, FlagsTyped
<1>8. ASSUME n < QWORD PROVE Wrap(a + b) = a + b
  <2>1. QWORD \in 0 .. QWORD /\ n \in 0 .. QWORD  BY Widths
  <2>2. 2 * Power[n] <= Power[QWORD] /\ Power[QWORD] \in Nat  BY <1>8, <2>1, PowersGrow, Powers
  <2>3. a + b \in Words  BY <1>1, <1>2, <2>2 DEF Words
  <2> QED BY <2>3, WordsSmall
<1> HIDE DEF f, l
<1>9. PICK m \in Int : m = l  BY <1>1, <1>2, <1>4
<1>10. f.OF <=> WithSign(a, H) + WithSign(b, H) \notin -H .. H - 1
  <2>1. a \in 0 .. 2 * H - 1 /\ b \in 0 .. 2 * H - 1 /\ m = IF a + b < 2 * H THEN a + b ELSE a + b - 2 * H
    BY <1>1, <1>4, <1>9
  <2>2. (~ (a >= H <=> m >= H) /\ ~ (b >= H <=> m >= H))
          <=> WithSign(a, H) + WithSign(b, H) \notin -H .. H - 1
    BY <1>1, <2>1 DEF WithSign
  <2> QED BY <1>5, <1>9, <2>2
<1>11. f.OF <=> ~ Fits(n, Signed(a, n) + Signed(b, n))
  BY <1>1, <1>6, <1>10 DEF Fits
<1> QED BY <1>5, <1>7, <1>8, <1>11 DEF f

LEMMA SignedOne ==
    ASSUME NEW n \in 2 .. QWORD
    PROVE  Signed(1, n) = 1 /\ 1 \in 0 .. Power[n] - 1
<1>1. n \in 1 .. QWORD /\ n - 1 \in 1 .. QWORD /\ n \in 0 .. QWORD /\ (n - 1) - 1 \in 0 .. QWORD  BY Widths
<1>2. PICK G \in Nat \ {0} : G = Power[(n - 1) - 1]  BY <1>1, Powers
<1>3. Power[n - 1] = 2 * G /\ Power[n] = 2 * (2 * G)  BY <1>1, <1>2, Powers
<1>4. 1 \in 0 .. Power[n] - 1  BY <1>2, <1>3
<1>5. Low(1, n) = 1  BY <1>1, <1>4, LowSmall
<1> QED BY <1>1, <1>2, <1>3, <1>4, <1>5, SignedIs DEF WithSign

-----------------------------------------------------------------------------
(* The instructions.                                                       *)

Registers == dst \in Words /\ src \in Words /\ flags \in Flags

Outcome ==
    /\ dst' \in Words /\ flags' \in Flags /\ ran' \in Ran
    /\ Meaning(ran'.op, ran'.size, ran'.a, ran'.b, ran'.old, ran'.before, flags', dst')

LEMMA SizeIs ==
    ASSUME NEW size \in Sizes
    PROVE  /\ size \in 1 .. QWORD /\ size \in 0 .. QWORD /\ size \in {BYTE, DWORD, QWORD}
           /\ BitsFor(size) \in 2 .. QWORD /\ BitsFor(size) \in 1 .. QWORD
           /\ BitsFor(size) \in 0 .. QWORD /\ BitsFor(size) \in Sizes
           /\ size \in 0 .. BitsFor(size)
           /\ size # BYTE => BitsFor(size) = size
           /\ size = DWORD => size # BYTE /\ size < QWORD
           /\ Power[size] \in Nat \ {0} /\ Power[BitsFor(size)] \in Nat \ {0}
           /\ \A a \in 0 .. Power[size] - 1 : a \in Int /\ a \in 0 .. Power[BitsFor(size)] - 1
<1>1. /\ size \in 1 .. QWORD /\ size \in 0 .. QWORD /\ size \in {BYTE, DWORD, QWORD}
      /\ BitsFor(size) \in 2 .. QWORD /\ BitsFor(size) \in 1 .. QWORD
      /\ BitsFor(size) \in 0 .. QWORD /\ BitsFor(size) \in Sizes
      /\ size \in 0 .. BitsFor(size)
      /\ size # BYTE => BitsFor(size) = size
      /\ size = DWORD => size # BYTE /\ size < QWORD
  BY Widths DEF Sizes, BitsFor
<1>2. Power[size] \in Nat \ {0} /\ Power[BitsFor(size)] \in Nat \ {0}  BY <1>1, Powers
<1>3. Power[size] <= Power[BitsFor(size)]  BY <1>1, PowersGrow
<1> QED BY <1>1, <1>2, <1>3

\* The record Done makes.
LEMMA DoneIs ==
    ASSUME Registers, NEW op \in Kinds, NEW a \in Int, NEW b \in Int, NEW size \in Sizes,
           NEW bits \in Sizes
    PROVE  LET d == Done(op, a, b, size, bits)
           IN  /\ d \in Ran /\ d.op = op /\ d.a = a /\ d.b = b /\ d.size = size /\ d.bits = bits
               /\ d.old = dst /\ d.before = flags
  BY DEF Done, Ran, Registers

LEMMA AluOutcome ==
    ASSUME Registers, NEW op \in Arithmetic2, NEW size \in Sizes, Alu(op, size, BitsFor(size))
    PROVE  Outcome
<1> DEFINE bits == BitsFor(size)
           a == read_operand(dst, size)
           b == read_operand(src, size)
           r == CASE op = "ADD" -> Wrap(a + b)
                  [] op \in {"SUB", "CMP"} -> Wrap(a - b)
                  [] OTHER -> Logic(op, a, b)
<1>0. /\ dst' = (IF op \in {"CMP", "TEST"} THEN dst ELSE write_operand(dst, size, r))
      /\ flags' = (CASE op = "ADD" -> wg_x86_update_flags_add(a, b, r, bits)
                     [] op \in {"SUB", "CMP"} -> wg_x86_update_flags_sub(a, b, r, bits)
                     [] OTHER -> wg_x86_update_flags_logic(r, bits))
      /\ ran' = Done(op, a, b, size, bits)
  BY DEF Alu
<1>1. a \in 0 .. Power[size] - 1 /\ b \in 0 .. Power[size] - 1
  BY SizeIs, LowTyped, WordsSmall DEF Registers, read_operand
<1>2. a \in Int /\ b \in Int /\ a \in 0 .. Power[bits] - 1 /\ b \in 0 .. Power[bits] - 1
      /\ bits \in Sizes /\ bits \in 1 .. QWORD /\ bits \in 0 .. QWORD /\ size \in 0 .. QWORD
      /\ size \in {BYTE, DWORD, QWORD} /\ (size # BYTE => bits = size)
      /\ (size = DWORD => size # BYTE /\ size < QWORD) /\ size \in 0 .. bits /\ size \in 1 .. QWORD
  BY <1>1, SizeIs
<1>3. op \in Kinds  BY DEF Kinds, Arithmetic2
<1>4. /\ ran' \in Ran /\ ran'.op = op /\ ran'.a = a /\ ran'.b = b /\ ran'.size = size
      /\ ran'.old = dst /\ ran'.before = flags
  BY <1>0, <1>2, <1>3, DoneIs
<1>5. a + b \in Int /\ a - b \in Int  BY <1>2
<1> HIDE DEF a, b, bits
<1>6. CASE op = "ADD"
  <2>1. r = Wrap(a + b) /\ flags' = wg_x86_update_flags_add(a, b, r, bits)
        /\ dst' = write_operand(dst, size, r)
    BY <1>0, <1>6
  <2>2. dst' \in Words /\ Result(size, a + b, dst, dst')
    <3>1. dst' = write_operand(dst, size, Wrap(a + b))  BY <2>1
    <3> QED BY <1>2, <1>5, <3>1, OperandWritten DEF Registers, Result
  <2>3. /\ flags' \in Flags
        /\ bits < QWORD => (flags'.CF <=> a + b >= Power[bits])
        /\ flags'.OF <=> ~ Fits(bits, Signed(a, bits) + Signed(b, bits))
    BY <1>2, <2>1, AddMeans
  <2>4. Meaning(op, size, a, b, dst, flags, flags', dst')
    BY <1>2, <1>6, <2>2, <2>3 DEF Meaning
  <2> QED BY <1>4, <2>2, <2>3, <2>4 DEF Outcome
<1>7. CASE op \in {"SUB", "CMP"}
  <2>1. r = Wrap(a - b) /\ flags' = wg_x86_update_flags_sub(a, b, r, bits)
    BY <1>0, <1>7
  <2>2. dst' \in Words /\ (op = "SUB" => Result(size, a - b, dst, dst'))
    <3>1. CASE op = "SUB"
      <4>1. dst' = write_operand(dst, size, Wrap(a - b))  BY <1>0, <2>1, <3>1
      <4> QED BY <1>2, <1>5, <4>1, OperandWritten DEF Registers, Result
    <3>2. CASE op = "CMP"  BY <1>0, <3>2 DEF Registers
    <3> QED BY <1>7, <3>1, <3>2
  <2>3. /\ flags' \in Flags /\ Compared(bits, a, b, flags') /\ (flags'.ZF <=> a = b)
        /\ flags'.OF <=> ~ Fits(bits, Signed(a, bits) - Signed(b, bits))
    BY <1>2, <2>1, SubMeans
  <2>4. Meaning(op, size, a, b, dst, flags, flags', dst')
    BY <1>2, <1>7, <2>2, <2>3 DEF Meaning
  <2> QED BY <1>4, <2>2, <2>3, <2>4 DEF Outcome
<1>8. CASE op \in {"AND", "OR", "XOR", "TEST"}
  <2>1. r = Logic(op, a, b) /\ flags' = wg_x86_update_flags_logic(r, bits)
    BY <1>0, <1>8
  <2>2. r \in 0 .. Power[size] - 1  BY <1>1, <1>2, <1>8, <2>1, LogicSmall
  <2>3. r \in Words /\ r \in Int /\ Wrap(r) = r /\ r \in 0 .. Power[bits] - 1
    BY <1>2, <2>2, WordsSmall, SizeIs DEF bits
  <2> HIDE DEF r
  <2>4. dst' \in Words /\ (op # "TEST" => Low(dst', size) = r)
    <3>1. CASE op # "TEST"
      <4>1. dst' = write_operand(dst, size, Wrap(r))  BY <1>0, <1>8, <2>3, <3>1
      <4>2. dst' \in Words /\ Low(dst', size) = Low(r, size)
        BY <1>2, <2>3, <4>1, OperandWritten DEF Registers
      <4> QED BY <1>2, <2>2, <4>2, LowSmall
    <3>2. CASE op = "TEST"  BY <1>0, <3>2 DEF Registers
    <3> QED BY <3>1, <3>2
  <2>5. flags' \in Flags  BY <1>2, <1>5, <2>1, <2>3, FlagsTyped
  <2>6. flags'.ZF <=> r = 0
    <3>1. Low(r, bits) = r  BY <1>2, <2>3, LowSmall
    <3> QED BY <2>1, <3>1 DEF wg_x86_update_flags_logic, Sum
  <2>7. Meaning(op, size, a, b, dst, flags, flags', dst')
    BY <1>8, <2>4, <2>6 DEF Meaning
  <2> QED BY <1>4, <2>4, <2>5, <2>7 DEF Outcome
<1> QED BY <1>6, <1>7, <1>8 DEF Arithmetic2

LEMMA UnaryOutcome ==
    ASSUME Registers, NEW op \in {"INC", "DEC", "NOT", "NEG"}, NEW size \in Sizes,
           Unary(op, size, BitsFor(size))
    PROVE  Outcome
<1> DEFINE bits == BitsFor(size)
           a == read_operand(dst, size)
           x == CASE op = "INC" -> a + 1 [] op = "DEC" -> a - 1
                  [] op = "NOT" -> -1 - a [] op = "NEG" -> 0 - a
<1>1. a \in 0 .. Power[size] - 1
  BY SizeIs, LowTyped, WordsSmall DEF Registers, read_operand
<1>2. a \in Int /\ a \in 0 .. Power[bits] - 1
      /\ bits \in Sizes /\ bits \in 1 .. QWORD /\ bits \in 2 .. QWORD
      /\ size \in {BYTE, DWORD, QWORD} /\ (size # BYTE => bits = size)
  BY <1>1, SizeIs
<1>3. op \in Kinds  BY DEF Kinds
<1> HIDE DEF bits
<1>4. Signed(1, bits) = 1 /\ 1 \in 0 .. Power[bits] - 1  BY <1>2, SignedOne
<1>5. x \in Int  BY <1>2
<1>6. dst' = write_operand(dst, size, Wrap(x)) /\ ran' = Done(op, a, 0, size, bits)
  BY DEF Unary, bits
<1> HIDE DEF a
<1>7. /\ ran' \in Ran /\ ran'.op = op /\ ran'.a = a /\ ran'.b = 0 /\ ran'.size = size
      /\ ran'.old = dst /\ ran'.before = flags
  BY <1>2, <1>3, <1>6, DoneIs
<1>8. dst' \in Words /\ Result(size, x, dst, dst')
  <2> HIDE DEF x
  <2> QED BY <1>2, <1>5, <1>6, OperandWritten DEF Registers, Result
<1>9. flags' = CASE op = "INC" -> [wg_x86_update_flags_add(a, 1, Wrap(x), bits) EXCEPT !.CF = flags.CF]
                 [] op = "DEC" -> [wg_x86_update_flags_sub(a, 1, Wrap(x), bits) EXCEPT !.CF = flags.CF]
                 [] op = "NEG" -> wg_x86_update_flags_sub(0, a, Wrap(x), bits)
                 [] op = "NOT" -> flags
  BY DEF Unary, bits, a
<1>10. flags.CF \in BOOLEAN  BY DEF Registers, Flags
<1>11. \A f \in Flags : /\ [f EXCEPT !.CF = flags.CF] \in Flags
                        /\ [f EXCEPT !.CF = flags.CF].CF = flags.CF
                        /\ [f EXCEPT !.CF = flags.CF].OF = f.OF
  BY <1>10 DEF Flags
<1>12. CASE op = "INC"
  <2> DEFINE f == wg_x86_update_flags_add(a, 1, Wrap(a + 1), bits)
  <2>1. f \in Flags /\ (f.OF <=> ~ Fits(bits, Signed(a, bits) + 1))
    <3>1. f \in Flags /\ (f.OF <=> ~ Fits(bits, Signed(a, bits) + Signed(1, bits)))
      BY <1>2, <1>4, AddMeans
    <3> HIDE DEF f
    <3> QED BY <1>4, <3>1
  <2>2. flags' = [f EXCEPT !.CF = flags.CF]  BY <1>9, <1>12
  <2> HIDE DEF f
  <2>3. flags' \in Flags /\ flags'.CF = flags.CF /\ (flags'.OF <=> ~ Fits(bits, Signed(a, bits) + 1))
    BY <1>11, <2>1, <2>2
  <2>4. Meaning(op, size, a, 0, dst, flags, flags', dst')
    BY <1>2, <1>12, <2>3 DEF Meaning
  <2> QED BY <1>7, <1>8, <2>3, <2>4 DEF Outcome
<1>13. CASE op = "DEC"
  <2> DEFINE f == wg_x86_update_flags_sub(a, 1, Wrap(a - 1), bits)
  <2>1. f \in Flags /\ (f.OF <=> ~ Fits(bits, Signed(a, bits) - 1))
    <3>1. f \in Flags /\ (f.OF <=> ~ Fits(bits, Signed(a, bits) - Signed(1, bits)))
      BY <1>2, <1>4, SubMeans
    <3> HIDE DEF f
    <3> QED BY <1>4, <3>1
  <2>2. flags' = [f EXCEPT !.CF = flags.CF]  BY <1>9, <1>13
  <2> HIDE DEF f
  <2>3. flags' \in Flags /\ flags'.CF = flags.CF /\ (flags'.OF <=> ~ Fits(bits, Signed(a, bits) - 1))
    BY <1>11, <2>1, <2>2
  <2>4. Meaning(op, size, a, 0, dst, flags, flags', dst')
    BY <1>2, <1>13, <2>3 DEF Meaning
  <2> QED BY <1>7, <1>8, <2>3, <2>4 DEF Outcome
<1>14. CASE op \in {"NOT", "NEG"}
  <2>1. flags' \in Flags
    <3>1. Wrap(x) \in Int  BY <1>5, WordsSmall
    <3> HIDE DEF x
    <3>2. wg_x86_update_flags_sub(0, a, Wrap(x), bits) \in Flags  BY <1>2, <3>1, FlagsTyped
    <3> QED BY <1>9, <1>14, <3>2 DEF Registers
  <2>2. op = "NEG" => Result(size, -a, dst, dst')
    <3>1. op = "NEG" => x = -a  BY <1>2
    <3> HIDE DEF x
    <3> QED BY <1>8, <3>1
  <2>3. Meaning(op, size, a, 0, dst, flags, flags', dst')
    BY <1>14, <2>2 DEF Meaning
  <2> QED BY <1>7, <1>8, <2>1, <2>3 DEF Outcome
<1> QED BY <1>12, <1>13, <1>14

LEMMA SignedTyped ==
    ASSUME NEW x \in Int, NEW n \in 1 .. QWORD
    PROVE  Signed(x, n) \in Int
<1>1. n \in 0 .. QWORD /\ n - 1 \in 0 .. QWORD  BY Widths
<1>2. Low(x, n) \in Int /\ Power[n - 1] \in Int  BY <1>1, LowTyped, Powers
<1> QED BY <1>2, SignedIs DEF WithSign

LEMMA ShiftOutcome ==
    ASSUME Registers, NEW op \in {"SHL", "SHR", "SAR"}, NEW size \in Sizes,
           Shift(op, size, BitsFor(size))
    PROVE  Outcome
<1> DEFINE bits == BitsFor(size)
           a == read_operand(dst, size)
           n == Low(src, BYTE)
           x == CASE op = "SHL" -> a * Power[n]
                  [] op = "SHR" -> a \div Power[n]
                  [] op = "SAR" -> Signed(a, bits) \div Power[n]
<1>1. a \in 0 .. Power[size] - 1
  BY SizeIs, LowTyped, WordsSmall DEF Registers, read_operand
<1>2. a \in Int /\ a \in 0 .. Power[bits] - 1
      /\ bits \in Sizes /\ bits \in 1 .. QWORD /\ bits \in 0 .. QWORD
      /\ size \in {BYTE, DWORD, QWORD} /\ (size # BYTE => bits = size) /\ size \in 0 .. QWORD
      /\ Power[size] \in Nat \ {0}
  BY <1>1, SizeIs
<1>3. op \in Kinds  BY DEF Kinds
<1>4. n \in 1 .. bits - 1 /\ ran' = Done(op, a, n, size, bits)  BY DEF Shift
<1>5. n \in 0 .. QWORD /\ n \in Int  BY <1>2, <1>4, Widths
<1>6. PICK R \in Nat \ {0} : R = Power[n]  BY <1>5, Powers
<1>7. /\ ran' \in Ran /\ ran'.op = op /\ ran'.a = a /\ ran'.b = n /\ ran'.size = size
      /\ ran'.old = dst /\ ran'.before = flags
  BY <1>2, <1>3, <1>4, <1>5, DoneIs, SMTT(30)
<1>8. Low(a, bits) = a  BY <1>2, LowSmall
<1> HIDE DEF a, n, bits
<1>9. Signed(a, bits) \in Int  BY <1>2, SignedTyped
<1>10. a * R \in Int /\ a \div R \in Int /\ Signed(a, bits) \div R \in Int
  BY <1>2, <1>6, <1>9, Division
<1>11. x \in Int  BY <1>6, <1>10
<1>12. dst' = write_operand(dst, size, Wrap(x)) /\ \E r \in Int : 
         \E c \in BOOLEAN : flags' = [wg_x86_update_flags_logic(r, bits) EXCEPT !.CF = c]
  <2> DEFINE r == CASE op = "SHL" -> Wrap(a * Power[n])
                    [] op = "SHR" -> Low(a, bits) \div Power[n]
                    [] op = "SAR" -> Wrap(Signed(a, bits) \div Power[n])
             c == IF op = "SHL" THEN Bit(a, bits - n) ELSE Bit(a, n - 1)
  <2>1. dst' = write_operand(dst, size, r)
        /\ flags' = [wg_x86_update_flags_logic(r, bits) EXCEPT !.CF = c]
    BY DEF Shift, a, n, bits
  <2>2. r = Wrap(x)
    <3>1. CASE op = "SHR"
      <4>1. a \div R \in 0 .. Power[size] - 1
        <5>9. R \in Int /\ R > 0  BY <1>6
        <5>0. a \div R \in Int /\ a % R \in 0 .. R - 1 /\ a = R * (a \div R) + (a % R)
          BY <1>2, <5>9, Division
        <5>1. PICK q \in Int, e \in 0 .. R - 1 : q = a \div R /\ a = R * q + e
          BY <5>0
        <5>2. q >= 0
          <6> SUFFICES ASSUME q <= -1 PROVE FALSE  BY <5>1
          <6>1. PICK d \in Nat : q = -1 - d  BY <5>1
          <6>2. R * q = -R - R * d /\ R * d >= 0  BY <6>1, <1>6
          <6> QED BY <1>1, <1>2, <1>6, <5>1, <6>2 DEF a
        <5>3. PICK u \in Nat : R = u + 1  BY <1>6
        <5>4. R * q = u * q + q /\ u * q >= 0  BY <5>1, <5>2, <5>3
        <5>6. PICK w \in Nat : w = u * q  BY <5>1, <5>2, <5>3
        <5>5. q <= a  BY <1>2, <5>1, <5>4, <5>6, <1>6
        <5> QED BY <1>1, <1>2, <5>1, <5>2, <5>5 DEF a
      <4>2. Wrap(a \div R) = a \div R  BY <1>2, <4>1, WordsSmall
      <4> QED BY <1>6, <1>8, <3>1, <4>2
    <3>2. CASE op \in {"SHL", "SAR"}  BY <3>2
    <3> QED BY <3>1, <3>2
  <2>3. Wrap(x) \in Int  BY <1>11, WordsSmall
  <2>4. c \in BOOLEAN  BY DEF Bit
  <2> HIDE DEF r, c, x
  <2> QED BY <2>1, <2>2, <2>3, <2>4
<1>13. dst' \in Words /\ Result(size, x, dst, dst')
  <2> HIDE DEF x
  <2> QED BY <1>2, <1>11, <1>12, OperandWritten DEF Registers, Result
<1>14. flags' \in Flags
  <2>1. PICK r \in Int, c \in BOOLEAN :
          flags' = [wg_x86_update_flags_logic(r, bits) EXCEPT !.CF = c]
    BY <1>12
  <2>2. wg_x86_update_flags_logic(r, bits) \in Flags  BY <1>2, FlagsTyped
  <2> QED BY <2>1, <2>2 DEF Flags
<1>15. Meaning(op, size, a, n, dst, flags, flags', dst')
  BY <1>2, <1>13 DEF Meaning
<1> QED BY <1>7, <1>13, <1>14, <1>15 DEF Outcome

LEMMA MoveOutcome ==
    ASSUME Registers, NEW op \in {"MOV", "MOVZX", "MOVSX", "CMOVcc"}, NEW from \in Sizes,
           NEW size \in Sizes, Move(op, from, size)
    PROVE  Outcome
<1> DEFINE a == read_operand(src, from)
<1>1. a \in Int  BY SizeIs, LowTyped, WordsSmall DEF Registers, read_operand
<1>2. ran' = Done(op, a, from, size, size) /\ UNCHANGED flags  BY DEF Move
<1>3. op \in Kinds /\ from \in Int  BY SizeIs, Widths DEF Kinds, Sizes
<1>4. a \in Words /\ Wrap(a) = a
  <2>1. a \in 0 .. Power[from] - 1  BY SizeIs, LowTyped, WordsSmall DEF Registers, read_operand
  <2>2. from \in 0 .. QWORD  BY SizeIs
  <2> HIDE DEF a
  <2>3. a \in Words  BY <2>1, <2>2, WordsSmall
  <2> QED BY <2>3, WordsSmall
<1> HIDE DEF a
<1>5. /\ ran' \in Ran /\ ran'.op = op  BY <1>1, <1>2, <1>3, DoneIs
<1>6. \/ dst' = dst
      \/ dst' = write_operand(dst, size, Wrap(a))
      \/ dst' = write_operand(dst, size, Wrap(Signed(a, from)))
  <2>1. dst' = IF op = "CMOVcc" /\ ~ eval_condition("L") THEN dst
               ELSE write_operand(dst, size, IF op = "MOVSX" THEN sign_extend(a, from) ELSE a)
    BY DEF Move, a
  <2>2. sign_extend(a, from) = Wrap(Signed(a, from))  BY DEF sign_extend
  <2> QED BY <1>4, <2>1, <2>2
<1>7. Signed(a, from) \in Int  BY <1>1, SignedTyped, SizeIs
<1>8. dst' \in Words
  <2>1. size \in {BYTE, DWORD, QWORD}  BY SizeIs
  <2>2. \A x \in Int : write_operand(dst, size, Wrap(x)) \in Words  BY <2>1, OperandWritten DEF Registers
  <2> QED BY <1>1, <1>6, <1>7, <2>2 DEF Registers
<1>9. Meaning(ran'.op, ran'.size, ran'.a, ran'.b, ran'.old, ran'.before, flags', dst')
  BY <1>5 DEF Meaning
<1> QED BY <1>2, <1>5, <1>8, <1>9 DEF Outcome, Registers

LEMMA OthersOutcome ==
    ASSUME Registers
    PROVE  /\ \A cc \in Conditions : SetCC(cc) => Outcome
           /\ \A size \in Sizes : IMul(size) => Outcome
           /\ \A size \in Sizes : Xchg(size) => Outcome /\ src' \in Words
<1>1. ASSUME NEW cc \in Conditions, SetCC(cc) PROVE Outcome
  <2> DEFINE v == Value(eval_condition(cc))
  <2>1. v \in {0, 1}  BY DEF Value
  <2>2. ran' = Done("SETcc", v, 0, BYTE, BYTE) /\ dst' = write_operand(dst, BYTE, v)
        /\ UNCHANGED flags
    BY <1>1 DEF SetCC
  <2> HIDE DEF v
  <2>3. BYTE \in Sizes /\ "SETcc" \in Kinds /\ v \in Int /\ 0 \in Int  BY <2>1 DEF Sizes, Kinds
  <2>4. ran' \in Ran /\ ran'.op = "SETcc"  BY <2>2, <2>3 DEF Done, Ran, Registers
  <2>5. v \in Words
    <3>1. QWORD \in 1 .. QWORD /\ QWORD - 1 \in 0 .. QWORD  BY Widths
    <3>2. Power[QWORD - 1] \in Nat \ {0} /\ Power[QWORD] = 2 * Power[QWORD - 1]  BY <3>1, Powers
    <3> QED BY <2>1, <3>2 DEF Words
  <2>6. dst' = write_operand(dst, BYTE, Wrap(v))  BY <2>2, <2>5, WordsSmall
  <2>7. dst' \in Words  BY <2>3, <2>6, OperandWritten DEF Registers
  <2>8. Meaning(ran'.op, ran'.size, ran'.a, ran'.b, ran'.old, ran'.before, flags', dst')
    BY <2>4 DEF Meaning
  <2> QED BY <2>2, <2>4, <2>7, <2>8 DEF Outcome, Registers
<1>2. ASSUME NEW size \in Sizes PROVE Low(dst, size) \in Int /\ Low(src, size) \in Int
             /\ Low(dst, size) \in Words /\ Low(src, size) \in Words
  <2>1. size \in 0 .. QWORD /\ dst \in Int /\ src \in Int  BY SizeIs, WordsSmall DEF Registers
  <2>2. Low(dst, size) \in 0 .. Power[size] - 1 /\ Low(src, size) \in 0 .. Power[size] - 1
    BY <2>1, LowTyped
  <2> QED BY <2>1, <2>2, WordsSmall
<1>3. ASSUME NEW size \in Sizes, IMul(size) PROVE Outcome
  <2> DEFINE a == Low(dst, size)
             b == Low(src, size)
             x == Signed(a, size) * Signed(b, size)
  <2>1. /\ dst' = write_operand(dst, size, Wrap(x)) /\ ran' = Done("IMUL", a, b, size, size)
        /\ UNCHANGED flags
    BY <1>3 DEF IMul, read_operand
  <2>2. a \in Int /\ b \in Int  BY <1>2
  <2>3. Signed(a, size) \in Int /\ Signed(b, size) \in Int  BY <2>2, SignedTyped, SizeIs
  <2>4. x \in Int  BY <2>3
  <2> HIDE DEF a, b
  <2>5. "IMUL" \in Kinds  BY DEF Kinds
  <2>6. /\ ran' \in Ran /\ ran'.op = "IMUL" /\ ran'.a = a /\ ran'.b = b /\ ran'.size = size
        /\ ran'.old = dst
    <3>1. PICK d : d = Done("IMUL", a, b, size, size)  OBVIOUS
    <3>2. /\ d \in Ran /\ d.op = "IMUL" /\ d.a = a /\ d.b = b /\ d.size = size /\ d.old = dst
      BY <2>2, <2>5, <3>1, DoneIs
    <3> QED BY <2>1, <3>1, <3>2
  <2>7. dst' \in Words /\ Result(size, x, dst, dst')
    <3> HIDE DEF x
    <3> QED BY <2>1, <2>4, SizeIs, OperandWritten DEF Registers, Result
  <2>8. Meaning(ran'.op, ran'.size, ran'.a, ran'.b, ran'.old, ran'.before, flags', dst')
    BY <2>6, <2>7 DEF Meaning
  <2> QED BY <2>1, <2>6, <2>7, <2>8 DEF Outcome, Registers
<1>4. ASSUME NEW size \in Sizes, Xchg(size) PROVE Outcome /\ src' \in Words
  <2> DEFINE a == Low(dst, size)
             b == Low(src, size)
  <2>1. /\ dst' = write_operand(dst, size, b) /\ src' = write_operand(src, size, a)
        /\ ran' = Done("XCHG", a, b, size, size) /\ UNCHANGED flags
    BY <1>4 DEF Xchg, read_operand
  <2>2. a \in Int /\ b \in Int /\ Wrap(a) = a /\ Wrap(b) = b  BY <1>2, WordsSmall
  <2> HIDE DEF a, b
  <2>5. "XCHG" \in Kinds  BY DEF Kinds
  <2>6. ran' \in Ran /\ ran'.op = "XCHG"  BY <2>1, <2>2, <2>5, DoneIs
  <2>7. dst' = write_operand(dst, size, Wrap(b)) /\ src' = write_operand(src, size, Wrap(a))
    BY <2>1, <2>2
  <2>8. dst' \in Words /\ src' \in Words
    BY <2>2, <2>7, SizeIs, OperandWritten DEF Registers
  <2>9. Meaning(ran'.op, ran'.size, ran'.a, ran'.b, ran'.old, ran'.before, flags', dst')
    BY <2>6 DEF Meaning
  <2> QED BY <2>1, <2>6, <2>8, <2>9 DEF Outcome, Registers
<1> QED BY <1>1, <1>3, <1>4

LEMMA ExecOutcome ==
    ASSUME Registers, exec_one
    PROVE  Outcome /\ src' \in Words
<1>1. \A size \in Sizes, op \in Arithmetic2 : Alu(op, size, BitsFor(size)) => Outcome
  BY AluOutcome
<1>2. \A size \in Sizes, op \in {"INC", "DEC", "NOT", "NEG"} :
         Unary(op, size, BitsFor(size)) => Outcome
  BY UnaryOutcome
<1>3. \A size \in Sizes, op \in {"SHL", "SHR", "SAR"} :
         Shift(op, size, BitsFor(size)) => Outcome
  BY ShiftOutcome
<1>4. \A size \in Sizes, op \in {"MOV", "MOVZX", "MOVSX", "CMOVcc"},
           from \in Sizes : Move(op, from, size) => Outcome
  BY MoveOutcome
<1> QED BY <1>1, <1>2, <1>3, <1>4, OthersOutcome DEF exec_one, Registers

-----------------------------------------------------------------------------
(* The stack.                                                              *)

LEMMA PutBefore ==
    ASSUME NEW S, NEW s \in Seq(S), NEW x \in S, NEW y \in S
    PROVE  /\ <<x>> \o s \in Seq(S) /\ Len(<<x>> \o s) = Len(s) + 1
           /\ (<<x>> \o s)[1] = x /\ \A j \in 1 .. Len(s) : (<<x>> \o s)[j + 1] = s[j]
           /\ <<x, y>> \o s \in Seq(S) /\ Len(<<x, y>> \o s) = Len(s) + 2
           /\ (<<x, y>> \o s)[1] = x /\ (<<x, y>> \o s)[2] = y
           /\ \A j \in 1 .. Len(s) : (<<x, y>> \o s)[j + 2] = s[j]
<1>1. <<x>> \in Seq(S) /\ Len(<<x>>) = 1 /\ <<x, y>> \in Seq(S) /\ Len(<<x, y>>) = 2
      /\ <<x>>[1] = x /\ <<x, y>>[1] = x /\ <<x, y>>[2] = y
  OBVIOUS
<1>2. PICK l \in Nat : l = Len(s)  OBVIOUS
<1>3. PICK t \in Seq(S) : t = <<x>> /\ Len(t) = 1 /\ t[1] = x  BY <1>1
<1>4. PICK u \in Seq(S) : u = <<x, y>> /\ Len(u) = 2 /\ u[1] = x /\ u[2] = y  BY <1>1
<1>5. /\ t \o s \in Seq(S) /\ Len(t \o s) = l + 1
      /\ \A i \in 1 .. l + 1 : (t \o s)[i] = IF i <= 1 THEN t[i] ELSE s[i - 1]
  BY <1>2, <1>3, ConcatProperties
<1>6. /\ u \o s \in Seq(S) /\ Len(u \o s) = l + 2
      /\ \A i \in 1 .. l + 2 : (u \o s)[i] = IF i <= 2 THEN u[i] ELSE s[i - 2]
  BY <1>2, <1>4, ConcatProperties
<1>7. (t \o s)[1] = x /\ \A j \in 1 .. l : (t \o s)[j + 1] = s[j]
  <2>1. \A j \in 1 .. l : j + 1 \in 1 .. l + 1 /\ ~ (j + 1 <= 1) /\ (j + 1) - 1 = j  BY <1>2
  <2>2. 1 \in 1 .. l + 1 /\ 1 <= 1  BY <1>2
  <2> QED BY <1>3, <1>5, <2>1, <2>2
<1>8. (u \o s)[1] = x /\ (u \o s)[2] = y /\ \A j \in 1 .. l : (u \o s)[j + 2] = s[j]
  <2>1. \A j \in 1 .. l : j + 2 \in 1 .. l + 2 /\ ~ (j + 2 <= 2) /\ (j + 2) - 2 = j  BY <1>2
  <2>2. 1 \in 1 .. l + 2 /\ 1 <= 2 /\ 2 \in 1 .. l + 2 /\ 2 <= 2  BY <1>2
  <2> QED BY <1>4, <1>6, <2>1, <2>2
<1> QED BY <1>2, <1>3, <1>4, <1>5, <1>6, <1>7, <1>8

\* What is at place d of the stack s, counted from its far end.
Place(s, d) == s[Len(s) - d + 1]

\* Frame i of frs: entered with more words on the stack than any frame further out,
\* behind the way back to it and the RBP its caller had.
FrameFits(s, frs, i) ==
    /\ frs[i].height \in Len(frs) - i .. Len(s) - 2
    /\ Place(s, frs[i].height + 2) = frs[i].rbp
    /\ Place(s, frs[i].height + 1) = Len(frs) - i + 1
    /\ frs[i].rbp = IF i = Len(frs) THEN 0 ELSE frs[i + 1].height + 2
    /\ \A j \in i + 1 .. Len(frs) : frs[j].height + 2 <= frs[i].height

FramesFit(s, frs, bp) ==
    /\ s \in Seq(0 .. MaxStack) /\ Len(s) <= MaxStack
    /\ frs \in Seq([height : Nat, rbp : Nat])
    /\ bp = IF frs = <<>> THEN 0 ELSE frs[1].height + 2
    /\ \A i \in 1 .. Len(frs) : FrameFits(s, frs, i)

\* Only what is above RBP changes.
LEMMA SameFrames ==
    ASSUME NEW s, NEW t, NEW frs, NEW bp \in Int, FramesFit(s, frs, bp),
           t \in Seq(0 .. MaxStack), Len(t) \in bp .. MaxStack,
           \A d \in 1 .. bp : Place(t, d) = Place(s, d)
    PROVE  FramesFit(t, frs, bp)
<1>1. PICK l \in Nat, m \in Nat, k \in Nat : l = Len(s) /\ m = Len(t) /\ k = Len(frs)
  BY DEF FramesFit
<1>2. ASSUME NEW i \in 1 .. k PROVE FrameFits(t, frs, i)
  <2>1. FrameFits(s, frs, i) /\ FrameFits(s, frs, 1) /\ 1 \in 1 .. k /\ frs # <<>>
    BY <1>1, <1>2 DEF FramesFit
  <2>6. frs[i].height \in k - i .. l - 2  BY <1>1, <2>1 DEF FrameFits
  <2>2. PICK h \in Nat : h = frs[i].height /\ h >= k - i /\ h <= l - 2
    BY <1>1, <1>2, <2>6, SMTT(30)
  <2>3. h + 2 <= bp
    <3>1. CASE i = 1  BY <2>1, <2>2, <3>1 DEF FramesFit
    <3>2. CASE i # 1
      <4>1. i \in 1 + 1 .. Len(frs)  BY <1>1, <3>2
      <4>2. PICK g \in Nat : g = frs[1].height  BY <1>1, <2>1 DEF FrameFits
      <4>3. h + 2 <= g  BY <2>1, <2>2, <4>1, <4>2 DEF FrameFits
      <4>4. bp = g + 2  BY <2>1, <4>2 DEF FramesFit
      <4> QED BY <2>2, <4>2, <4>3, <4>4, SMTT(30)
    <3> QED BY <3>1, <3>2
  <2>4. Place(t, h + 2) = Place(s, h + 2) /\ Place(t, h + 1) = Place(s, h + 1)  BY <2>2, <2>3
  <2>5. h \in k - i .. m - 2  BY <1>1, <2>2, <2>3
  <2> QED BY <1>1, <2>1, <2>2, <2>4, <2>5 DEF FrameFits
<1> QED BY <1>1, <1>2 DEF FramesFit

LEMMA InBounds ==
    ASSUME NEW s, NEW frs, NEW bp, FramesFit(s, frs, bp)
    PROVE  bp \in 0 .. Len(s) /\ Len(frs) <= Len(s) /\ Len(s) \in Nat /\ Len(frs) \in Nat
<1>1. PICK l \in Nat, k \in Nat : l = Len(s) /\ k = Len(frs)  BY DEF FramesFit
<1>2. CASE frs = <<>>  BY <1>1, <1>2 DEF FramesFit
<1>3. CASE frs # <<>>
  <2>1. k >= 1 /\ FrameFits(s, frs, 1)  BY <1>1, <1>3 DEF FramesFit
  <2>2. PICK h \in Int : h = frs[1].height /\ h >= k - 1 /\ h <= l - 2  BY <1>1, <2>1, SMTT(30) DEF FrameFits
  <2>3. bp = h + 2  BY <1>3, <2>2 DEF FramesFit
  <2> QED BY <1>1, <2>1, <2>2, <2>3
<1> QED BY <1>2, <1>3

-----------------------------------------------------------------------------
(* The interpreter: the invariant.                                         *)

InterpInv ==
    /\ Registers /\ ran \in Ran
    /\ Meaning(ran.op, ran.size, ran.a, ran.b, ran.old, ran.before, flags, dst)
    /\ FramesFit(stack, frames, rbp)

LEMMA CallFits ==
    ASSUME FramesFit(stack, frames, rbp), Call
    PROVE  FramesFit(stack, frames, rbp)'
<1>1. PICK l \in Nat, k \in Nat : l = Len(stack) /\ k = Len(frames) /\ rbp \in 0 .. l /\ k <= l
  BY InBounds
<1>2. l + 2 <= MaxStack /\ MaxStack \in Nat  BY <1>1, InterpAssumption DEF Call
<1> DEFINE T == 0 .. MaxStack
           Fr == [height : Nat, rbp : Nat]
<1>3. PICK t : t = stack' /\ t = <<rbp, k + 1>> \o stack  BY <1>1 DEF Call
<1>4. stack \in Seq(T) /\ rbp \in T /\ k + 1 \in T  BY <1>1, <1>2 DEF FramesFit
<1>5. /\ t \in Seq(T) /\ Len(t) = l + 2 /\ t[1] = rbp /\ t[2] = k + 1
      /\ \A j \in 1 .. l : t[j + 2] = stack[j]
  BY <1>1, <1>3, <1>4, PutBefore
<1>6. PICK frs : frs = frames' /\ frs = <<Frame(l)>> \o frames  BY <1>1 DEF Call
<1>7. frames \in Seq(Fr) /\ Frame(l) \in Fr /\ Frame(l).height = l /\ Frame(l).rbp = rbp
  BY <1>1 DEF FramesFit, Frame
<1>8. /\ frs \in Seq(Fr) /\ Len(frs) = k + 1 /\ frs[1] = Frame(l)
      /\ \A j \in 1 .. k : frs[j + 1] = frames[j]
  BY <1>1, <1>6, <1>7, PutBefore
<1>9. rbp' = l + 2  BY <1>3, <1>5 DEF Call
<1>10. \A d \in 1 .. l : Place(t, d) = Place(stack, d)
  <2> SUFFICES ASSUME NEW d \in 1 .. l PROVE Place(t, d) = Place(stack, d)  OBVIOUS
  <2>1. l - d + 1 \in 1 .. l /\ (l + 2) - d + 1 = (l - d + 1) + 2  OBVIOUS
  <2> QED BY <1>1, <1>5, <2>1, SMTT(30) DEF Place
<1>11. \A i \in 1 .. k : FrameFits(stack, frames, i) /\ frames[i].height \in Nat
          /\ frames[i].height >= k - i /\ frames[i].height + 2 <= l
  <2> SUFFICES ASSUME NEW i \in 1 .. k
               PROVE FrameFits(stack, frames, i) /\ frames[i].height \in Nat
                     /\ frames[i].height >= k - i /\ frames[i].height + 2 <= l
    OBVIOUS
  <2>1. FrameFits(stack, frames, i)  BY <1>1 DEF FramesFit
  <2> QED BY <1>1, <2>1 DEF FrameFits
<1>12. FrameFits(t, frs, 1)
  <2>1. frs[1].height = l /\ frs[1].rbp = rbp  BY <1>7, <1>8
  <2>2. Place(t, l + 2) = rbp /\ Place(t, l + 1) = k + 1
    <3>1. (l + 2) - (l + 2) + 1 = 1 /\ (l + 2) - (l + 1) + 1 = 2  OBVIOUS
    <3> QED BY <1>5, <3>1 DEF Place
  <2>3. \A j \in 2 .. k + 1 : frs[j] = frames[j - 1] /\ j - 1 \in 1 .. k
    <3> SUFFICES ASSUME NEW j \in 2 .. k + 1 PROVE frs[j] = frames[j - 1] /\ j - 1 \in 1 .. k
      OBVIOUS
    <3>1. j - 1 \in 1 .. k /\ (j - 1) + 1 = j  OBVIOUS
    <3> QED BY <1>8, <3>1
  <2>4. rbp = IF 1 = k + 1 THEN 0 ELSE frs[2].height + 2
    <3>1. CASE k = 0
      <4>2. frames \in Seq(Fr) /\ Len(frames) = 0  BY <1>1, <1>7, <3>1
      <4> HIDE DEF Fr
      <4>1. frames = <<>>  BY <4>2, EmptySeq
      <4> QED BY <3>1, <4>1 DEF FramesFit
    <3>2. CASE k # 0
      <4>1. frames # <<>> /\ frs[2] = frames[1]  BY <1>1, <2>3, <3>2
      <4> QED BY <3>2, <4>1 DEF FramesFit
    <3> QED BY <3>1, <3>2
  <2>5. \A j \in 2 .. k + 1 : frs[j].height + 2 <= l  BY <1>11, <2>3
  <2>6. Len(frs) - 1 + 1 = k + 1 /\ l \in Len(frs) - 1 .. Len(t) - 2 /\ 1 + 1 = 2
    BY <1>1, <1>5, <1>8
  <2> QED BY <1>8, <2>1, <2>2, <2>4, <2>5, <2>6 DEF FrameFits
<1>13. ASSUME NEW i \in 1 .. k PROVE FrameFits(t, frs, i + 1)
  <2>1. frs[i + 1] = frames[i] /\ FrameFits(stack, frames, i)  BY <1>8, <1>11
  <2>2. PICK h \in Nat : h = frames[i].height /\ h >= k - i /\ h + 2 <= l  BY <1>11
  <2>3. Place(t, h + 2) = frames[i].rbp /\ Place(t, h + 1) = k - i + 1
    <3>1. h + 2 \in 1 .. l /\ h + 1 \in 1 .. l  BY <2>2
    <3>2. Place(stack, h + 2) = frames[i].rbp /\ Place(stack, h + 1) = k - i + 1
      BY <1>1, <2>1, <2>2 DEF FrameFits
    <3> QED BY <1>10, <3>1, <3>2
  <2>4. frames[i].rbp = IF i + 1 = k + 1 THEN 0 ELSE frs[i + 2].height + 2
    <3>1. i # k => i + 1 \in 1 .. k /\ (i + 1) + 1 = i + 2  BY <1>1
    <3>2. i # k => frs[i + 2] = frames[i + 1]  BY <1>8, <3>1
    <3> QED BY <1>1, <2>1, <3>2 DEF FrameFits
  <2>5. ASSUME NEW j \in i + 2 .. k + 1 PROVE frs[j].height + 2 <= h
    <3>1. j - 1 \in i + 1 .. k /\ (j - 1) + 1 = j /\ j - 1 \in 1 .. k  BY <1>1
    <3>2. frs[j] = frames[j - 1]  BY <1>8, <3>1
    <3> QED BY <1>1, <2>1, <2>2, <3>1, <3>2 DEF FrameFits
  <2>7. Len(frs) - (i + 1) = k - i /\ Len(t) - 2 = l  BY <1>5, <1>8
  <2>6. h \in Len(frs) - (i + 1) .. Len(t) - 2 /\ Len(frs) - (i + 1) + 1 = k - i + 1
        /\ (i + 1) + 1 = i + 2
    BY <2>2, <2>7
  <2> QED BY <1>8, <2>1, <2>2, <2>3, <2>4, <2>5, <2>6 DEF FrameFits
<1>14. \A i \in 1 .. Len(frs) : FrameFits(t, frs, i)
  <2> SUFFICES ASSUME NEW i \in 1 .. k + 1 PROVE FrameFits(t, frs, i)  BY <1>8
  <2>1. CASE i = 1  BY <1>12, <2>1
  <2>2. CASE i # 1
    <3>1. i - 1 \in 1 .. k /\ (i - 1) + 1 = i  BY <2>2
    <3>2. FrameFits(t, frs, (i - 1) + 1)  BY <1>13, <3>1
    <3> QED BY <3>1, <3>2
  <2> QED BY <2>1, <2>2
<1>15. frs # <<>> /\ frs[1].height = l  BY <1>7, <1>8
<1>16. FramesFit(t, frs, l + 2)  BY <1>2, <1>5, <1>8, <1>14, <1>15 DEF FramesFit
<1> QED BY <1>3, <1>6, <1>9, <1>16 DEF FramesFit, FrameFits, Place

LEMMA OutermostFits ==
    ASSUME NEW s, NEW frs, NEW bp, FramesFit(s, frs, bp), frs # <<>>
    PROVE  \E h, k \in Nat : /\ k = Len(frs) /\ k >= 1 /\ frs[1].height = h /\ bp = h + 2
                             /\ h >= k - 1 /\ h + 2 <= Len(s) /\ Len(s) \in Nat
                             /\ FrameFits(s, frs, 1)
<1>1. PICK l \in Nat, k \in Nat : l = Len(s) /\ k = Len(frs)  BY DEF FramesFit
<1>2. k >= 1 /\ FrameFits(s, frs, 1)  BY <1>1 DEF FramesFit
<1>3. PICK h \in Nat : h = frs[1].height /\ h >= k - 1 /\ h <= l - 2  BY <1>1, <1>2 DEF FrameFits
<1>4. bp = h + 2  BY <1>3 DEF FramesFit
<1>5. h + 2 <= Len(s) /\ Len(s) \in Nat  BY <1>1, <1>3
<1> WITNESS h \in Nat, k \in Nat
<1> QED BY <1>1, <1>2, <1>3, <1>4, <1>5

LEMMA WithoutFirst ==
    ASSUME NEW S, NEW s \in Seq(S), NEW n \in Nat, Len(s) = n + 1
    PROVE  /\ Tail(s) \in Seq(S) /\ Len(Tail(s)) = n
           /\ \A j \in 1 .. n : Tail(s)[j] = s[j + 1]
<1>1. s # <<>>  BY EmptySeq
<1> QED BY <1>1, HeadTailProperties

LEMMA PushPopFit ==
    ASSUME FramesFit(stack, frames, rbp), CallThunk \/ Push \/ Pop
    PROVE  FramesFit(stack, frames, rbp)'
<1> DEFINE T == 0 .. MaxStack
<1>1. PICK l \in Nat, k \in Nat : l = Len(stack) /\ k = Len(frames) /\ rbp \in 0 .. l /\ k <= l
  BY InBounds
<1>2. stack \in Seq(T) /\ MaxStack \in Nat /\ l <= MaxStack  BY <1>1, InterpAssumption DEF FramesFit
<1>3. FramesFit(stack', frames, rbp) => FramesFit(stack, frames, rbp)'
  BY DEF FramesFit, FrameFits, Place, CallThunk, Push, Pop
<1>4. CASE CallThunk
  <2> DEFINE pushed == <<k + 1>> \o stack
  <2>1. k + 1 \in T /\ l + 1 <= MaxStack  BY <1>1, <1>2, <1>4 DEF CallThunk
  <2>2. /\ pushed \in Seq(T) /\ Len(pushed) = l + 1
        /\ \A j \in 1 .. l : pushed[j + 1] = stack[j]
    BY <1>1, <1>2, <2>1, PutBefore
  <2>3. stack' = Tail(pushed)  BY <1>1, <1>4 DEF CallThunk
  <2> HIDE DEF pushed
  <2>4. /\ Tail(pushed) \in Seq(T) /\ Len(Tail(pushed)) = l
        /\ \A j \in 1 .. l : Tail(pushed)[j] = pushed[j + 1]
    BY <2>2
  <2>5. Tail(pushed) = stack
    <3>1. Len(stack) = Len(Tail(pushed)) /\ \A j \in 1 .. Len(stack) : stack[j] = Tail(pushed)[j]
      BY <1>1, <2>2, <2>4
    <3> HIDE DEF T
    <3> QED BY <1>2, <2>4, <3>1, SeqEqual
  <2> QED BY <1>3, <2>3, <2>5
<1>5. CASE Push
  <2>6. stack' = <<0>> \o stack /\ l + 1 <= MaxStack  BY <1>1, <1>2, <1>5 DEF Push
  <2>1. PICK t : t = stack' /\ t = <<0>> \o stack /\ l + 1 <= MaxStack  BY <2>6
  <2>2. t \in Seq(T) /\ Len(t) = l + 1 /\ \A j \in 1 .. l : t[j + 1] = stack[j]
    <3>1. 0 \in T  BY <1>2
    <3> QED BY <1>1, <1>2, <2>1, <3>1, PutBefore
  <2>3. \A d \in 1 .. rbp : Place(t, d) = Place(stack, d)
    <3> SUFFICES ASSUME NEW d \in 1 .. rbp PROVE Place(t, d) = Place(stack, d)  OBVIOUS
    <3>1. l - d + 1 \in 1 .. l /\ (l + 1) - d + 1 = (l - d + 1) + 1  BY <1>1
    <3> QED BY <1>1, <2>2, <3>1, SMTT(30) DEF Place
  <2>4. rbp \in Int /\ Len(t) \in rbp .. MaxStack  BY <1>1, <1>2, <2>1, <2>2
  <2>5. FramesFit(t, frames, rbp)  BY <2>2, <2>3, <2>4, SameFrames
  <2> QED BY <1>3, <2>1, <2>5
<1>6. CASE Pop
  <2>1. PICK t : t = stack' /\ t = Tail(stack) /\ l > rbp  BY <1>1, <1>6 DEF Pop
  <2>2. t \in Seq(T) /\ Len(t) = l - 1 /\ \A j \in 1 .. l - 1 : t[j] = stack[j + 1]
    <3>1. stack # <<>>  BY <1>1, <2>1
    <3> HIDE DEF T
    <3> QED BY <1>1, <1>2, <2>1, <3>1
  <2>3. \A d \in 1 .. rbp : Place(t, d) = Place(stack, d)
    <3> SUFFICES ASSUME NEW d \in 1 .. rbp PROVE Place(t, d) = Place(stack, d)  OBVIOUS
    <3>1. l - d \in 1 .. l - 1 /\ (l - 1) - d + 1 = l - d /\ (l - d) + 1 = l - d + 1  BY <1>1, <2>1
    <3> QED BY <1>1, <2>2, <3>1 DEF Place
  <2>4. rbp \in Int /\ Len(t) \in rbp .. MaxStack  BY <1>1, <1>2, <2>1, <2>2
  <2>5. FramesFit(t, frames, rbp)  BY <2>2, <2>3, <2>4, SameFrames
  <2> QED BY <1>3, <2>1, <2>5
<1> QED BY <1>4, <1>5, <1>6

LEMMA ReturnFits ==
    ASSUME FramesFit(stack, frames, rbp), LeaveRet
    PROVE  FramesFit(stack, frames, rbp)' /\ ran' = [ran EXCEPT !.a = Len(frames)]
<1> DEFINE T == 0 .. MaxStack
           Fr == [height : Nat, rbp : Nat]
<1>1. frames # <<>> /\ frames' = Tail(frames)  BY DEF LeaveRet
<1>2. PICK h \in Nat, k \in Nat :
         /\ k = Len(frames) /\ k >= 1 /\ frames[1].height = h /\ rbp = h + 2
         /\ h >= k - 1 /\ h + 2 <= Len(stack) /\ Len(stack) \in Nat
         /\ FrameFits(stack, frames, 1)
  BY <1>1, OutermostFits
<1>3. PICK l \in Nat : l = Len(stack) /\ l <= MaxStack  BY <1>2 DEF FramesFit
<1>4. stack \in Seq(T) /\ frames \in Seq(Fr)  BY DEF FramesFit
<1> HIDE DEF T, Fr
<1>5. PICK at : at = Drop(rbp)  OBVIOUS
<1>6. at \in Seq(T) /\ Len(at) = h + 2 /\ \A j \in 1 .. h + 2 : at[j] = stack[l - (h + 2) + j]
  <2> DEFINE m == l - (h + 2) + 1
  <2>1. at = SubSeq(stack, m, l)  BY <1>2, <1>3, <1>5 DEF Drop
  <2>2. m \in 1 .. l + 1 /\ l \in m - 1 .. l  BY <1>2, <1>3
  <2>3. /\ at \in Seq(T) /\ Len(at) = IF m <= l THEN l - m + 1 ELSE 0
        /\ \A j \in 1 .. l - m + 1 : at[j] = stack[m + j - 1]
    <3> HIDE DEF m
    <3> QED BY <1>3, <1>4, <2>1, <2>2, SubSeqProperties
  <2>4. m <= l /\ l - m + 1 = h + 2 /\ \A j \in 1 .. h + 2 : m + j - 1 = l - (h + 2) + j
    BY <1>2, <1>3
  <2> HIDE DEF m
  <2> QED BY <2>3, <2>4
<1>7. PICK u : u = Tail(at) /\ u \in Seq(T) /\ Len(u) = h + 1 /\ \A j \in 1 .. h + 1 : u[j] = at[j + 1]
  <2>1. PICK n \in Nat : n = h + 1  OBVIOUS
  <2>2. Len(at) = n + 1  BY <1>6, <2>1
  <2>3. Tail(at) \in Seq(T) /\ Len(Tail(at)) = n /\ \A j \in 1 .. n : Tail(at)[j] = at[j + 1]
    BY <1>6, <2>2, WithoutFirst
  <2> QED BY <2>1, <2>3
<1>8. PICK t : t = Tail(u) /\ t \in Seq(T) /\ Len(t) = h /\ \A j \in 1 .. h : t[j] = u[j + 1]
  <2>1. Tail(u) \in Seq(T) /\ Len(Tail(u)) = h /\ \A j \in 1 .. h : Tail(u)[j] = u[j + 1]
    BY <1>7, WithoutFirst
  <2> QED BY <2>1
<1>9. stack' = t /\ rbp' = at[1] /\ ran' = [ran EXCEPT !.a = u[1]]
  BY <1>5, <1>6, <1>7, <1>8, SMTT(30) DEF LeaveRet
<1>10. at[1] = Place(stack, h + 2) /\ u[1] = Place(stack, h + 1)
  <2>1. 1 \in 1 .. h + 2 /\ 2 \in 1 .. h + 2 /\ 1 \in 1 .. h + 1
        /\ l - (h + 2) + 1 = Len(stack) - (h + 2) + 1
        /\ l - (h + 2) + 2 = Len(stack) - (h + 1) + 1
    BY <1>3
  <2> QED BY <1>6, <1>7, <2>1 DEF Place
<1>11. at[1] = frames[1].rbp /\ u[1] = k
  BY <1>2, <1>10 DEF FrameFits
<1>12. \A d \in 1 .. h : Place(t, d) = Place(stack, d)
  <2> SUFFICES ASSUME NEW d \in 1 .. h PROVE Place(t, d) = Place(stack, d)  OBVIOUS
  <2>1. h - d + 1 \in 1 .. h /\ (h - d + 1) + 1 \in 1 .. h + 1 /\ ((h - d + 1) + 1) + 1 \in 1 .. h + 2
        /\ l - (h + 2) + (((h - d + 1) + 1) + 1) = l - d + 1
    OBVIOUS
  <2>2. Place(t, d) = t[h - d + 1] /\ Place(stack, d) = stack[l - d + 1]  BY <1>3, <1>8 DEF Place
  <2>3. /\ t[h - d + 1] = u[(h - d + 1) + 1]
        /\ u[(h - d + 1) + 1] = at[((h - d + 1) + 1) + 1]
        /\ at[((h - d + 1) + 1) + 1] = stack[l - d + 1]
    <3>1. t[h - d + 1] = u[(h - d + 1) + 1]  BY <1>8, <2>1
    <3>2. u[(h - d + 1) + 1] = at[((h - d + 1) + 1) + 1]  BY <1>7, <2>1
    <3>3. at[((h - d + 1) + 1) + 1] = stack[l - (h + 2) + (((h - d + 1) + 1) + 1)]  BY <1>6, <2>1
    <3> QED BY <2>1, <3>1, <3>2, <3>3
  <2> QED BY <2>2, <2>3
<1>13. PICK frs : frs = frames' /\ frs \in Seq(Fr) /\ Len(frs) = k - 1
                  /\ \A i \in 1 .. k - 1 : frs[i] = frames[i + 1]
  <2>1. k - 1 \in Nat /\ Len(frames) = (k - 1) + 1  BY <1>2
  <2> QED BY <1>1, <1>4, <2>1, WithoutFirst
<1>14. ASSUME NEW i \in 1 .. k - 1 PROVE FrameFits(t, frs, i)
  <2>1. i + 1 \in 1 .. k /\ frs[i] = frames[i + 1]  BY <1>2, <1>13
  <2>2. FrameFits(stack, frames, i + 1)  BY <1>2, <2>1 DEF FramesFit
  <2>11. frames[i + 1].height \in k - (i + 1) .. l - 2  BY <1>2, <1>3, <2>2 DEF FrameFits
  <2>3. PICK g \in Int : g = frames[i + 1].height /\ g >= k - (i + 1) /\ g + 2 <= l
    BY <1>2, <1>3, <2>1, <2>11
  <2>4. g + 2 <= h
    <3>1. i + 1 \in 1 + 1 .. Len(frames)  BY <1>2, <2>1
    <3> QED BY <1>2, <2>3, <3>1 DEF FrameFits
  <2>5. g \in Nat /\ g + 2 \in 1 .. h /\ g + 1 \in 1 .. h  BY <1>2, <2>1, <2>3, <2>4, SMTT(30)
  <2>6. Place(t, g + 2) = frames[i + 1].rbp /\ Place(t, g + 1) = k - (i + 1) + 1
    BY <1>2, <1>12, <2>2, <2>3, <2>5 DEF FrameFits
  <2>7. frames[i + 1].rbp = IF i = k - 1 THEN 0 ELSE frs[i + 1].height + 2
    <3>1. i # k - 1 => i + 1 \in 1 .. k - 1  BY <1>2
    <3>2. i # k - 1 => frs[i + 1] = frames[(i + 1) + 1]  BY <1>13, <3>1
    <3>3. i = k - 1 <=> i + 1 = k  BY <1>2
    <3> QED BY <1>2, <2>2, <3>2, <3>3 DEF FrameFits
  <2>8. ASSUME NEW j \in i + 1 .. k - 1 PROVE frs[j].height + 2 <= g
    <3>1. j \in 1 .. k - 1 /\ j + 1 \in (i + 1) + 1 .. k  BY <1>2
    <3>2. frs[j] = frames[j + 1]  BY <1>13, <3>1
    <3> QED BY <1>2, <2>2, <2>3, <3>1, <3>2 DEF FrameFits
  <2>9. Len(frs) - i = k - (i + 1) /\ Len(t) - 2 = h - 2  BY <1>2, <1>8, <1>13
  <2>10. g \in Len(frs) - i .. Len(t) - 2 /\ Len(frs) - i + 1 = k - (i + 1) + 1
    <3>1. g >= k - (i + 1) /\ g <= h - 2  BY <1>2, <2>3, <2>4
    <3>2. g \in k - (i + 1) .. h - 2  BY <1>2, <2>3, <3>1
    <3> QED BY <2>9, <3>2
  <2> QED BY <1>13, <2>1, <2>3, <2>6, <2>7, <2>8, <2>10 DEF FrameFits
<1>15. at[1] = IF frs = <<>> THEN 0 ELSE frs[1].height + 2
  <2>1. CASE k = 1
    <3>1. frs = <<>>  BY <1>13, <2>1, EmptySeq
    <3> QED BY <1>2, <1>11, <2>1, <3>1 DEF FrameFits
  <2>2. CASE k # 1
    <3>1. 1 \in 1 .. k - 1 /\ 1 + 1 = 2  BY <1>2, <2>2
    <3>2. frs # <<>> /\ frs[1] = frames[1 + 1]  BY <1>13, <3>1, EmptySeq
    <3> QED BY <1>2, <1>11, <2>2, <3>2 DEF FrameFits
  <2> QED BY <2>1, <2>2
<1>16. FramesFit(t, frs, at[1])
  <2>1. h <= MaxStack /\ \A i \in 1 .. Len(frs) : FrameFits(t, frs, i)  BY <1>2, <1>3, <1>13, <1>14, InterpAssumption
  <2> QED BY <1>8, <1>13, <1>15, <2>1 DEF FramesFit, T, Fr
<1>17. ran' = [ran EXCEPT !.a = Len(frames)]  BY <1>2, <1>9, <1>11
<1> QED BY <1>9, <1>13, <1>16, <1>17 DEF FramesFit, FrameFits, Place

LEMMA InterpInitially == InterpInit => InterpInv
<1> SUFFICES ASSUME InterpInit PROVE InterpInv  OBVIOUS
<1>1. 0 \in Words
  <2>1. QWORD \in 0 .. QWORD  BY Widths
  <2> QED BY <2>1, Powers DEF Words
<1>2. Nought \in Flags /\ flags \in Flags  BY DEF InterpInit, Nought, Flags
<1>3. Registers  BY <1>1, <1>2 DEF InterpInit, Registers
<1>4. ran \in Ran /\ ran.op = "nothing"
  BY <1>1, <1>2 DEF InterpInit, Ran, Kinds, Sizes
<1>5. FramesFit(stack, frames, rbp)
  BY InterpAssumption DEF InterpInit, FramesFit
<1> QED BY <1>3, <1>4, <1>5 DEF InterpInv, Meaning

LEMMA InterpInductive == InterpInv /\ [InterpNext]_interpVars => InterpInv'
<1> SUFFICES ASSUME InterpInv, [InterpNext]_interpVars PROVE InterpInv'  OBVIOUS
<1> USE DEF InterpInv
<1> DEFINE Meant == Meaning(ran.op, ran.size, ran.a, ran.b, ran.old, ran.before, flags, dst)
<1>1. FramesFit(stack, frames, rbp) /\ UNCHANGED <<stack, frames, rbp>> => FramesFit(stack, frames, rbp)'
  BY DEF FramesFit, FrameFits, Place
<1>2. CASE Given
  <2>1. Registers' /\ ran' \in Ran /\ ran'.op = "nothing"  BY <1>2 DEF Given, Registers
  <2>2. Meant'  BY <2>1 DEF Meaning
  <2> QED BY <1>1, <1>2, <2>1, <2>2 DEF Given
<1>3. CASE exec_one
  <2>1. Outcome /\ src' \in Words  BY <1>3, ExecOutcome
  <2>2. Registers' /\ ran' \in Ran  BY <2>1 DEF Outcome, Registers
  <2>3. Meant'  BY <2>1 DEF Outcome
  <2> QED BY <1>1, <1>3, <2>2, <2>3 DEF exec_one
<1>4. CASE ran.op = "nothing" /\ (Call \/ CallThunk \/ Push \/ Pop \/ LeaveRet)
  <2>1. FramesFit(stack, frames, rbp)'  BY <1>4, CallFits, PushPopFit, ReturnFits
  <2>2. dst' = dst /\ src' = src /\ flags' = flags
    BY <1>4 DEF Call, CallThunk, Push, Pop, LeaveRet, registers
  <2>3. ran' \in Ran /\ ran'.op = "nothing"
    <3>1. CASE Call \/ CallThunk \/ Push \/ Pop
      BY <1>4, <3>1 DEF Call, CallThunk, Push, Pop, registers
    <3>2. CASE LeaveRet
      <4>1. ran' = [ran EXCEPT !.a = Len(frames)] /\ Len(frames) \in Int
        BY <3>2, ReturnFits DEF FramesFit
      <4> QED BY <1>4, <4>1 DEF Ran
    <3> QED BY <1>4, <3>1, <3>2
  <2>4. Meant'  BY <2>3 DEF Meaning
  <2> QED BY <2>1, <2>2, <2>3, <2>4 DEF Registers
<1>5. CASE UNCHANGED interpVars
  <2>1. Meant'  BY <1>5 DEF interpVars
  <2> QED BY <1>1, <1>5, <2>1 DEF interpVars, Registers
<1> QED BY <1>2, <1>3, <1>4, <1>5 DEF InterpNext

THEOREM InterpInvariant == InterpSpec => []InterpInv
  BY InterpInitially, InterpInductive, PTL DEF InterpSpec

\* Registers hold words, and RBP and the frames stay within the stack, for any
\* widths of words and bytes and any depth of the stack (wg_x86_exec_one).
THEOREM InterpTyped == InterpSpec => []InterpTypeOK
<1>1. InterpInv => InterpTypeOK
  BY InBounds DEF InterpInv, Registers, InterpTypeOK, FramesFit
<1> QED BY <1>1, InterpInvariant, PTL

\* After an instruction the conditions compare what their names say and the result
\* is the one the operands have, and LEAVE and RET find the caller's RBP and the way
\* back, whatever was pushed and however calls nest (wg_x86_exec_one,
\* wg_x86_update_flags_*, eval_condition, write_operand, push64, pop64).
THEOREM InstructionsRight == InterpSpec => []InterpRight
<1>1. InterpInv => FramesStand
  <2> SUFFICES ASSUME InterpInv PROVE FramesStand  OBVIOUS
  <2>1. PICK l \in Nat, k \in Nat : l = Len(stack) /\ k = Len(frames)
    BY DEF InterpInv, FramesFit
  <2>2. ASSUME NEW i \in 1 .. k
        PROVE SubSeq(stack, Len(stack) - frames[i].height - 1, Len(stack) - frames[i].height)
                = <<frames[i].rbp, Len(frames) - i + 1>>
    <3>1. FrameFits(stack, frames, i)  BY <2>1 DEF InterpInv, FramesFit
    <3>2. frames[i].height \in k - i .. l - 2  BY <2>1, <3>1 DEF FrameFits
    <3>3. PICK h \in Int : h = frames[i].height /\ h >= 0 /\ h <= l - 2  BY <2>1, <3>2
    <3>4. stack[l - h - 1] = frames[i].rbp /\ stack[l - h] = k - i + 1
      <4>1. l - (h + 2) + 1 = l - h - 1 /\ l - (h + 1) + 1 = l - h  OBVIOUS
      <4> QED BY <2>1, <3>1, <3>3, <4>1 DEF FrameFits, Place
    <3> DEFINE m == l - h - 1
               q == SubSeq(stack, m, l - h)
    <3>5. m \in 1 .. l /\ l - h = m + 1 /\ m + 1 \in 1 .. l  BY <3>3
    <3> HIDE DEF m
    <3>6. q = <<stack[m], stack[m + 1]>>
      <4> DEFINE T == 0 .. MaxStack
                 two == <<stack[m], stack[m + 1]>>
      <4>1. stack \in Seq(T)  BY DEF InterpInv, FramesFit
      <4>2. stack[m] \in T /\ stack[m + 1] \in T
        <5> HIDE DEF T
        <5>1. m \in 1 .. Len(stack) /\ m + 1 \in 1 .. Len(stack)  BY <2>1, <3>5
        <5> QED BY <4>1, <5>1, ElementOfSeq
      <4>3. two \in Seq(T) /\ Len(two) = 2 /\ two[1] = stack[m] /\ two[2] = stack[m + 1]
        BY <4>2
      <4>4. q = SubSeq(stack, m, m + 1) /\ m \in 1 .. Len(stack) + 1 /\ m + 1 \in m - 1 .. Len(stack)
        BY <2>1, <3>5
      <4>5. /\ q \in Seq(T) /\ Len(q) = 2
            /\ \A j \in 1 .. (m + 1) - m + 1 : q[j] = stack[m + j - 1]
        <5> HIDE DEF T, q
        <5>1. /\ q \in Seq(T) /\ Len(q) = IF m <= m + 1 THEN (m + 1) - m + 1 ELSE 0
              /\ \A j \in 1 .. (m + 1) - m + 1 : q[j] = stack[m + j - 1]
          BY <2>1, <4>1, <4>4, SubSeqProperties
        <5> QED BY <3>5, <5>1
      <4>6. \A j \in 1 .. 2 : q[j] = two[j]
        <5>1. (m + 1) - m + 1 = 2 /\ m + 1 - 1 = m /\ m + 2 - 1 = m + 1  BY <3>5
        <5> HIDE DEF q, two
        <5> QED BY <4>3, <4>5, <5>1
      <4> HIDE DEF q, two, T
      <4>7. q = two  BY <4>3, <4>5, <4>6, SeqEqual
      <4> QED BY <4>7 DEF two
    <3> QED BY <2>1, <3>3, <3>4, <3>5, <3>6 DEF m
  <2>3. DOMAIN frames = 1 .. k  BY <2>1 DEF InterpInv, FramesFit
  <2> QED BY <2>2, <2>3 DEF FramesStand, InterpInv, FramesFit
<1>2. InterpInv => InterpRight  BY <1>1, MeaningIs DEF InterpInv, Registers, InterpRight
<1> QED BY <1>2, InterpInvariant, PTL

-----------------------------------------------------------------------------
(* The loader: the bases of DLLs.                                          *)

Paged(a) == a \in Nat /\ \E k \in Nat : a = k * PageWords

\* Where a DLL was put: when it can be moved, below the base of the next one.
PlacedBelow(m, next) ==
    IF CanMove(m.img) THEN Paged(m.base) /\ m.base + m.img.size <= next
    ELSE m.base = m.img.base

Disjoint(m, k) == m.base + m.img.size <= k.base \/ k.base + k.img.size <= m.base

Module == [name : DOMAIN Dlls, base : Nat \cup {Dlls[name].base : name \in DOMAIN Dlls}]

LoaderInv ==
    /\ backend \in {"blink", "builtin"} /\ where \in {"none", "blink", "builtin"}
    /\ Paged(nextBase) /\ nextBase >= DllBase
    /\ IsFiniteSet(mapped)
    /\ \E n \in Nat : n = Len(modules) /\ n <= ModuleSlots /\ n <= Cardinality(mapped)
    /\ modules \in Seq(Module)
    /\ \A m \in mapped : /\ m.name \in DOMAIN Dlls /\ m.img = Dlls[m.name]
                         /\ PlacedBelow(m, nextBase)
    /\ \A m, k \in mapped : m # k /\ CanMove(m.img) /\ CanMove(k.img) => Disjoint(m, k)

\* Words before a multiple of d are on earlier pages of d words, and the others are not.
LEMMA Below ==
    ASSUME NEW x \in Int, NEW d \in Int, d > 0, NEW q \in Int, x < q * d
    PROVE  x \div d < q
<1>1. PICK k \in Int, r \in 0 .. d - 1 : k = x \div d /\ x = d * k + r  BY Division
<1>2. ASSUME k >= q PROVE FALSE
  <2>1. (k - q) * d >= 0  BY <1>1, <1>2
  <2>2. (k - q) * d = k * d - q * d  BY <1>1
  <2> QED BY <1>1, <2>1, <2>2
<1> QED BY <1>1, <1>2

LEMMA NotBelow ==
    ASSUME NEW x \in Int, NEW d \in Int, d > 0, NEW q \in Int, q * d <= x
    PROVE  q <= x \div d
<1>1. PICK k \in Int, r \in 0 .. d - 1 : k = x \div d /\ x = d * k + r  BY Division
<1>2. ASSUME k <= q - 1 PROVE FALSE
  <2>1. (q - 1 - k) * d >= 0  BY <1>1, <1>2
  <2>2. (q - 1 - k) * d = q * d - d - k * d  BY <1>1
  <2> QED BY <1>1, <2>1, <2>2
<1> QED BY <1>1, <1>2

LEMMA InSeq ==
    ASSUME NEW S, NEW q \in Seq(S)
    PROVE  /\ Len(q) \in Nat /\ DOMAIN q = 1 .. Len(q)
           /\ \A i \in DOMAIN q : q[i] \in S
  OBVIOUS

\* The lists of an image.
LEMMA ImageLists ==
    ASSUME NEW img, ImageFits(img)
    PROVE  /\ Len(img.sections) \in Nat /\ DOMAIN img.sections = 1 .. Len(img.sections)
           /\ Len(img.imports) \in Nat /\ DOMAIN img.imports = 1 .. Len(img.imports)
           /\ Len(img.relocs) \in Nat /\ DOMAIN img.relocs = 1 .. Len(img.relocs)
           /\ Len(img.header) \in Nat
<1>1. img \in Images  BY DEF ImageFits
<1>2. \E S : img.sections \in Seq(S)  BY <1>1 DEF Images
<1>3. \E S : img.imports \in Seq(S)  BY <1>1 DEF Images
<1>4. \E S : img.relocs \in Seq(S)  BY <1>1 DEF Images
<1>5. img.header \in Seq(FileWords)  BY <1>1 DEF Images
<1> QED BY <1>2, <1>3, <1>4, <1>5, InSeq

LEMMA SectionFacts ==
    ASSUME NEW img, ImageFits(img), NEW i \in DOMAIN img.sections
    PROVE  /\ img.sections[i].va \in Nat /\ img.sections[i].vsize \in Nat
           /\ img.sections[i].va % PageWords = 0 /\ img.sections[i].raw \in Seq(FileWords)
           /\ img.sections[i].va + img.sections[i].vsize <= img.size
<1>1. img.sections \in Seq([va : Nat, vsize : Nat, raw : Seq(FileWords)])
  BY DEF ImageFits, Images
<1>2. img.sections[i] \in [va : Nat, vsize : Nat, raw : Seq(FileWords)]  BY <1>1, InSeq
<1> QED BY <1>2 DEF ImageFits, SectionsFit

LEMMA OnPages ==
    ASSUME NEW a \in Nat, a % PageWords = 0
    PROVE  Paged(a)
<1>1. PICK d \in Nat : d = PageWords /\ d > 0  BY LoaderAssumption
<1>2. PICK q \in Int : a = d * q + 0 /\ q = a \div d  BY <1>1, Division
<1>3. q >= 0
  <2>1. 0 * d <= a  BY <1>1
  <2> QED BY <1>1, <1>2, <2>1, NotBelow
<1> QED BY <1>1, <1>2, <1>3 DEF Paged

LEMMA DllFits ==
    ASSUME NEW name \in DOMAIN Dlls
    PROVE  /\ ImageFits(Dlls[name]) /\ Dlls[name].size \in Nat /\ Dlls[name].base \in Nat
           /\ Paged(Dlls[name].base)
<1>1. ImageFits(Dlls[name])  BY LoaderAssumption
<1>2. /\ Dlls[name].size \in Nat /\ Dlls[name].base \in Nat
      /\ Dlls[name].base % PageWords = 0
  BY <1>1 DEF ImageFits, Images
<1> QED BY <1>1, <1>2, OnPages

LEMMA SpanWithin ==
    ASSUME NEW img, ImageFits(img), NEW base \in Nat, NEW a \in Span(base, img)
    PROVE  a \in Nat /\ base <= a /\ a < base + img.size
<1>1. PICK rva \in Extent(img) \cup 0 .. Len(img.header) - 1 : a = base + rva  BY DEF Span
<1>2. img.size \in Nat /\ Len(img.header) \in 0 .. img.size
  <2>1. img.size \in Nat /\ img.header \in Seq(FileWords)  BY DEF ImageFits, Images
  <2> QED BY <2>1 DEF ImageFits
<1>3. rva \in 0 .. img.size - 1
  <2>1. CASE rva \in 0 .. Len(img.header) - 1  BY <1>2, <2>1
  <2>2. CASE rva \in Extent(img)
    <3>1. PICK i \in DOMAIN img.sections : rva \in WordsOf(img.sections[i])
      BY <2>2 DEF Extent
    <3>2. PICK va \in Nat, vs \in Nat : /\ va = img.sections[i].va /\ vs = img.sections[i].vsize
                                        /\ va + vs <= img.size
      BY SectionFacts
    <3>3. rva \in va .. va + vs - 1  BY <3>1, <3>2 DEF WordsOf
    <3> QED BY <1>2, <3>2, <3>3, SMTT(30)
  <2> QED BY <1>1, <2>1, <2>2
<1> QED BY <1>1, <1>2, <1>3

LEMMA PagesInOrder ==
    ASSUME NEW m, NEW k, m.name \in DOMAIN Dlls, m.img = Dlls[m.name],
           k.name \in DOMAIN Dlls, k.img = Dlls[k.name],
           Paged(m.base), Paged(k.base), m.base + m.img.size <= k.base
    PROVE  \A a \in Span(m.base, m.img), b \in Span(k.base, k.img) : PageOf(a) < PageOf(b)
<1> TAKE a \in Span(m.base, m.img), b \in Span(k.base, k.img)
<1>1. PICK x \in Nat, y \in Nat, q \in Nat : x = m.base /\ y = k.base /\ y = q * PageWords
  BY DEF Paged
<1>2. PICK s \in Nat : s = m.img.size  BY DllFits
<1>3. a \in Nat /\ a < x + s  BY <1>1, <1>2, DllFits, SpanWithin
<1>4. b \in Nat /\ y <= b  BY <1>1, DllFits, SpanWithin
<1>5. x + s <= y  BY <1>1, <1>2
<1>6. PageWords \in Nat /\ PageWords > 0  BY LoaderAssumption
<1>7. a < q * PageWords /\ q * PageWords <= b  BY <1>1, <1>3, <1>4, <1>5
<1>8. a \div PageWords < q  BY <1>3, <1>6, <1>7, Below
<1>9. q <= b \div PageWords  BY <1>4, <1>6, <1>7, NotBelow
<1>10. a \div PageWords \in Int /\ b \div PageWords \in Int  BY <1>3, <1>4, <1>6, Division
<1> QED BY <1>8, <1>9, <1>10 DEF PageOf

\* BasesApart is what the invariant says of pages.
LEMMA ApartFollows ==
    ASSUME LoaderInv
    PROVE  BasesApart
<1> SUFFICES ASSUME NEW m \in mapped, NEW k \in mapped, m # k, CanMove(m.img), CanMove(k.img)
             PROVE PagesOf(Span(m.base, m.img)) \cap PagesOf(Span(k.base, k.img)) = {}
  BY DEF BasesApart
<1>1. Disjoint(m, k) /\ Paged(m.base) /\ Paged(k.base)  BY DEF LoaderInv, PlacedBelow
<1>2. /\ m.name \in DOMAIN Dlls /\ m.img = Dlls[m.name]
      /\ k.name \in DOMAIN Dlls /\ k.img = Dlls[k.name]
  BY DEF LoaderInv
<1>3. \A a \in Span(m.base, m.img), b \in Span(k.base, k.img) :
         PageOf(a) < PageOf(b) \/ PageOf(b) < PageOf(a)
  BY <1>1, <1>2, PagesInOrder DEF Disjoint
<1>4. \A a \in Span(m.base, m.img) : PageOf(a) \in Int
  <2> TAKE a \in Span(m.base, m.img)
  <2>1. a \in Nat  BY <1>1, <1>2, DllFits, SpanWithin DEF Paged
  <2> QED BY <2>1, LoaderAssumption, Division DEF PageOf
<1> SUFFICES ASSUME NEW p \in PagesOf(Span(m.base, m.img)), p \in PagesOf(Span(k.base, k.img))
             PROVE FALSE
  OBVIOUS
<1>5. PICK a \in Span(m.base, m.img), b \in Span(k.base, k.img) : p = PageOf(a) /\ p = PageOf(b)
  BY DEF PagesOf
<1>6. PageOf(a) < PageOf(b) \/ PageOf(b) < PageOf(a)  BY <1>3, <1>5
<1>7. p \in Int /\ (p < p \/ p < p)  BY <1>4, <1>5, <1>6
<1> QED BY <1>7

\* The next base: on a page, behind the image.
LEMMA NextBaseRight ==
    ASSUME Paged(nextBase), NEW name \in DOMAIN Dlls
    PROVE  Paged(BaseAfter(Dlls[name])) /\ nextBase + Dlls[name].size <= BaseAfter(Dlls[name])
<1>1. PICK n \in Nat : n = nextBase  BY DEF Paged
<1>2. PICK s \in Nat : s = Dlls[name].size  BY DllFits
<1>3. PICK U \in Nat \ {0}, k \in Nat : U = DllUnit /\ U = k * PageWords
  BY LoaderAssumption, OnPages DEF Paged
<1>4. PICK x \in Int : x = n + s + U - 1 /\ x >= 0  BY <1>1, <1>2, <1>3
<1>5. PICK q \in Int, r \in 0 .. U - 1 : q = x \div U /\ x = U * q + r
  <2>1. U \in Int /\ U > 0  BY <1>3
  <2> QED BY ONLY <2>1, <1>4, Division
<1>6. BaseAfter(Dlls[name]) = q * U
  BY <1>1, <1>2, <1>3, <1>4, <1>5 DEF BaseAfter, DllEnd
<1>7. n + s <= q * U  BY <1>1, <1>2, <1>3, <1>4, <1>5
<1>8. q \in Nat
  <2>1. 0 * U <= x  BY <1>3, <1>4
  <2>2. 0 <= x \div U  BY <1>3, <1>4, <2>1, NotBelow
  <2> QED BY <1>5, <2>2
<1>9. q * U = (q * k) * PageWords /\ q * k \in Nat /\ q * U \in Nat
  <2>1. PICK P \in Nat : P = PageWords  BY LoaderAssumption
  <2>2. q * (k * P) = (q * k) * P  BY <1>3, <1>8, <2>1
  <2> QED BY <1>3, <1>8, <2>1, <2>2
<1> QED BY <1>1, <1>2, <1>6, <1>7, <1>9 DEF Paged

LEMMA LoaderInitially ==
    ASSUME LoaderInit
    PROVE  LoaderInv
<1>1. Paged(DllBase)  BY LoaderAssumption, OnPages
<1>2. IsFiniteSet({}) /\ Cardinality({}) = 0  BY FS_EmptySet
<1>3. /\ nextBase = DllBase /\ mapped = {} /\ modules = <<>> /\ backend = "blink" /\ where = "none"
  BY DEF LoaderInit
<1>4. DllBase >= DllBase /\ 0 <= ModuleSlots  BY LoaderAssumption
<1>5. \E n \in Nat : n = Len(modules) /\ n <= ModuleSlots /\ n <= Cardinality(mapped)
  BY <1>2, <1>3, <1>4
<1>6. modules \in Seq(Module)  BY <1>3
<1> QED BY <1>1, <1>2, <1>3, <1>4, <1>5, <1>6 DEF LoaderInv

LEMMA ProgramLoaded ==
    ASSUME LoaderInv, NEW img, NEW vm \in BOOLEAN, NEW has_stack \in BOOLEAN,
           LoadProgram_(img, vm, has_stack)
    PROVE  LoaderInv'
<1>1. Paged(DllBase)  BY LoaderAssumption, OnPages
<1>2. IsFiniteSet({}) /\ Cardinality({}) = 0  BY FS_EmptySet
<1>3. nextBase' = DllBase /\ mapped' = {} /\ modules' = <<>>  BY DEF LoadProgram_
<1>4. DllBase >= DllBase /\ 0 <= ModuleSlots  BY LoaderAssumption
<1>5. backend' \in {"blink", "builtin"}  BY DEF LoadProgram_, LoaderInv
<1>6. where' \in {"none", "blink", "builtin"}  BY DEF LoadProgram_
<1>7. \E n \in Nat : n = Len(modules') /\ n <= ModuleSlots /\ n <= Cardinality(mapped')
  BY <1>2, <1>3, <1>4
<1>8. modules' \in Seq(Module)  BY <1>3
<1>9. Paged(nextBase')  BY <1>1, <1>3 DEF Paged
<1>10. /\ \A m \in mapped' : /\ m.name \in DOMAIN Dlls /\ m.img = Dlls[m.name]
                             /\ PlacedBelow(m, nextBase')
       /\ \A m, k \in mapped' : m # k /\ CanMove(m.img) /\ CanMove(k.img) => Disjoint(m, k)
  BY <1>3
<1> QED BY <1>2, <1>3, <1>4, <1>5, <1>6, <1>7, <1>8, <1>9, <1>10 DEF LoaderInv

LEMMA LibraryLoaded ==
    ASSUME LoaderInv, NEW name \in DOMAIN Dlls, LoadLibrary(name)
    PROVE  LoaderInv'
<1> DEFINE img == Dlls[name]
<1>1. PICK base : base = IF CanMove(img) THEN nextBase ELSE img.base  OBVIOUS
<1>2. PICK new : new = [name |-> name, base |-> base, img |-> img]  OBVIOUS
<1>3. /\ nextBase' = (IF CanMove(img) THEN BaseAfter(img) ELSE nextBase)
      /\ modules' = (IF Len(modules) < ModuleSlots
                     THEN Append(modules, [name |-> name, base |-> base]) ELSE modules)
      /\ mapped' = mapped \cup {new}
      /\ \A m \in mapped : m.name # name
      /\ backend' = backend /\ where' = where
  BY <1>1, <1>2 DEF LoadLibrary
<1>4. new.name = name /\ new.base = base /\ new.img = img  BY <1>2
<1>5. new \notin mapped  BY <1>3, <1>4
<1>6. PICK c \in Nat : c = Cardinality(mapped) /\ Cardinality(mapped') = c + 1
                       /\ IsFiniteSet(mapped')
  <2>1. IsFiniteSet(mapped) /\ Cardinality(mapped) \in Nat  BY FS_CardinalityType DEF LoaderInv
  <2>2. IsFiniteSet(mapped \cup {new}) /\ Cardinality(mapped \cup {new}) = Cardinality(mapped) + 1
    BY <1>5, <2>1, FS_AddElement
  <2> QED BY <1>3, <2>1, <2>2
<1>7. PICK n \in Nat, b \in Nat, s \in Nat :
          n = nextBase /\ b = DllBase /\ s = img.size /\ n >= b /\ Paged(nextBase)
  BY DllFits, LoaderAssumption DEF LoaderInv, Paged
<1>8. PICK n2 \in Nat : /\ n2 = nextBase' /\ Paged(nextBase') /\ n2 >= n
                        /\ CanMove(img) => n + s <= n2
  <2>1. CASE CanMove(img)
    <3>1. Paged(BaseAfter(img)) /\ nextBase + img.size <= BaseAfter(img)  BY <1>7, NextBaseRight
    <3> QED BY <1>3, <1>7, <2>1, <3>1 DEF Paged
  <2>2. CASE ~ CanMove(img)  BY <1>3, <1>7, <2>2 DEF Paged
  <2> QED BY <2>1, <2>2
<1>9. /\ \E l \in Nat : l = Len(modules') /\ l <= ModuleSlots /\ l <= Cardinality(mapped')
      /\ modules' \in Seq(Module)
  <2> DEFINE one == [name |-> name, base |-> base]
  <2>1. PICK l \in Nat : l = Len(modules) /\ l <= ModuleSlots /\ l <= Cardinality(mapped)
    BY DEF LoaderInv
  <2>2. one \in Module  BY <1>1, <1>7 DEF Module
  <2>3. modules \in Seq(Module)  BY DEF LoaderInv
  <2> HIDE DEF one
  <2>4. Append(modules, one) \in Seq(Module) /\ Len(Append(modules, one)) = l + 1
    BY <2>1, <2>2, <2>3
  <2>5. modules' = (IF l < ModuleSlots THEN Append(modules, one) ELSE modules)
    BY <1>3, <2>1 DEF one
  <2>6. ModuleSlots \in Nat  BY LoaderAssumption
  <2>7. modules' \in Seq(Module)  BY <2>3, <2>4, <2>5
  <2> QED BY <1>6, <2>1, <2>4, <2>5, <2>6, <2>7
<1>10. ASSUME NEW m \in mapped, CanMove(m.img)
       PROVE  /\ Paged(m.base) /\ m.base \in Nat /\ m.img.size \in Nat
              /\ m.base + m.img.size <= n
  <2>1. m.name \in DOMAIN Dlls /\ m.img = Dlls[m.name] /\ PlacedBelow(m, nextBase)
    BY DEF LoaderInv
  <2> QED BY <1>7, <1>10, <2>1, DllFits DEF PlacedBelow, Paged
<1>11. ASSUME NEW m \in mapped'
       PROVE  m.name \in DOMAIN Dlls /\ m.img = Dlls[m.name] /\ PlacedBelow(m, nextBase')
  <2>1. CASE m = new
    <3>1. m.name = name /\ m.base = base /\ m.img = img  BY <1>4, <2>1
    <3>2. CASE CanMove(img)
      <4>1. base = n /\ Paged(base)  BY <1>1, <1>7, <3>2
      <4>2. base + img.size <= nextBase'  BY <1>7, <1>8, <3>2, <4>1
      <4> QED BY <3>1, <3>2, <4>1, <4>2 DEF PlacedBelow
    <3>3. CASE ~ CanMove(img)
      <4>1. base = img.base  BY <1>1, <3>3
      <4> QED BY <3>1, <3>3, <4>1 DEF PlacedBelow
    <3> QED BY <3>2, <3>3
  <2>2. CASE m \in mapped
    <3>1. m.name \in DOMAIN Dlls /\ m.img = Dlls[m.name]  BY <2>2 DEF LoaderInv
    <3>2. CASE CanMove(m.img)
      <4>1. Paged(m.base) /\ m.base + m.img.size <= nextBase'  BY <1>7, <1>8, <1>10, <2>2, <3>2
      <4> QED BY <3>1, <3>2, <4>1 DEF PlacedBelow
    <3>3. CASE ~ CanMove(m.img)
      <4>1. PlacedBelow(m, nextBase)  BY <2>2 DEF LoaderInv
      <4> QED BY <3>1, <3>3, <4>1 DEF PlacedBelow
    <3> QED BY <3>2, <3>3
  <2> QED BY <1>3, <2>1, <2>2
<1>12. ASSUME NEW m \in mapped', NEW k \in mapped', m # k, CanMove(m.img), CanMove(k.img)
       PROVE  Disjoint(m, k)
  <2>1. CanMove(img) => base = n  BY <1>1, <1>7
  <2>2. CASE m \in mapped /\ k \in mapped  BY <1>12, <2>2 DEF LoaderInv
  <2>3. CASE m = new /\ k \in mapped
    BY <1>4, <1>10, <1>12, <2>1, <2>3 DEF Disjoint
  <2>4. CASE k = new /\ m \in mapped
    BY <1>4, <1>10, <1>12, <2>1, <2>4 DEF Disjoint
  <2> QED BY <1>3, <1>12, <2>2, <2>3, <2>4
<1>13. backend' \in {"blink", "builtin"} /\ where' \in {"none", "blink", "builtin"}
  BY <1>3 DEF LoaderInv
<1>14. nextBase' >= DllBase  BY <1>7, <1>8
<1> QED BY <1>6, <1>8, <1>9, <1>11, <1>12, <1>13, <1>14 DEF LoaderInv

LEMMA BasesStep ==
    ASSUME LoaderInv, [LoaderNext]_loaderVars
    PROVE  LoaderInv'
<1>1. CASE UNCHANGED loaderVars
  BY <1>1 DEF LoaderInv, loaderVars, PlacedBelow, Disjoint, Paged
<1>2. CASE LoaderNext  BY <1>2, ProgramLoaded, LibraryLoaded DEF LoaderNext
<1> QED BY <1>1, <1>2

\* However many DLLs of whatever sizes a program loads, no two that have relocations
\* share a page: s_dll_next_base is moved past each (wg_load_dll).
THEOREM DllBasesApart == LoaderSpec => []BasesApart
  BY LoaderInitially, BasesStep, ApartFollows, PTL DEF LoaderSpec

\* The table of modules never holds more than it has slots for, nor more than is mapped.
THEOREM LoaderTyped == LoaderSpec => []LoaderTypeOK
<1>1. LoaderInv => LoaderTypeOK
  <2> SUFFICES ASSUME LoaderInv PROVE LoaderTypeOK  OBVIOUS
  <2>1. Cardinality(mapped) \in Nat  BY FS_CardinalityType DEF LoaderInv
  <2>2. PICK l \in Nat : l = Len(modules) /\ l <= ModuleSlots /\ l <= Cardinality(mapped)
    BY DEF LoaderInv
  <2>3. Cardinality(mapped) >= l  BY <2>1, <2>2
  <2> QED BY <2>2, <2>3 DEF LoaderInv, LoaderTypeOK
<1> QED BY <1>1, LoaderInitially, BasesStep, PTL DEF LoaderSpec

-----------------------------------------------------------------------------
(* The loader: pages.                                                      *)

LEMMA PageIsInt ==
    ASSUME NEW a \in Int
    PROVE  PageOf(a) \in Int
<1>1. PICK d \in Nat : d = PageWords /\ d > 0  BY LoaderAssumption
<1>2. a \div d \in Int  BY <1>1, Division
<1> QED BY <1>1, <1>2 DEF PageOf

LEMMA PagesAscend ==
    ASSUME NEW a \in Int, NEW b \in Int, a <= b
    PROVE  PageOf(a) <= PageOf(b)
<1>1. PICK d \in Nat : d = PageWords /\ d > 0  BY LoaderAssumption
<1>2. PICK q \in Int, r \in 0 .. d - 1 : q = a \div d /\ a = d * q + r  BY <1>1, Division
<1>3. q * d <= b  BY <1>1, <1>2
<1>4. q <= b \div d  BY <1>1, <1>3, NotBelow
<1> QED BY <1>1, <1>2, <1>4 DEF PageOf

\* The words of page p.
LEMMA InPage ==
    ASSUME NEW p \in Int, NEW a \in Int
    PROVE  PageOf(a) = p <=> \E k \in 0 .. PageWords - 1 : a = p * PageWords + k
<1>1. PICK d \in Nat : d = PageWords /\ d > 0  BY LoaderAssumption
<1>2. PICK q \in Int, r \in 0 .. d - 1 : q = a \div d /\ a = d * q + r  BY <1>1, Division
<1>3. ASSUME NEW k \in 0 .. d - 1, a = p * d + k PROVE p = q
  <2>1. p * d <= a  BY <1>1, <1>3
  <2>2. p <= q  BY <1>1, <1>2, <2>1, NotBelow
  <2>3. q * d <= p * d + k  BY <1>1, <1>2, <1>3
  <2>4. ASSUME q >= p + 1 PROVE FALSE
    <3>1. (q - p - 1) * d >= 0  BY <1>1, <1>2, <2>4
    <3>2. (q - p - 1) * d = q * d - p * d - d  BY <1>1, <1>2
    <3> QED BY <1>1, <1>2, <1>3, <2>3, <3>1, <3>2
  <2> QED BY <1>2, <2>2, <2>4
<1>4. ASSUME q = p PROVE \E k \in 0 .. d - 1 : a = p * d + k
  <2>1. a = p * d + r  BY <1>1, <1>2, <1>4
  <2> QED BY <2>1
<1> QED BY <1>1, <1>2, <1>3, <1>4 DEF PageOf

\* An image moved by whole pages keeps its pages.
LEMMA PagesMove ==
    ASSUME NEW q \in Int, NEW a \in Int
    PROVE  PageOf(q * PageWords + a) = q + PageOf(a)
<1>1. PICK d \in Nat : d = PageWords /\ d > 0  BY LoaderAssumption
<1>2. PICK p \in Int : p = PageOf(a)  BY PageIsInt
<1>3. PICK k \in 0 .. d - 1 : a = p * d + k  BY <1>1, <1>2, InPage
<1>4. (q + p) * d = q * d + p * d  BY <1>1
<1>5. PICK x \in Int : x = q * d  BY <1>1
<1>6. PICK b \in Int : b = x + a  BY <1>5
<1>7. b = (q + p) * d + k  BY <1>1, <1>3, <1>4, <1>5, <1>6
<1>8. q + p \in Int  OBVIOUS
<1>9. PageOf(b) = q + p  BY <1>1, <1>6, <1>7, <1>8, InPage
<1> QED BY <1>1, <1>2, <1>5, <1>6, <1>9

\* A page between those of two words is the page of a word between the two.
LEMMA PageBetween ==
    ASSUME NEW a \in Int, NEW b \in Int, a <= b, NEW p \in PageOf(a) .. PageOf(b)
    PROVE  \E w \in a .. b : PageOf(w) = p
<1>1. PICK d \in Nat : d = PageWords /\ d > 0  BY LoaderAssumption
<1>2. PICK x \in Int, y \in Int : x = PageOf(a) /\ y = PageOf(b)  BY PageIsInt
<1>3. p \in Int /\ x <= p /\ p <= y  BY <1>2
<1>4. CASE p = x  BY <1>2, <1>4
<1>5. CASE p > x
  <2>0. (\E i \in 0 .. d - 1 : a = x * d + i) /\ (\E k \in 0 .. d - 1 : b = y * d + k)
    BY <1>1, <1>2, InPage
  <2>1. PICK i \in 0 .. d - 1, k \in 0 .. d - 1 : a = x * d + i /\ b = y * d + k
    BY <2>0
  <2>2. PICK w \in Int : w = p * d  BY <1>1, <1>3
  <2>3. (p - x - 1) * d >= 0 /\ (y - p) * d >= 0  BY <1>1, <1>2, <1>3, <1>5
  <2>4. (p - x - 1) * d = p * d - x * d - d /\ (y - p) * d = y * d - p * d
    BY <1>1, <1>2, <1>3
  <2>5. a <= w /\ w <= b  BY <1>1, <1>2, <2>1, <2>2, <2>3, <2>4
  <2>6. w = p * d + 0 /\ 0 \in 0 .. d - 1  BY <1>1, <1>3, <2>2
  <2>7. PageOf(w) = p  BY <1>1, <1>3, <2>6, InPage
  <2> QED BY <2>5, <2>7
<1> QED BY <1>2, <1>3, <1>4, <1>5

-----------------------------------------------------------------------------
(* The loader: sections.                                                   *)

\* The words on the pages of n words from lo, and of section s of an image at base.
Around(lo, n) == {a \in Int : PageOf(a) \in PageOf(lo) .. PageOf(lo + n - 1)}
Area(base, s) == IF s.vsize = 0 THEN {} ELSE Around(base + s.va, s.vsize)

\* A copy changes the words it is of, where there is a page for them.
LEMMA CopyWritten ==
    ASSUME NEW m, NEW lo, NEW words
    PROVE  /\ DOMAIN wg_blink_write_mem(m, lo, words) = DOMAIN m
           /\ \A a \in DOMAIN m : wg_blink_write_mem(m, lo, words)[a] =
                 IF a \in lo .. lo + Len(words) - 1 THEN words[a - lo + 1] ELSE m[a]
  BY DEF wg_blink_write_mem

\* Reserved pages are there and are zero; nothing else changes.
LEMMA Reserved ==
    ASSUME NEW m, DOMAIN m \subseteq Int, NEW lo \in Int, NEW n \in Nat
    PROVE  /\ DOMAIN Reserve(m, lo, n) = DOMAIN m \cup Around(lo, n)
           /\ \A a \in Around(lo, n) : Reserve(m, lo, n)[a] = Zero
           /\ \A a \in DOMAIN m \ Around(lo, n) : Reserve(m, lo, n)[a] = m[a]
<1>0. PICK new : new = Around(lo, n)  OBVIOUS
<1>1. PICK x \in Int, y \in Int : x = PageOf(lo) /\ y = PageOf(lo + n - 1)  BY PageIsInt
<1>2. PageWords \in Nat  BY LoaderAssumption
<1> DEFINE cells == {p * PageWords + k : p \in x .. y, k \in 0 .. PageWords - 1}
<1>4. ASSUME NEW a PROVE a \in cells <=> a \in Around(lo, n)
  <2>1. ASSUME NEW p \in x .. y, NEW k \in 0 .. PageWords - 1, a = p * PageWords + k
        PROVE  a \in Around(lo, n)
    <3>1. a \in Int /\ p \in Int  BY <1>1, <1>2, <2>1
    <3>2. PageOf(a) = p  BY <2>1, <3>1, InPage
    <3> QED BY <1>1, <3>1, <3>2 DEF Around
  <2>2. ASSUME a \in Around(lo, n) PROVE a \in cells
    <3>1. a \in Int /\ PageOf(a) \in x .. y  BY <1>1, <2>2 DEF Around
    <3>2. PICK p \in Int : p = PageOf(a) /\ p \in x .. y  BY <1>1, <3>1
    <3>3. PICK k \in 0 .. PageWords - 1 : a = p * PageWords + k  BY <3>1, <3>2, InPage
    <3> QED BY <3>2, <3>3 DEF cells
  <2> QED BY <2>1, <2>2 DEF cells
<1>5. Reserve(m, lo, n) =
         [a \in DOMAIN m \cup cells |-> IF PageOf(a) \in x .. y THEN Zero ELSE m[a]]
  BY <1>1 DEF Reserve
<1> HIDE DEF cells
<1>6. cells = Around(lo, n)  BY ONLY <1>4
<1>7. \A a \in new : PageOf(a) \in x .. y  BY <1>0, <1>1 DEF Around
<1>8. \A a \in DOMAIN m \ new : PageOf(a) \notin x .. y  BY <1>0, <1>1 DEF Around
<1> QED BY ONLY <1>0, <1>5, <1>6, <1>7, <1>8

\* What PutSection does to the pages of its section, and to the others.
LEMMA SectionPut ==
    ASSUME NEW m, DOMAIN m \subseteq Int, NEW base \in Int, NEW s, s.va \in Nat, s.vsize \in Nat,
           s.raw \in Seq(FileWords)
    PROVE  /\ DOMAIN PutSection(m, base, s) = DOMAIN m \cup Area(base, s)
           /\ \A rva \in WordsOf(s) : /\ base + rva \in Area(base, s)
                                      /\ PutSection(m, base, s)[base + rva] = FileWord(s, rva)
           /\ \A a \in DOMAIN m \ Area(base, s) : PutSection(m, base, s)[a] = m[a]
<1>1. PICK va \in Nat, n \in Nat : va = s.va /\ n = s.vsize  OBVIOUS
<1>0. WordsOf(s) = va .. va + n - 1  BY <1>1 DEF WordsOf
<1>2. CASE n = 0
  <2>1. WordsOf(s) = {}  BY <1>0, <1>2
  <2>2. Area(base, s) = {} /\ PutSection(m, base, s) = m  BY <1>1, <1>2 DEF PutSection, Area
  <2> QED BY <2>1, <2>2
<1>3. CASE n # 0
  <2>1. PICK lo \in Int : lo = base + s.va /\ lo = base + va  BY <1>1
  <2>2. Area(base, s) = Around(lo, n)  BY <1>1, <1>3, <2>1 DEF Area
  <2>3. PICK r : r = Reserve(m, lo, n)  OBVIOUS
  <2>4. /\ DOMAIN r = DOMAIN m \cup Area(base, s)
        /\ \A a \in Area(base, s) : r[a] = Zero
        /\ \A a \in DOMAIN m \ Area(base, s) : r[a] = m[a]
    <3>1. /\ DOMAIN Reserve(m, lo, n) = DOMAIN m \cup Around(lo, n)
          /\ \A a \in Around(lo, n) : Reserve(m, lo, n)[a] = Zero
          /\ \A a \in DOMAIN m \ Around(lo, n) : Reserve(m, lo, n)[a] = m[a]
      BY Reserved
    <3> QED BY ONLY <2>2, <2>3, <3>1, Zenon
  <2>5. PICK words : words = RawWords(s)  OBVIOUS
  <2>6. PutSection(m, base, s) = wg_blink_write_mem(r, lo, words)
    BY <1>1, <1>3, <2>1, <2>3, <2>5 DEF PutSection
  <2>7. PICK l \in Nat : l = Len(s.raw)  OBVIOUS
  <2>8. PICK w \in Nat : w = IF l < n THEN l ELSE n  BY <2>7
  <2>9. Len(words) = w /\ \A k \in 1 .. w : words[k] = s.raw[k]
    BY <1>1, <2>5, <2>7, <2>8 DEF RawWords, Least
  <2>10. ASSUME NEW rva \in WordsOf(s)
         PROVE  /\ base + rva \in lo .. lo + n - 1
                /\ base + rva \in Area(base, s)
    <3>0. rva \in va .. va + n - 1  BY <1>0
    <3>1. PICK a \in Int : a = base + rva /\ lo <= a /\ a <= lo + n - 1
      <4>1. rva \in Int  BY ONLY <3>0, va \in Nat, n \in Nat
      <4>2. lo <= base + rva /\ base + rva <= lo + n - 1
        BY ONLY <2>1, <3>0, <4>1, va \in Nat, n \in Nat, base \in Int
      <4> QED BY <4>1, <4>2
    <3>2. PICK z \in Int : z = lo + n - 1  BY <1>1
    <3>3. PageOf(lo) <= PageOf(a) /\ PageOf(a) <= PageOf(z)  BY <3>1, <3>2, PagesAscend
    <3>4. PageOf(a) \in Int /\ PageOf(lo) \in Int /\ PageOf(z) \in Int  BY <3>1, <3>2, PageIsInt
    <3> QED BY <2>2, <3>1, <3>2, <3>3, <3>4 DEF Around
  <2>11. ASSUME NEW a \in DOMAIN m \ Area(base, s)
         PROVE  a \notin lo .. lo + n - 1
    <3>1. a \in Int  OBVIOUS
    <3>2. ASSUME a \in lo .. lo + n - 1 PROVE FALSE
      <4>1. PICK rva \in Int : rva = a - base  BY ONLY <3>1, base \in Int
      <4>2. rva \in WordsOf(s)  BY <1>0, <2>1, <3>2, <4>1
      <4>3. a = base + rva  BY <3>1, <4>1
      <4> QED BY <2>10, <4>2, <4>3
    <3> QED BY <3>2
  <2>12. /\ DOMAIN wg_blink_write_mem(r, lo, words) = DOMAIN r
         /\ \A a \in DOMAIN r : wg_blink_write_mem(r, lo, words)[a] =
                 IF a \in lo .. lo + w - 1 THEN words[a - lo + 1] ELSE r[a]
    BY <2>9, CopyWritten
  <2>13. ASSUME NEW rva \in WordsOf(s)
         PROVE  wg_blink_write_mem(r, lo, words)[base + rva] = FileWord(s, rva)
    <3>1. PICK a \in Int : a = base + rva /\ a \in Area(base, s) /\ a \in lo .. lo + n - 1
      BY <2>10
    <3>2. rva \in Int /\ va <= rva /\ rva - va < n /\ a - lo = rva - va
      <4>1. rva \in va .. va + n - 1  BY <1>0
      <4>2. rva \in Int  BY ONLY <4>1, va \in Nat, n \in Nat
      <4> QED BY ONLY <2>1, <3>1, <4>1, <4>2, va \in Nat, n \in Nat, base \in Int
    <3>3. a \in DOMAIN r /\ r[a] = Zero  BY <2>4, <3>1
    <3>4. CASE rva - va < l
      <4>1. a \in lo .. lo + w - 1 /\ a - lo + 1 \in 1 .. w /\ a - lo + 1 = rva - s.va + 1
        <5>1. a - lo + 1 = rva - va + 1 /\ a = lo + (rva - va) /\ rva - va \in Int /\ 0 <= rva - va
          BY ONLY <3>2, <3>1, lo \in Int, va \in Nat
        <5>2. rva - va < w  BY ONLY <2>7, <2>8, <3>2, <3>4, n \in Nat, va \in Nat
        <5> QED BY ONLY <1>1, <2>8, <5>1, <5>2, lo \in Int
      <4>2. wg_blink_write_mem(r, lo, words)[a] = s.raw[rva - s.va + 1]
        BY <2>9, <2>12, <3>3, <4>1
      <4>3. FileWord(s, rva) = s.raw[rva - s.va + 1]  BY ONLY <1>1, <2>7, <3>4 DEF FileWord
      <4> QED BY <3>1, <4>2, <4>3
    <3>5. CASE ~ (rva - va < l)
      <4>1. a \notin lo .. lo + w - 1  BY <2>1, <2>8, <3>1, <3>2, <3>5
      <4>2. wg_blink_write_mem(r, lo, words)[a] = Zero  BY <2>12, <3>3, <4>1
      <4>3. FileWord(s, rva) = Zero  BY ONLY <1>1, <2>7, <3>5 DEF FileWord
      <4> QED BY <3>1, <4>2, <4>3
    <3> QED BY <3>4, <3>5
  <2>14. ASSUME NEW a \in DOMAIN m \ Area(base, s)
         PROVE  wg_blink_write_mem(r, lo, words)[a] = m[a]
    <3>1. a \in Int /\ a \in DOMAIN r /\ r[a] = m[a]  BY <2>4
    <3>2. a \notin lo .. lo + w - 1  BY <2>8, <2>11, <3>1
    <3> QED BY <2>12, <3>1, <3>2
  <2> QED BY <2>4, <2>6, <2>10, <2>12, <2>13, <2>14
<1> QED BY <1>2, <1>3

-----------------------------------------------------------------------------
(* The loader: the loop over the sections.                                 *)

\* Word a of an image at base is on a page of section i.
LEMMA AreaPages ==
    ASSUME NEW img, ImageFits(img), NEW i \in DOMAIN img.sections, NEW q \in Int,
           NEW base \in Int, base = q * PageWords, NEW a \in Area(base, img.sections[i])
    PROVE  a \in Int /\ PageOf(a) - q \in SectionPages(img.sections[i])
<1> DEFINE s == img.sections[i]
<1>1. PICK va \in Nat, n \in Nat : va = s.va /\ n = s.vsize  BY SectionFacts
<1>2. n # 0 /\ a \in Around(base + va, n)  BY <1>1 DEF Area
<1>3. a \in Int /\ PageOf(a) \in PageOf(base + va) .. PageOf(base + va + n - 1)
  BY <1>2 DEF Around
<1>4. PICK b \in Int : b = va + n - 1  OBVIOUS
<1>5. PageOf(base + va) = q + PageOf(va)  BY PagesMove
<1>6. PageOf(base + b) = q + PageOf(b)  BY <1>4, PagesMove
<1>7. base + va + n - 1 = base + b  BY <1>4
<1>8. PageOf(va) \in Int /\ PageOf(b) \in Int /\ PageOf(a) \in Int  BY <1>3, <1>4, PageIsInt
<1>9. PageOf(a) - q \in PageOf(va) .. PageOf(b)  BY <1>3, <1>5, <1>6, <1>7, <1>8
<1>10. SectionPages(s) = PageOf(va) .. PageOf(b)  BY <1>1, <1>2, <1>4 DEF SectionPages
<1> QED BY <1>3, <1>9, <1>10

LEMMA AreasApart ==
    ASSUME NEW img, ImageFits(img), NEW i \in DOMAIN img.sections, NEW k \in DOMAIN img.sections,
           i # k, NEW base, Paged(base)
    PROVE  Area(base, img.sections[i]) \cap Area(base, img.sections[k]) = {}
<1>1. PICK q \in Nat : base = q * PageWords /\ base \in Int  BY DEF Paged
<1>2. SectionPages(img.sections[i]) \cap SectionPages(img.sections[k]) = {}
  BY DEF ImageFits, SectionsFit
<1>3. q \in Int  OBVIOUS
<1> SUFFICES ASSUME NEW a \in Area(base, img.sections[i]), a \in Area(base, img.sections[k])
             PROVE FALSE
  OBVIOUS
<1>4. PageOf(a) - q \in SectionPages(img.sections[i])  BY <1>1, <1>3, AreaPages
<1>5. PageOf(a) - q \in SectionPages(img.sections[k])  BY <1>1, <1>3, AreaPages
<1> QED BY <1>2, <1>4, <1>5

\* The pages that an image changes are those of its words.
LEMMA AreaSpan ==
    ASSUME NEW img, ImageFits(img), NEW i \in DOMAIN img.sections,
           NEW base \in Int, NEW a \in Area(base, img.sections[i])
    PROVE  a \in Int /\ PageOf(a) \in PagesOf(Span(base, img))
<1> DEFINE s == img.sections[i]
<1>1. PICK va \in Nat, n \in Nat : va = s.va /\ n = s.vsize  BY SectionFacts
<1>2. n # 0 /\ a \in Around(base + va, n)  BY <1>1 DEF Area
<1>3. PICK lo \in Int, hi \in Int : lo = base + va /\ hi = base + va + n - 1 /\ lo <= hi  BY <1>2
<1>4. a \in Int /\ PageOf(a) \in PageOf(lo) .. PageOf(hi)  BY <1>2, <1>3 DEF Around
<1>5. PICK w \in lo .. hi : PageOf(w) = PageOf(a)  BY <1>3, <1>4, PageBetween
<1>6. PICK rva \in Int : rva = w - base /\ w = base + rva /\ rva \in va .. va + n - 1
  BY <1>3, <1>5
<1>7. rva \in WordsOf(s)  BY <1>1, <1>6 DEF WordsOf
<1>8. rva \in Extent(img)  BY <1>7 DEF Extent
<1>9. w \in Span(base, img)  BY <1>6, <1>8 DEF Span
<1> QED BY <1>4, <1>5, <1>9 DEF PagesOf

\* A loop has a turn for each number.
LEMMA PutSectionsTurns ==
    ASSUME NEW m, NEW base, NEW img, NEW n \in Nat, n = Len(img.sections)
    PROVE  \E f : /\ f[0] = m /\ PutSections(m, base, img) = f[n]
                  /\ \A i \in 1 .. n : f[i] = PutSection(f[i - 1], base, img.sections[i])
<1> DEFINE Turn(a, i) == PutSection(a, base, img.sections[i])
           Is(f, k) == f = [i \in 0 .. k |-> IF i = 0 THEN m ELSE Turn(f[i - 1], i)]
           P == CHOOSE f : Is(f, n)
           B == {k \in 0 .. n : \E f : Is(f, k)}
<1>1. PutSections(m, base, img) = P[n]  BY DEF PutSections, Loop
<1>2. \A a, i : Turn(a, i) = PutSection(a, base, img.sections[i])  OBVIOUS
<1> HIDE DEF Turn
<1>3. 0 \in B
  <2> DEFINE g == [i \in 0 .. 0 |-> m]
  <2>1. Is(g, 0)  OBVIOUS
  <2> HIDE DEF g, Is
  <2> QED BY <2>1
<1>4. ASSUME NEW k \in 1 .. n, k - 1 \in B PROVE k \in B
  <2>1. PICK f : f = [i \in 0 .. k - 1 |-> IF i = 0 THEN m ELSE Turn(f[i - 1], i)]  BY <1>4
  <2>2. \A i \in 0 .. k - 1 : f[i] = IF i = 0 THEN m ELSE Turn(f[i - 1], i)  BY <2>1, Zenon
  <2> DEFINE g == [i \in 0 .. k |-> IF i < k THEN f[i] ELSE Turn(f[k - 1], k)]
  <2>3. ASSUME NEW i \in 0 .. k PROVE g[i] = IF i = 0 THEN m ELSE Turn(g[i - 1], i)
    <3>1. CASE i = 0
      <4>1. 0 \in 0 .. k - 1 /\ 0 < k  OBVIOUS
      <4>2. f[0] = m  BY <2>2, <4>1
      <4> QED BY <3>1, <4>1, <4>2
    <3>2. CASE i # 0 /\ i < k
      <4>1. i \in 0 .. k - 1 /\ i - 1 \in 0 .. k /\ i - 1 < k  BY <3>2
      <4>2. g[i] = f[i] /\ g[i - 1] = f[i - 1]  BY <3>2, <4>1
      <4>3. f[i] = Turn(f[i - 1], i)  BY <2>2, <3>2, <4>1
      <4> HIDE DEF g
      <4> QED BY <3>2, <4>2, <4>3
    <3>3. CASE i = k
      <4>1. ~ (k < k) /\ k - 1 < k /\ k - 1 \in 0 .. k /\ k # 0 /\ k \in 0 .. k  OBVIOUS
      <4>2. g[k] = Turn(f[k - 1], k) /\ g[k - 1] = f[k - 1]  BY <4>1
      <4> HIDE DEF g
      <4> QED BY <3>3, <4>1, <4>2
    <3> QED BY <3>1, <3>2, <3>3
  <2>4. Is(g, k)
    <3>1. g = [i \in 0 .. k |-> g[i]]  OBVIOUS
    <3> HIDE DEF g
    <3> QED BY <2>3, <3>1
  <2> HIDE DEF g, Is
  <2> QED BY <2>4
<1> HIDE DEF B
<1>5. \A k \in 0 .. n : k \in B  BY <1>3, <1>4, UpTo
<1>6. Is(P, n)
  <2>1. n \in B  BY <1>5
  <2> HIDE DEF Is
  <2> QED BY <2>1 DEF B
<1> HIDE DEF P
<1>7. \A i \in 0 .. n : P[i] = IF i = 0 THEN m ELSE Turn(P[i - 1], i)  BY <1>6, Zenon
<1>8. P[0] = m  BY <1>7
<1>9. \A i \in 1 .. n : P[i] = PutSection(P[i - 1], base, img.sections[i])  BY <1>2, <1>7
<1> QED BY <1>1, <1>8, <1>9

-----------------------------------------------------------------------------
(* The loader: what the loop over the sections comes to.                   *)

\* The first k sections are in the memory.
SectionsIn(m, base, img, k) ==
    \A i \in 1 .. k : \A rva \in WordsOf(img.sections[i]) :
        base + rva \in DOMAIN m /\ m[base + rva] = FileWord(img.sections[i], rva)

\* Nothing was changed but pages of the image.
KeptBut(m, new, base, img) ==
    /\ DOMAIN m \subseteq DOMAIN new /\ DOMAIN new \subseteq Int
    /\ \A a \in DOMAIN m : PageOf(a) \notin PagesOf(Span(base, img)) => new[a] = m[a]

\* One more section is in the memory, and the earlier ones still are.
LEMMA SectionAdded ==
    ASSUME NEW img, ImageFits(img), NEW base, Paged(base), NEW m, NEW g,
           NEW k \in DOMAIN img.sections, KeptBut(m, g, base, img), SectionsIn(g, base, img, k - 1)
    PROVE  /\ KeptBut(m, PutSection(g, base, img.sections[k]), base, img)
           /\ SectionsIn(PutSection(g, base, img.sections[k]), base, img, k)
<1>1. PICK s : s = img.sections[k]  OBVIOUS
<1>2. PICK h : h = PutSection(g, base, s)  OBVIOUS
<1>3. base \in Int  BY DEF Paged
<1>4. s.va \in Nat /\ s.vsize \in Nat /\ s.raw \in Seq(FileWords)  BY <1>1, SectionFacts
<1>5. DOMAIN g \subseteq Int /\ DOMAIN m \subseteq DOMAIN g  BY DEF KeptBut
<1>6. /\ DOMAIN h = DOMAIN g \cup Area(base, s)
      /\ \A rva \in WordsOf(s) : base + rva \in Area(base, s) /\ h[base + rva] = FileWord(s, rva)
      /\ \A a \in DOMAIN g \ Area(base, s) : h[a] = g[a]
  <2>1. /\ DOMAIN PutSection(g, base, s) = DOMAIN g \cup Area(base, s)
        /\ \A rva \in WordsOf(s) : /\ base + rva \in Area(base, s)
                                   /\ PutSection(g, base, s)[base + rva] = FileWord(s, rva)
        /\ \A a \in DOMAIN g \ Area(base, s) : PutSection(g, base, s)[a] = g[a]
    BY <1>3, <1>4, <1>5, SectionPut
  <2> QED BY ONLY <1>2, <2>1, Zenon
<1>7. \A a \in Area(base, s) : a \in Int /\ PageOf(a) \in PagesOf(Span(base, img))
  BY <1>1, <1>3, AreaSpan
<1>8. KeptBut(m, h, base, img)
  <2>1. DOMAIN m \subseteq DOMAIN h /\ DOMAIN h \subseteq Int  BY <1>5, <1>6, <1>7
  <2>2. ASSUME NEW a \in DOMAIN m, PageOf(a) \notin PagesOf(Span(base, img)) PROVE h[a] = m[a]
    <3>1. g[a] = m[a] /\ a \in DOMAIN g  BY <2>2 DEF KeptBut
    <3>2. a \notin Area(base, s)  BY <1>7, <2>2
    <3> QED BY <1>6, <3>1, <3>2
  <2> QED BY <2>1, <2>2 DEF KeptBut
<1>9. SectionsIn(h, base, img, k)
  <2> SUFFICES ASSUME NEW i \in 1 .. k, NEW rva \in WordsOf(img.sections[i])
               PROVE  /\ base + rva \in DOMAIN h
                      /\ h[base + rva] = FileWord(img.sections[i], rva)
    BY DEF SectionsIn
  <2>1. CASE i = k  BY <1>1, <1>6, <2>1
  <2>2. CASE i # k
    <3>1. k \in 1 .. Len(img.sections) /\ Len(img.sections) \in Nat  BY ImageLists
    <3>2. i \in 1 .. k - 1 /\ i \in DOMAIN img.sections  BY <2>2, <3>1, ImageLists
    <3>3. base + rva \in DOMAIN g /\ g[base + rva] = FileWord(img.sections[i], rva)
      BY <3>2 DEF SectionsIn
    <3>4. base + rva \in Area(base, img.sections[i])
      <4>1. PICK t : t = img.sections[i]  OBVIOUS
      <4>2. t.va \in Nat /\ t.vsize \in Nat /\ t.raw \in Seq(FileWords)
        BY <3>2, <4>1, SectionFacts
      <4>3. \A r \in WordsOf(t) : base + r \in Area(base, t)
        BY <1>3, <1>5, <4>2, SectionPut
      <4> QED BY <4>1, <4>3
    <3>5. Area(base, img.sections[i]) \cap Area(base, img.sections[k]) = {}
      BY <2>2, <3>2, AreasApart
    <3>6. base + rva \notin Area(base, s)  BY <1>1, <3>4, <3>5
    <3>7. base + rva \in DOMAIN h /\ h[base + rva] = g[base + rva]  BY <1>6, <3>3, <3>6
    <3> QED BY <3>3, <3>7
  <2> QED BY <2>1, <2>2
<1> QED BY <1>1, <1>2, <1>8, <1>9

\* What PutSections comes to.
LEMMA SectionsPut ==
    ASSUME NEW img, ImageFits(img), NEW base, Paged(base), NEW m, DOMAIN m \subseteq Int
    PROVE  /\ KeptBut(m, PutSections(m, base, img), base, img)
           /\ SectionsIn(PutSections(m, base, img), base, img, Len(img.sections))
<1>1. PICK n \in Nat : n = Len(img.sections) /\ DOMAIN img.sections = 1 .. n  BY ImageLists
<1>2. PICK f : /\ f[0] = m /\ PutSections(m, base, img) = f[n]
               /\ \A i \in 1 .. n : f[i] = PutSection(f[i - 1], base, img.sections[i])
  BY <1>1, PutSectionsTurns
<1> DEFINE B == {k \in 0 .. n : KeptBut(m, f[k], base, img) /\ SectionsIn(f[k], base, img, k)}
<1>3. 0 \in B
  <2>1. KeptBut(m, m, base, img)  BY DEF KeptBut
  <2>2. SectionsIn(m, base, img, 0)  BY DEF SectionsIn
  <2> QED BY <1>2, <2>1, <2>2
<1>4. ASSUME NEW k \in 1 .. n, k - 1 \in B PROVE k \in B
  <2>1. PICK g : g = f[k - 1] /\ KeptBut(m, g, base, img) /\ SectionsIn(g, base, img, k - 1)
    BY <1>4
  <2>2. f[k] = PutSection(g, base, img.sections[k])  BY <1>2, <2>1
  <2>3. k \in DOMAIN img.sections  BY <1>1
  <2>4. KeptBut(m, f[k], base, img) /\ SectionsIn(f[k], base, img, k)
    BY <2>1, <2>2, <2>3, SectionAdded
  <2> QED BY <2>4
<1> HIDE DEF B
<1>5. \A k \in 0 .. n : k \in B  BY <1>3, <1>4, UpTo
<1>6. n \in B  BY <1>5
<1> QED BY <1>1, <1>2, <1>6 DEF B

-----------------------------------------------------------------------------
(* The loader: the loops over the imports.                                 *)

LEMMA BindDllTurns ==
    ASSUME NEW m, NEW base, NEW img, NEW d, NEW width, NEW n \in Nat, n = num_functions(img.imports[d])
    PROVE  \E f : /\ f[0] = m /\ BindDll(m, base, img, d, width) = f[n]
                  /\ \A i \in 1 .. n : f[i] = BindSlot(f[i - 1], base, img, d, i, width)
<1> DEFINE Turn(a, i) == BindSlot(a, base, img, d, i, width)
           Is(f, k) == f = [i \in 0 .. k |-> IF i = 0 THEN m ELSE Turn(f[i - 1], i)]
           P == CHOOSE f : Is(f, n)
           B == {k \in 0 .. n : \E f : Is(f, k)}
<1>1. BindDll(m, base, img, d, width) = P[n]  BY DEF BindDll, Loop
<1>2. \A a, i : Turn(a, i) = BindSlot(a, base, img, d, i, width)  OBVIOUS
<1> HIDE DEF Turn
<1>3. 0 \in B
  <2> DEFINE g == [i \in 0 .. 0 |-> m]
  <2>1. Is(g, 0)  OBVIOUS
  <2> HIDE DEF g, Is
  <2> QED BY <2>1
<1>4. ASSUME NEW k \in 1 .. n, k - 1 \in B PROVE k \in B
  <2>1. PICK f : f = [i \in 0 .. k - 1 |-> IF i = 0 THEN m ELSE Turn(f[i - 1], i)]  BY <1>4
  <2>2. \A i \in 0 .. k - 1 : f[i] = IF i = 0 THEN m ELSE Turn(f[i - 1], i)  BY <2>1, Zenon
  <2> DEFINE g == [i \in 0 .. k |-> IF i < k THEN f[i] ELSE Turn(f[k - 1], k)]
  <2>3. ASSUME NEW i \in 0 .. k PROVE g[i] = IF i = 0 THEN m ELSE Turn(g[i - 1], i)
    <3>1. CASE i = 0
      <4>1. 0 \in 0 .. k - 1 /\ 0 < k  OBVIOUS
      <4>2. f[0] = m  BY <2>2, <4>1
      <4> QED BY <3>1, <4>1, <4>2
    <3>2. CASE i # 0 /\ i < k
      <4>1. i \in 0 .. k - 1 /\ i - 1 \in 0 .. k /\ i - 1 < k  BY <3>2
      <4>2. g[i] = f[i] /\ g[i - 1] = f[i - 1]  BY <3>2, <4>1
      <4>3. f[i] = Turn(f[i - 1], i)  BY <2>2, <3>2, <4>1
      <4> HIDE DEF g
      <4> QED BY <3>2, <4>2, <4>3
    <3>3. CASE i = k
      <4>1. ~ (k < k) /\ k - 1 < k /\ k - 1 \in 0 .. k /\ k # 0 /\ k \in 0 .. k  OBVIOUS
      <4>2. g[k] = Turn(f[k - 1], k) /\ g[k - 1] = f[k - 1]  BY <4>1
      <4> HIDE DEF g
      <4> QED BY <3>3, <4>1, <4>2
    <3> QED BY <3>1, <3>2, <3>3
  <2>4. Is(g, k)
    <3>1. g = [i \in 0 .. k |-> g[i]]  OBVIOUS
    <3> HIDE DEF g
    <3> QED BY <2>3, <3>1
  <2> HIDE DEF g, Is
  <2> QED BY <2>4
<1> HIDE DEF B
<1>5. \A k \in 0 .. n : k \in B  BY <1>3, <1>4, UpTo
<1>6. Is(P, n)
  <2>1. n \in B  BY <1>5
  <2> HIDE DEF Is
  <2> QED BY <2>1 DEF B
<1> HIDE DEF P
<1>7. \A i \in 0 .. n : P[i] = IF i = 0 THEN m ELSE Turn(P[i - 1], i)  BY <1>6, Zenon
<1>8. P[0] = m  BY <1>7
<1>9. \A i \in 1 .. n : P[i] = BindSlot(P[i - 1], base, img, d, i, width)  BY <1>2, <1>7
<1> QED BY <1>1, <1>8, <1>9

LEMMA BindTurns ==
    ASSUME NEW m, NEW base, NEW img, NEW width, NEW n \in Nat, n = Len(img.imports)
    PROVE  \E f : /\ f[0] = m /\ Bind(m, base, img, width) = f[n]
                  /\ \A i \in 1 .. n : f[i] = (IF i \in parse_imports(img) THEN BindDll(f[i - 1], base, img, i, width) ELSE f[i - 1])
<1> DEFINE Turn(a, i) == (IF i \in parse_imports(img) THEN BindDll(a, base, img, i, width) ELSE a)
           Is(f, k) == f = [i \in 0 .. k |-> IF i = 0 THEN m ELSE Turn(f[i - 1], i)]
           P == CHOOSE f : Is(f, n)
           B == {k \in 0 .. n : \E f : Is(f, k)}
<1>1. Bind(m, base, img, width) = P[n]  BY DEF Bind, Loop
<1>2. \A a, i : Turn(a, i) = (IF i \in parse_imports(img) THEN BindDll(a, base, img, i, width) ELSE a)  OBVIOUS
<1> HIDE DEF Turn
<1>3. 0 \in B
  <2> DEFINE g == [i \in 0 .. 0 |-> m]
  <2>1. Is(g, 0)  OBVIOUS
  <2> HIDE DEF g, Is
  <2> QED BY <2>1
<1>4. ASSUME NEW k \in 1 .. n, k - 1 \in B PROVE k \in B
  <2>1. PICK f : f = [i \in 0 .. k - 1 |-> IF i = 0 THEN m ELSE Turn(f[i - 1], i)]  BY <1>4
  <2>2. \A i \in 0 .. k - 1 : f[i] = IF i = 0 THEN m ELSE Turn(f[i - 1], i)  BY <2>1, Zenon
  <2> DEFINE g == [i \in 0 .. k |-> IF i < k THEN f[i] ELSE Turn(f[k - 1], k)]
  <2>3. ASSUME NEW i \in 0 .. k PROVE g[i] = IF i = 0 THEN m ELSE Turn(g[i - 1], i)
    <3>1. CASE i = 0
      <4>1. 0 \in 0 .. k - 1 /\ 0 < k  OBVIOUS
      <4>2. f[0] = m  BY <2>2, <4>1
      <4> QED BY <3>1, <4>1, <4>2
    <3>2. CASE i # 0 /\ i < k
      <4>1. i \in 0 .. k - 1 /\ i - 1 \in 0 .. k /\ i - 1 < k  BY <3>2
      <4>2. g[i] = f[i] /\ g[i - 1] = f[i - 1]  BY <3>2, <4>1
      <4>3. f[i] = Turn(f[i - 1], i)  BY <2>2, <3>2, <4>1
      <4> HIDE DEF g
      <4> QED BY <3>2, <4>2, <4>3
    <3>3. CASE i = k
      <4>1. ~ (k < k) /\ k - 1 < k /\ k - 1 \in 0 .. k /\ k # 0 /\ k \in 0 .. k  OBVIOUS
      <4>2. g[k] = Turn(f[k - 1], k) /\ g[k - 1] = f[k - 1]  BY <4>1
      <4> HIDE DEF g
      <4> QED BY <3>3, <4>1, <4>2
    <3> QED BY <3>1, <3>2, <3>3
  <2>4. Is(g, k)
    <3>1. g = [i \in 0 .. k |-> g[i]]  OBVIOUS
    <3> HIDE DEF g
    <3> QED BY <2>3, <3>1
  <2> HIDE DEF g, Is
  <2> QED BY <2>4
<1> HIDE DEF B
<1>5. \A k \in 0 .. n : k \in B  BY <1>3, <1>4, UpTo
<1>6. Is(P, n)
  <2>1. n \in B  BY <1>5
  <2> HIDE DEF Is
  <2> QED BY <2>1 DEF B
<1> HIDE DEF P
<1>7. \A i \in 0 .. n : P[i] = IF i = 0 THEN m ELSE Turn(P[i - 1], i)  BY <1>6, Zenon
<1>8. P[0] = m  BY <1>7
<1>9. \A i \in 1 .. n : P[i] = (IF i \in parse_imports(img) THEN BindDll(P[i - 1], base, img, i, width) ELSE P[i - 1])  BY <1>2, <1>7
<1> QED BY <1>1, <1>8, <1>9

\* The words of the slots of a DLL, with the empty one behind them.
Cells(img, d) == SlotsOf(img, d) \cup {SlotsEnd(img, d)}

SlotAt(base, img, d, j) == base + img.imports[d].iat + (j - 1) * SlotWords(img)

LEMMA ListedFacts ==
    ASSUME NEW img, ImageFits(img), NEW d \in Listed(img)
    PROVE  /\ d \in DOMAIN img.imports /\ img.imports[d].iat \in Nat
           /\ Len(List(img.imports[d])) \in Nat
           /\ DOMAIN List(img.imports[d]) = 1 .. Len(List(img.imports[d]))
           /\ num_functions(img.imports[d]) = Len(List(img.imports[d]))
           /\ SlotWords(img) \in {1, 2} /\ (img.wide => SlotWords(img) = 2)
<1> DEFINE imp == img.imports[d]
           ImportRecord == [dll : STRING, lookup : Seq(STRING), first : Seq(STRING), iat : Nat]
<1>1. d \in DOMAIN img.imports  BY DEF Listed
<1>2. img.imports \in Seq(ImportRecord) /\ img.wide \in BOOLEAN  BY DEF ImageFits, Images
<1> HIDE DEF ImportRecord
<1>3. imp \in ImportRecord  BY <1>1, <1>2, InSeq
<1>4. imp.iat \in Nat /\ List(imp) \in Seq(STRING)  BY <1>3 DEF ImportRecord, List
<1>5. Len(List(imp)) \in Nat /\ DOMAIN List(imp) = 1 .. Len(List(imp))  BY <1>4, InSeq
<1>6. Len(List(imp)) <= PE_MAX_IMPORT_FUNCS  BY DEF ImageFits, ImportsFit
<1>7. num_functions(imp) = Len(List(imp))
  BY <1>5, <1>6, LoaderAssumption DEF num_functions, Least
<1>8. SlotWords(img) \in {1, 2} /\ (img.wide => SlotWords(img) = 2)  BY <1>2 DEF SlotWords
<1> QED BY <1>1, <1>4, <1>5, <1>7, <1>8

\* No DLL is left out: the table has room.
LEMMA AllParsed ==
    ASSUME NEW img, ImageFits(img)
    PROVE  parse_imports(img) = Listed(img)
<1> SUFFICES ASSUME NEW d \in Listed(img)
             PROVE  Cardinality({i \in Listed(img) : i < d}) < PE_MAX_IMPORTS
  BY DEF parse_imports
<1> DEFINE before == {i \in Listed(img) : i < d}
<1>1. PICK n \in Nat : DOMAIN img.imports = 1 .. n  BY ImageLists
<1>2. Listed(img) \subseteq 1 .. n  BY <1>1 DEF Listed
<1>3. IsFiniteSet(1 .. n)  BY FS_Interval
<1>4. IsFiniteSet(Listed(img)) /\ Cardinality(Listed(img)) \in Nat
  BY <1>2, <1>3, FS_Subset, FS_CardinalityType
<1>5. before \subseteq Listed(img) /\ before # Listed(img)
  <2>1. d \in Int  BY <1>2
  <2>2. d \notin before  BY <2>1
  <2> QED BY <2>2
<1> HIDE DEF before
<1>6. Cardinality(before) < Cardinality(Listed(img)) /\ Cardinality(before) \in Nat
  BY <1>4, <1>5, FS_Subset, FS_CardinalityType
<1>7. Cardinality(Listed(img)) <= PE_MAX_IMPORTS  BY DEF ImageFits, ImportsFit
<1>8. PE_MAX_IMPORTS \in Nat  BY LoaderAssumption
<1>9. Cardinality(before) < PE_MAX_IMPORTS  BY <1>4, <1>6, <1>7, <1>8
<1> QED BY <1>9 DEF before

\* What BindSlot writes.
LEMMA SlotBound ==
    ASSUME NEW m, NEW base, NEW img, NEW d, NEW j, NEW width \in {1, 2},
           NEW at \in Int, at = SlotAt(base, img, d, j)
    PROVE  /\ DOMAIN BindSlot(m, base, img, d, j, width) = DOMAIN m
           /\ at \in DOMAIN m => BindSlot(m, base, img, d, j, width)[at]
                                    = Thunk(img.imports[d].dll, List(img.imports[d])[j])
           /\ width = 2 /\ at + 1 \in DOMAIN m =>
                BindSlot(m, base, img, d, j, width)[at + 1] = Zero
           /\ \A a \in DOMAIN m : a # at /\ (a # at + 1 \/ width = 1) /\ a \in Int =>
                BindSlot(m, base, img, d, j, width)[a] = m[a]
<1> DEFINE stub == Thunk(img.imports[d].dll, List(img.imports[d])[j])
           words == IF width = 2 THEN <<stub, Zero>> ELSE <<stub>>
<1>1. BindSlot(m, base, img, d, j, width) = wg_blink_write_mem(m, at, words)
  BY DEF BindSlot, SlotAt
<1> HIDE DEF stub
<1>2. words[1] = stub /\ Len(words) = width /\ (width = 2 => words[2] = Zero)  OBVIOUS
<1> HIDE DEF words
<1>3. PICK g : g = wg_blink_write_mem(m, at, words)  OBVIOUS
<1>4. /\ DOMAIN g = DOMAIN m
      /\ \A a \in DOMAIN m : g[a] =
            IF a \in at .. at + width - 1 THEN words[a - at + 1] ELSE m[a]
  BY <1>2, <1>3, CopyWritten
<1>5. at \in DOMAIN m => g[at] = stub  BY <1>2, <1>4
<1>6. width = 2 /\ at + 1 \in DOMAIN m => g[at + 1] = Zero
  <2>1. (at + 1) - at + 1 = 2  OBVIOUS
  <2> QED BY <1>2, <1>4, <2>1
<1>7. \A a \in DOMAIN m : a # at /\ (a # at + 1 \/ width = 1) /\ a \in Int => g[a] = m[a]
  BY <1>4
<1> QED BY <1>1, <1>3, <1>4, <1>5, <1>6, <1>7 DEF stub

-----------------------------------------------------------------------------
(* The loader: what the loops over the imports come to.                    *)

\* The first k slots of DLL d are bound.
SlotsRight(m, base, img, d, k) ==
    \A j \in 1 .. k :
        /\ m[SlotAt(base, img, d, j)] = Thunk(img.imports[d].dll, List(img.imports[d])[j])
        /\ img.wide => m[SlotAt(base, img, d, j) + 1] = Zero

InCells(a, base, img, d) == \E rva \in Cells(img, d) : a = base + rva

\* k slots of DLL d were bound in m, and nothing else was done to it.
BoundTo(m, g, base, img, d, k) ==
    /\ DOMAIN g = DOMAIN m
    /\ \A a \in DOMAIN m : ~ InCells(a, base, img, d) => g[a] = m[a]
    /\ g[base + SlotsEnd(img, d)] = Zero
    /\ SlotsRight(g, base, img, d, k)

\* Where slot j of a DLL is: among its cells, behind the slots before it.
LEMMA SlotPlace ==
    ASSUME NEW img, ImageFits(img), NEW d \in Listed(img), NEW base \in Int,
           NEW j \in 1 .. Len(List(img.imports[d]))
    PROVE  /\ SlotAt(base, img, d, j) \in Int
           /\ base + SlotsEnd(img, d) \in Int
           /\ SlotAt(base, img, d, j) < base + SlotsEnd(img, d)
           /\ SlotAt(base, img, d, j) + 1 <= base + SlotsEnd(img, d)
           /\ img.wide => SlotAt(base, img, d, j) + 1 < base + SlotsEnd(img, d)
           /\ InCells(SlotAt(base, img, d, j), base, img, d)
           /\ InCells(SlotAt(base, img, d, j) + 1, base, img, d)
           /\ InCells(base + SlotsEnd(img, d), base, img, d)
           /\ \A i \in 1 .. j - 1 :
                 /\ SlotAt(base, img, d, i) < SlotAt(base, img, d, j)
                 /\ img.wide => SlotAt(base, img, d, i) + 1 < SlotAt(base, img, d, j)
<1>1. PICK iat \in Nat, l \in Nat, w \in {1, 2} :
         /\ iat = img.imports[d].iat /\ l = Len(List(img.imports[d])) /\ w = SlotWords(img)
         /\ img.wide => w = 2
  BY ListedFacts
<1>2. PICK rva \in Int : rva = iat + (j - 1) * w  BY <1>1
<1>3. PICK end \in Int : end = iat + l * w  BY <1>1
<1>4. SlotsEnd(img, d) = end /\ SlotsOf(img, d) = iat .. end - 1
  BY <1>1, <1>3 DEF SlotsEnd, SlotsOf
<1>5. SlotAt(base, img, d, j) = base + rva  BY <1>1, <1>2, SMTT(30) DEF SlotAt
<1>6. iat <= rva /\ rva + w <= end
  <2>1. CASE w = 1  BY <1>1, <1>2, <1>3, <2>1
  <2>2. CASE w = 2  BY <1>1, <1>2, <1>3, <2>2
  <2> QED BY <1>1, <2>1, <2>2
<1>7. w >= 1 /\ (img.wide => w = 2)  BY <1>1
<1>8. Cells(img, d) = (iat .. end - 1) \cup {end}  BY <1>4 DEF Cells
<1>9. rva \in Cells(img, d) /\ rva + 1 \in Cells(img, d) /\ end \in Cells(img, d)
  <2>1. rva + 1 <= end /\ rva < end  BY ONLY <1>6, w \in {1, 2}, rva \in Int, end \in Int
  <2> QED BY ONLY <1>6, <1>8, <2>1, iat \in Nat, rva \in Int, end \in Int
<1>10. base + rva + 1 = base + (rva + 1)  BY <1>2
<1>11. /\ InCells(base + rva, base, img, d) /\ InCells(base + rva + 1, base, img, d)
       /\ InCells(base + end, base, img, d)
  BY <1>9, <1>10 DEF InCells
<1>12. ASSUME NEW i \in 1 .. j - 1
       PROVE  /\ SlotAt(base, img, d, i) < base + rva
              /\ img.wide => SlotAt(base, img, d, i) + 1 < base + rva
  <2>1. SlotAt(base, img, d, i) = base + iat + (i - 1) * w  BY <1>1 DEF SlotAt
  <2>2. CASE w = 1
    <3>1. i \in Int /\ j \in Int /\ i <= j - 1  OBVIOUS
    <3> QED BY ONLY <1>1, <1>2, <2>1, <2>2, <3>1, base \in Int, iat \in Nat, SMTT(30)
  <2>3. CASE w = 2
    <3>1. SlotAt(base, img, d, i) = base + iat + (2 * i - 2) /\ rva = iat + (2 * j - 2)
      BY <1>2, <2>1, <2>3
    <3>2. i \in Int /\ j \in Int /\ i <= j - 1  OBVIOUS
    <3> QED BY ONLY <3>1, <3>2, base \in Int, iat \in Nat
  <2> QED BY <1>1, <2>2, <2>3
<1>13. base + rva \in Int /\ base + end \in Int /\ base + rva < base + end
       /\ base + rva + 1 <= base + end /\ (img.wide => base + rva + 1 < base + end)
  BY <1>2, <1>3, <1>6, <1>7
<1> QED BY ONLY <1>4, <1>5, <1>11, <1>12, <1>13

\* One more slot is bound. Two words are written to it, in a program of 32 bits the
\* second to the next slot, which is bound later or is the empty one.
LEMMA SlotAdded ==
    ASSUME NEW img, ImageFits(img), NEW d \in Listed(img), NEW base \in Int,
           NEW width \in {1, 2}, img.wide => width = 2, NEW m, DOMAIN m \subseteq Int,
           \A rva \in Cells(img, d) : base + rva \in DOMAIN m,
           NEW k \in 1 .. Len(List(img.imports[d])), NEW g, BoundTo(m, g, base, img, d, k - 1)
    PROVE  BoundTo(m, BindSlot(g, base, img, d, k, width), base, img, d, k)
<1>1. PICK at \in Int : at = SlotAt(base, img, d, k)  BY SlotPlace
<1>2. PICK h : h = BindSlot(g, base, img, d, k, width)  OBVIOUS
<1>3. /\ DOMAIN h = DOMAIN g
      /\ at \in DOMAIN g => h[at] = Thunk(img.imports[d].dll, List(img.imports[d])[k])
      /\ width = 2 /\ at + 1 \in DOMAIN g => h[at + 1] = Zero
      /\ \A a \in DOMAIN g : a # at /\ (a # at + 1 \/ width = 1) /\ a \in Int => h[a] = g[a]
  BY <1>1, <1>2, SlotBound
<1>4. DOMAIN g = DOMAIN m  BY DEF BoundTo
<1>5. \A a : InCells(a, base, img, d) => a \in DOMAIN g  BY <1>4 DEF InCells
<1>6. PICK end \in Int : end = base + SlotsEnd(img, d)  BY SlotPlace
<1>7. /\ at < end /\ at + 1 <= end /\ (img.wide => at + 1 < end)
      /\ InCells(at, base, img, d) /\ InCells(at + 1, base, img, d) /\ InCells(end, base, img, d)
  BY <1>1, <1>6, SlotPlace
<1>8. ASSUME NEW a \in DOMAIN m, ~ InCells(a, base, img, d) PROVE h[a] = m[a]
  <2>1. a # at /\ a # at + 1 /\ a \in Int  BY <1>7, <1>8
  <2>2. g[a] = m[a]  BY <1>8 DEF BoundTo
  <2> QED BY <1>3, <1>4, <2>1, <2>2
<1>9. h[end] = Zero
  <2>1. g[end] = Zero /\ end \in DOMAIN g  BY <1>5, <1>6, <1>7 DEF BoundTo
  <2>2. end # at  BY <1>7
  <2>3. CASE end = at + 1 /\ width = 2  BY <1>3, <2>1, <2>3
  <2>4. CASE end # at + 1 \/ width = 1  BY <1>3, <2>1, <2>2, <2>4
  <2> QED BY <2>3, <2>4
<1>10. ASSUME NEW j \in 1 .. k
       PROVE  /\ h[SlotAt(base, img, d, j)] = Thunk(img.imports[d].dll, List(img.imports[d])[j])
              /\ img.wide => h[SlotAt(base, img, d, j) + 1] = Zero
  <2>1. CASE j = k
    <3>1. at \in DOMAIN g /\ at + 1 \in DOMAIN g  BY <1>5, <1>7
    <3> QED BY <1>1, <1>3, <2>1, <3>1
  <2>2. CASE j # k
    <3>1. j \in 1 .. k - 1 /\ j \in 1 .. Len(List(img.imports[d]))
      <4>1. Len(List(img.imports[d])) \in Nat  BY ListedFacts
      <4> QED BY <2>2, <4>1
    <3>2. PICK x \in Int : /\ x = SlotAt(base, img, d, j)
                           /\ InCells(x, base, img, d) /\ InCells(x + 1, base, img, d)
      BY <3>1, SlotPlace
    <3>3. x < at /\ (img.wide => x + 1 < at)  BY <1>1, <3>1, <3>2, SlotPlace
    <3>4. x \in DOMAIN g /\ x + 1 \in DOMAIN g  BY <1>5, <3>2
    <3>5. h[x] = g[x] /\ (img.wide => h[x + 1] = g[x + 1])
      <4>1. x # at /\ x # at + 1  BY <3>3
      <4>2. img.wide => x + 1 # at /\ x + 1 # at + 1 /\ x + 1 \in Int  BY <3>3
      <4> QED BY <1>3, <3>4, <4>1, <4>2
    <3>6. /\ g[x] = Thunk(img.imports[d].dll, List(img.imports[d])[j])
          /\ img.wide => g[x + 1] = Zero
      BY <3>1, <3>2 DEF BoundTo, SlotsRight
    <3> QED BY <3>2, <3>5, <3>6
  <2> QED BY <2>1, <2>2
<1>11. SlotsRight(h, base, img, d, k)  BY <1>10 DEF SlotsRight
<1>12. BoundTo(m, h, base, img, d, k)  BY <1>3, <1>4, <1>6, <1>8, <1>9, <1>11 DEF BoundTo
<1> QED BY <1>2, <1>12

\* What BindDll comes to.
LEMMA DllBound ==
    ASSUME NEW img, ImageFits(img), NEW d \in Listed(img), NEW base \in Int,
           NEW width \in {1, 2}, img.wide => width = 2, NEW m, DOMAIN m \subseteq Int,
           \A rva \in Cells(img, d) : base + rva \in DOMAIN m,
           m[base + SlotsEnd(img, d)] = Zero
    PROVE  BoundTo(m, BindDll(m, base, img, d, width), base, img, d, Len(List(img.imports[d])))
<1>1. PICK n \in Nat : n = Len(List(img.imports[d])) /\ n = num_functions(img.imports[d])
  BY ListedFacts
<1>2. PICK f : /\ f[0] = m /\ BindDll(m, base, img, d, width) = f[n]
               /\ \A i \in 1 .. n : f[i] = BindSlot(f[i - 1], base, img, d, i, width)
  BY <1>1, BindDllTurns
<1> DEFINE B == {k \in 0 .. n : BoundTo(m, f[k], base, img, d, k)}
<1>3. 0 \in B
  <2>1. SlotsRight(m, base, img, d, 0)  BY DEF SlotsRight
  <2>2. BoundTo(m, m, base, img, d, 0)  BY <2>1 DEF BoundTo
  <2> QED BY <1>2, <2>2
<1>4. ASSUME NEW k \in 1 .. n, k - 1 \in B PROVE k \in B
  <2>1. PICK g : g = f[k - 1] /\ BoundTo(m, g, base, img, d, k - 1)  BY <1>4
  <2>2. f[k] = BindSlot(g, base, img, d, k, width)  BY <1>2, <2>1
  <2>3. BoundTo(m, f[k], base, img, d, k)  BY <1>1, <2>1, <2>2, SlotAdded
  <2> QED BY <2>3
<1> HIDE DEF B
<1>5. \A k \in 0 .. n : k \in B  BY <1>3, <1>4, UpTo
<1>6. n \in B  BY <1>5
<1> QED BY <1>1, <1>2, <1>6 DEF B

-----------------------------------------------------------------------------
(* The loader: all the DLLs of an image.                                   *)

\* The DLLs listed first, up to k, were bound in m, and nothing else was done to it.
ImageBoundTo(m, g, base, img, k) ==
    /\ DOMAIN g = DOMAIN m
    /\ \A a \in DOMAIN m :
          (\A d \in Listed(img) : d <= k => ~ InCells(a, base, img, d)) => g[a] = m[a]
    /\ \A d \in Listed(img) : d <= k =>
          /\ g[base + SlotsEnd(img, d)] = Zero
          /\ SlotsRight(g, base, img, d, Len(List(img.imports[d])))

LEMMA CellsInside ==
    ASSUME NEW img, ImageFits(img), NEW d \in Listed(img)
    PROVE  \E i \in DOMAIN img.sections :
              /\ Cells(img, d) \subseteq WordsOf(img.sections[i])
              /\ FileWord(img.sections[i], SlotsEnd(img, d)) = Zero
<1>1. \E i \in DOMAIN img.sections :
         /\ SlotsOf(img, d) \cup {SlotsEnd(img, d)} \subseteq WordsOf(img.sections[i])
         /\ FileWord(img.sections[i], SlotsEnd(img, d)) = Zero
  BY DEF ImageFits, ImportsFit
<1> QED BY <1>1 DEF Cells

LEMMA WordIsInt ==
    ASSUME NEW img, ImageFits(img), NEW i \in DOMAIN img.sections, NEW rva \in WordsOf(img.sections[i])
    PROVE  rva \in Nat
<1>1. PICK va \in Nat, n \in Nat : va = img.sections[i].va /\ n = img.sections[i].vsize
  BY SectionFacts
<1>2. rva \in va .. va + n - 1  BY <1>1 DEF WordsOf
<1> QED BY <1>2

\* The slots of two DLLs do not meet.
LEMMA CellsApart ==
    ASSUME NEW img, ImageFits(img), NEW d \in Listed(img), NEW e \in Listed(img), d # e,
           NEW base \in Int, NEW a, InCells(a, base, img, d)
    PROVE  ~ InCells(a, base, img, e)
<1>1. Cells(img, d) \cap Cells(img, e) = {}  BY DEF ImageFits, ImportsFit, Cells
<1>2. \A x \in Cells(img, d) \cup Cells(img, e) : x \in Int  BY CellsInside, WordIsInt
<1>3. PICK x \in Cells(img, d) : a = base + x  BY DEF InCells
<1>4. ASSUME NEW y \in Cells(img, e), a = base + y PROVE FALSE
  <2>1. x \in Int /\ y \in Int  BY <1>2
  <2>2. x = y  BY <1>3, <1>4, <2>1
  <2> QED BY <1>1, <2>2
<1> QED BY <1>4 DEF InCells

LEMMA SlotsKept ==
    ASSUME NEW img, ImageFits(img), NEW d \in Listed(img), NEW base \in Int, NEW g, NEW h,
           \A a : InCells(a, base, img, d) => h[a] = g[a]
    PROVE  /\ SlotsRight(g, base, img, d, Len(List(img.imports[d])))
                => SlotsRight(h, base, img, d, Len(List(img.imports[d])))
           /\ h[base + SlotsEnd(img, d)] = g[base + SlotsEnd(img, d)]
<1>1. \A j \in 1 .. Len(List(img.imports[d])) :
         /\ InCells(SlotAt(base, img, d, j), base, img, d)
         /\ InCells(SlotAt(base, img, d, j) + 1, base, img, d)
  BY SlotPlace
<1>2. InCells(base + SlotsEnd(img, d), base, img, d)  BY DEF InCells, Cells
<1> QED BY <1>1, <1>2 DEF SlotsRight

\* One more DLL of an image is bound.
LEMMA DllAdded ==
    ASSUME NEW img, ImageFits(img), NEW base \in Int, NEW width \in {1, 2},
           img.wide => width = 2, NEW m, DOMAIN m \subseteq Int,
           \A e \in Listed(img) : /\ \A rva \in Cells(img, e) : base + rva \in DOMAIN m
                                  /\ m[base + SlotsEnd(img, e)] = Zero,
           NEW k \in Listed(img), NEW g, ImageBoundTo(m, g, base, img, k - 1)
    PROVE  ImageBoundTo(m, BindDll(g, base, img, k, width), base, img, k)
<1>1. PICK h : h = BindDll(g, base, img, k, width)  OBVIOUS
<1>2. DOMAIN g = DOMAIN m  BY DEF ImageBoundTo
<1>3. \A d \in Listed(img) : d \in Int  BY ImageLists DEF Listed
<1>4. \A d \in Listed(img) : d <= k - 1 => d # k  BY <1>3
<1>5. \A d \in Listed(img) : \A a : InCells(a, base, img, d) => a \in DOMAIN m  BY DEF InCells
<1>6. g[base + SlotsEnd(img, k)] = Zero
  <2>1. PICK a : a = base + SlotsEnd(img, k)  OBVIOUS
  <2>2. InCells(a, base, img, k)  BY <2>1 DEF InCells, Cells
  <2>3. \A d \in Listed(img) : d <= k - 1 => ~ InCells(a, base, img, d)
    BY <1>4, <2>2, CellsApart
  <2>4. g[a] = m[a]  BY <1>5, <2>2, <2>3 DEF ImageBoundTo
  <2> QED BY <2>1, <2>4
<1>7. BoundTo(g, h, base, img, k, Len(List(img.imports[k])))
  <2>1. DOMAIN g \subseteq Int /\ \A rva \in Cells(img, k) : base + rva \in DOMAIN g  BY <1>2
  <2> QED BY <1>1, <1>6, <2>1, DllBound
<1>8. /\ DOMAIN h = DOMAIN g
      /\ \A a \in DOMAIN g : ~ InCells(a, base, img, k) => h[a] = g[a]
      /\ h[base + SlotsEnd(img, k)] = Zero
      /\ SlotsRight(h, base, img, k, Len(List(img.imports[k])))
  BY <1>7 DEF BoundTo
<1>9. ASSUME NEW a \in DOMAIN m,
             \A d \in Listed(img) : d <= k => ~ InCells(a, base, img, d)
      PROVE  h[a] = m[a]
  <2>1. \A d \in Listed(img) : d <= k - 1 => ~ InCells(a, base, img, d)  BY <1>3, <1>9
  <2>2. g[a] = m[a]  BY <2>1 DEF ImageBoundTo
  <2>3. ~ InCells(a, base, img, k)  BY <1>3, <1>9
  <2> QED BY <1>2, <1>8, <2>2, <2>3
<1>10. ASSUME NEW d \in Listed(img), d <= k
       PROVE  /\ h[base + SlotsEnd(img, d)] = Zero
              /\ SlotsRight(h, base, img, d, Len(List(img.imports[d])))
  <2>1. CASE d = k  BY <1>8, <2>1
  <2>2. CASE d # k
    <3>1. d <= k - 1  BY <1>3, <1>10, <2>2
    <3>2. /\ g[base + SlotsEnd(img, d)] = Zero
          /\ SlotsRight(g, base, img, d, Len(List(img.imports[d])))
      BY <3>1 DEF ImageBoundTo
    <3>3. \A a : InCells(a, base, img, d) => h[a] = g[a]
      BY <1>2, <1>5, <1>8, <2>2, CellsApart
    <3>4. /\ SlotsRight(g, base, img, d, Len(List(img.imports[d])))
                => SlotsRight(h, base, img, d, Len(List(img.imports[d])))
          /\ h[base + SlotsEnd(img, d)] = g[base + SlotsEnd(img, d)]
      BY <3>3, SlotsKept
    <3> QED BY ONLY <3>2, <3>4, Zenon
  <2> QED BY <2>1, <2>2
<1>11. ImageBoundTo(m, h, base, img, k)  BY <1>2, <1>8, <1>9, <1>10 DEF ImageBoundTo
<1> QED BY <1>1, <1>11

\* What Bind comes to.
LEMMA ImageBound ==
    ASSUME NEW img, ImageFits(img), NEW base \in Int, NEW width \in {1, 2},
           img.wide => width = 2, NEW m, DOMAIN m \subseteq Int,
           \A e \in Listed(img) : /\ \A rva \in Cells(img, e) : base + rva \in DOMAIN m
                                  /\ m[base + SlotsEnd(img, e)] = Zero
    PROVE  ImageBoundTo(m, Bind(m, base, img, width), base, img, Len(img.imports))
<1>1. PICK n \in Nat : n = Len(img.imports) /\ DOMAIN img.imports = 1 .. n  BY ImageLists
<1>2. PICK f : /\ f[0] = m /\ Bind(m, base, img, width) = f[n]
               /\ \A i \in 1 .. n : f[i] = (IF i \in parse_imports(img)
                                            THEN BindDll(f[i - 1], base, img, i, width)
                                            ELSE f[i - 1])
  BY <1>1, BindTurns
<1> DEFINE B == {k \in 0 .. n : ImageBoundTo(m, f[k], base, img, k)}
<1>3. \A d \in Listed(img) : d \in 1 .. n  BY <1>1 DEF Listed
<1>4. 0 \in B
  <2>1. \A d \in Listed(img) : ~ (d <= 0)  BY <1>3
  <2>2. ImageBoundTo(m, m, base, img, 0)  BY <2>1 DEF ImageBoundTo
  <2> QED BY <1>2, <2>2
<1>5. ASSUME NEW k \in 1 .. n, k - 1 \in B PROVE k \in B
  <2>1. PICK g : g = f[k - 1] /\ ImageBoundTo(m, g, base, img, k - 1)  BY <1>5
  <2>2. CASE k \in Listed(img)
    <3>1. f[k] = BindDll(g, base, img, k, width)  BY <1>2, <2>1, <2>2, AllParsed
    <3>2. ImageBoundTo(m, BindDll(g, base, img, k, width), base, img, k)
      BY <2>1, <2>2, DllAdded
    <3> QED BY <3>1, <3>2
  <2>3. CASE k \notin Listed(img)
    <3>1. f[k] = g  BY <1>2, <2>1, <2>3, AllParsed
    <3>2. \A d \in Listed(img) : d <= k => d <= k - 1  BY <1>3, <2>3
    <3>3. \A d \in Listed(img) : d <= k - 1 => d <= k  BY <1>3
    <3>4. ImageBoundTo(m, g, base, img, k)  BY <2>1, <3>2, <3>3 DEF ImageBoundTo
    <3> QED BY <3>1, <3>4
  <2> QED BY <2>2, <2>3
<1> HIDE DEF B
<1>6. \A k \in 0 .. n : k \in B  BY <1>4, <1>5, UpTo
<1>7. n \in B  BY <1>6
<1> QED BY <1>1, <1>2, <1>7 DEF B

-----------------------------------------------------------------------------
(* The loader: an image in memory.                                         *)

Expected(base, img, i, rva) ==
    IF rva \in Pointers(img)
    THEN <<"raw", FileWord(img.sections[i], rva)[2] + base - img.base>>
    ELSE FileWord(img.sections[i], rva)

\* The words of the file are there and were moved; no slot is bound yet.
FileIn(m, base, img) ==
    \A i \in DOMAIN img.sections : \A rva \in WordsOf(img.sections[i]) :
        base + rva \in DOMAIN m /\ m[base + rva] = Expected(base, img, i, rva)

OutOf(a, base, img) == \A rva \in Extent(img) : a # base + rva

\* Binding an image whose words are there loads it.
LEMMA ImageLoaded ==
    ASSUME NEW img, ImageFits(img), NEW base \in Int, NEW width \in {1, 2},
           img.wide => width = 2, NEW m, DOMAIN m \subseteq Int, FileIn(m, base, img)
    PROVE  /\ DOMAIN Bind(m, base, img, width) = DOMAIN m
           /\ Loaded(Bind(m, base, img, width), base, img, {})
           /\ \A a \in DOMAIN m : OutOf(a, base, img) => Bind(m, base, img, width)[a] = m[a]
<1>1. PICK g : g = Bind(m, base, img, width)  OBVIOUS
<1>2. ASSUME NEW e \in Listed(img)
      PROVE  /\ \A rva \in Cells(img, e) : base + rva \in DOMAIN m
             /\ m[base + SlotsEnd(img, e)] = Zero
  <2>1. PICK i \in DOMAIN img.sections :
           /\ Cells(img, e) \subseteq WordsOf(img.sections[i])
           /\ FileWord(img.sections[i], SlotsEnd(img, e)) = Zero
    BY CellsInside
  <2>2. SlotsEnd(img, e) \in Cells(img, e)  BY DEF Cells
  <2>3. SlotsEnd(img, e) \notin Pointers(img)  BY DEF ImageFits, RelocsFit
  <2>4. m[base + SlotsEnd(img, e)] = Expected(base, img, i, SlotsEnd(img, e))
    BY <2>1, <2>2 DEF FileIn
  <2>5. m[base + SlotsEnd(img, e)] = Zero  BY <2>1, <2>3, <2>4 DEF Expected
  <2> QED BY <2>1, <2>5 DEF FileIn
<1>3. PICK n \in Nat : n = Len(img.imports) /\ \A d \in Listed(img) : d <= n
  BY ImageLists DEF Listed
<1>4. ImageBoundTo(m, g, base, img, n)  BY <1>1, <1>2, <1>3, ImageBound
<1>5. /\ DOMAIN g = DOMAIN m
      /\ \A a \in DOMAIN m : (\A d \in Listed(img) : ~ InCells(a, base, img, d)) => g[a] = m[a]
      /\ \A d \in Listed(img) : /\ g[base + SlotsEnd(img, d)] = Zero
                                /\ SlotsRight(g, base, img, d, Len(List(img.imports[d])))
  BY <1>3, <1>4 DEF ImageBoundTo
<1>6. ASSUME NEW a \in DOMAIN m, OutOf(a, base, img) PROVE g[a] = m[a]
  <2>1. ASSUME NEW d \in Listed(img) PROVE ~ InCells(a, base, img, d)
    <3>1. \A rva \in Cells(img, d) : rva \in Extent(img)  BY CellsInside DEF Extent
    <3> QED BY <1>6, <3>1 DEF InCells, OutOf
  <2> QED BY <1>5, <2>1
<1>7. ASSUME NEW d \in Listed(img), NEW j \in DOMAIN List(img.imports[d]),
             NEW a, a = base + img.imports[d].iat + (j - 1) * SlotWords(img)
      PROVE  /\ g[a] = Thunk(img.imports[d].dll, List(img.imports[d])[j])
             /\ img.wide => g[a + 1] = Zero
  <2>1. j \in 1 .. Len(List(img.imports[d]))  BY ListedFacts
  <2>2. a = SlotAt(base, img, d, j)  BY <1>7 DEF SlotAt
  <2> QED BY <1>5, <2>1, <2>2 DEF SlotsRight
<1>8. ASSUME NEW i \in DOMAIN img.sections, NEW rva \in WordsOf(img.sections[i]),
             \A d \in Listed(img) : rva \notin SlotsOf(img, d)
      PROVE  g[base + rva] = Expected(base, img, i, rva)
  <2>1. base + rva \in DOMAIN m /\ m[base + rva] = Expected(base, img, i, rva)  BY DEF FileIn
  <2>2. CASE \E d \in Listed(img) : rva = SlotsEnd(img, d)
    <3>1. PICK d \in Listed(img) : rva = SlotsEnd(img, d)  BY <2>2
    <3>2. g[base + rva] = Zero /\ m[base + rva] = Zero  BY <1>2, <1>5, <3>1
    <3> QED BY <2>1, <3>2
  <2>3. CASE ~ \E d \in Listed(img) : rva = SlotsEnd(img, d)
    <3>1. ASSUME NEW d \in Listed(img) PROVE ~ InCells(base + rva, base, img, d)
      <4>1. rva \notin Cells(img, d)  BY <1>8, <2>3 DEF Cells
      <4>2. ASSUME NEW x \in Cells(img, d), base + rva = base + x PROVE FALSE
        <5>1. x \in Int /\ rva \in Int  BY CellsInside, WordIsInt
        <5>2. x = rva  BY <4>2, <5>1
        <5> QED BY <4>1, <5>2
      <4> QED BY <4>2 DEF InCells
    <3>2. g[base + rva] = m[base + rva]  BY <1>5, <2>1, <3>1
    <3> QED BY <2>1, <3>2
  <2> QED BY <2>2, <2>3
<1>9. Loaded(g, base, img, {})  BY <1>7, <1>8 DEF Loaded, Expected
<1> QED BY <1>1, <1>5, <1>6, <1>9

\* No block that can be read is left out.
LEMMA PointersRelocated ==
    ASSUME NEW img, ImageFits(img)
    PROVE  Relocated(img) = Pointers(img) /\ Pointers(img) \subseteq Extent(img)
<1>1. PICK n \in Nat : DOMAIN img.relocs = 1 .. n  BY ImageLists
<1>2. \A i, k \in 1 .. n : i < k /\ img.relocs[k].readable => img.relocs[i].readable
  BY <1>1 DEF ImageFits, RelocsFit
<1>3. ASSUME NEW i \in 1 .. n
      PROVE  (\A b \in 1 .. i : img.relocs[b].readable) <=> img.relocs[i].readable
  <2>1. i \in 1 .. i /\ \A b \in 1 .. i : b \in 1 .. n /\ (b < i \/ b = i)  OBVIOUS
  <2>2. ASSUME img.relocs[i].readable, NEW b \in 1 .. i PROVE img.relocs[b].readable
    BY <1>2, <2>1, <2>2
  <2>3. ASSUME \A b \in 1 .. i : img.relocs[b].readable PROVE img.relocs[i].readable
    BY <2>1, <2>3
  <2> QED BY <2>2, <2>3
<1>4. {k \in DOMAIN img.relocs : \A b \in 1 .. k : img.relocs[b].readable}
        = {k \in DOMAIN img.relocs : img.relocs[k].readable}
  BY <1>1, <1>3
<1>5. Relocated(img) = Pointers(img)  BY <1>4 DEF Relocated, Pointers
<1>6. Pointers(img) \subseteq Extent(img)
  <2> SUFFICES ASSUME NEW rva \in Pointers(img) PROVE rva \in Extent(img)  OBVIOUS
  <2>1. \E i \in DOMAIN img.sections : rva \in WordsOf(img.sections[i])
    BY DEF ImageFits, RelocsFit
  <2> QED BY <2>1 DEF Extent
<1> QED BY <1>5, <1>6

\* Moving the pointers of sections that are in the memory.
LEMMA FileRebased ==
    ASSUME NEW img, ImageFits(img), NEW base \in Int, NEW m, DOMAIN m \subseteq Int,
           SectionsIn(m, base, img, Len(img.sections))
    PROVE  /\ DOMAIN Rebased(m, base, img) = DOMAIN m
           /\ FileIn(Rebased(m, base, img), base, img)
           /\ \A a \in DOMAIN m : OutOf(a, base, img) => Rebased(m, base, img)[a] = m[a]
<1>1. PICK g : g = Rebased(m, base, img)  OBVIOUS
<1>2. /\ DOMAIN g = DOMAIN m
      /\ \A a \in DOMAIN m : g[a] = IF a - base \in Pointers(img)
                                    THEN <<"raw", m[a][2] + base - img.base>> ELSE m[a]
  BY <1>1, PointersRelocated DEF Rebased
<1>3. ASSUME NEW i \in DOMAIN img.sections, NEW rva \in WordsOf(img.sections[i])
      PROVE  base + rva \in DOMAIN g /\ g[base + rva] = Expected(base, img, i, rva)
  <2>1. i \in 1 .. Len(img.sections)  BY ImageLists
  <2>2. base + rva \in DOMAIN m /\ m[base + rva] = FileWord(img.sections[i], rva)
    BY <2>1 DEF SectionsIn
  <2>3. rva \in Int  BY WordIsInt
  <2>4. (base + rva) - base = rva  BY <2>3
  <2>5. g[base + rva] = IF rva \in Pointers(img)
                        THEN <<"raw", FileWord(img.sections[i], rva)[2] + base - img.base>>
                        ELSE FileWord(img.sections[i], rva)
    BY ONLY <1>2, <2>2, <2>4, Zenon
  <2> QED BY <1>2, <2>2, <2>5 DEF Expected
<1>4. ASSUME NEW a \in DOMAIN m, OutOf(a, base, img) PROVE g[a] = m[a]
  <2>1. ASSUME a - base \in Pointers(img) PROVE FALSE
    <3>1. a - base \in Extent(img)  BY <2>1, PointersRelocated
    <3>2. a \in Int /\ a = base + (a - base)  OBVIOUS
    <3> QED BY <1>4, <3>1, <3>2 DEF OutOf
  <2> QED BY <1>2, <2>1
<1> QED BY <1>1, <1>2, <1>3, <1>4 DEF FileIn

\* At its preferred base there is nothing to move.
LEMMA FileAtBase ==
    ASSUME NEW img, ImageFits(img), NEW m, SectionsIn(m, img.base, img, Len(img.sections))
    PROVE  FileIn(m, img.base, img)
<1>1. img.base \in Int  BY DEF ImageFits, Images
<1> SUFFICES ASSUME NEW i \in DOMAIN img.sections, NEW rva \in WordsOf(img.sections[i])
             PROVE  /\ img.base + rva \in DOMAIN m
                    /\ m[img.base + rva] = Expected(img.base, img, i, rva)
  BY DEF FileIn
<1>2. i \in 1 .. Len(img.sections)  BY ImageLists
<1>3. /\ img.base + rva \in DOMAIN m
      /\ m[img.base + rva] = FileWord(img.sections[i], rva)
  BY <1>2 DEF SectionsIn
<1>4. FileWord(img.sections[i], rva) \in FileWords
  <2>1. PICK raw \in Seq(FileWords), va \in Nat :
           raw = img.sections[i].raw /\ va = img.sections[i].va
    BY SectionFacts
  <2>2. PICK n \in Nat : n = img.sections[i].vsize  BY SectionFacts
  <2>3. rva \in va .. va + n - 1  BY <2>1, <2>2 DEF WordsOf
  <2>4. Zero \in FileWords  BY DEF Zero, FileWords
  <2>5. Len(raw) \in Nat /\ DOMAIN raw = 1 .. Len(raw) /\ \A k \in DOMAIN raw : raw[k] \in FileWords
    BY InSeq
  <2>6. CASE rva - va < Len(raw)
    <3>1. rva - va + 1 \in 1 .. Len(raw)  BY <2>3, <2>5, <2>6
    <3>2. FileWord(img.sections[i], rva) = raw[rva - va + 1]  BY <2>1, <2>6 DEF FileWord
    <3> QED BY <2>5, <3>1, <3>2
  <2>7. CASE ~ (rva - va < Len(raw))
    <3>1. FileWord(img.sections[i], rva) = Zero  BY <2>1, <2>7 DEF FileWord
    <3> QED BY <2>4, <3>1
  <2> QED BY <2>6, <2>7
<1>5. PICK x \in Int : FileWord(img.sections[i], rva) = <<"raw", x>>  BY <1>4 DEF FileWords
<1>6. x + img.base - img.base = x  BY <1>1
<1>7. Expected(img.base, img, i, rva) = FileWord(img.sections[i], rva)
  BY <1>5, <1>6 DEF Expected
<1> QED BY <1>3, <1>7

-----------------------------------------------------------------------------
(* The loader: the regions of the builtin interpreter.                     *)

LEMMA MapSectionsTurns ==
    ASSUME NEW m, NEW base, NEW img, NEW n \in Nat, n = Len(img.sections)
    PROVE  \E f : /\ f[0] = m /\ MapSections(m, base, img) = f[n]
                  /\ \A i \in 1 .. n : f[i] = MapSection(f[i - 1], base, img.sections[i])
<1> DEFINE Turn(a, i) == MapSection(a, base, img.sections[i])
           Is(f, k) == f = [i \in 0 .. k |-> IF i = 0 THEN m ELSE Turn(f[i - 1], i)]
           P == CHOOSE f : Is(f, n)
           B == {k \in 0 .. n : \E f : Is(f, k)}
<1>1. MapSections(m, base, img) = P[n]  BY DEF MapSections, Loop
<1>2. \A a, i : Turn(a, i) = MapSection(a, base, img.sections[i])  OBVIOUS
<1> HIDE DEF Turn
<1>3. 0 \in B
  <2> DEFINE g == [i \in 0 .. 0 |-> m]
  <2>1. Is(g, 0)  OBVIOUS
  <2> HIDE DEF g, Is
  <2> QED BY <2>1
<1>4. ASSUME NEW k \in 1 .. n, k - 1 \in B PROVE k \in B
  <2>1. PICK f : f = [i \in 0 .. k - 1 |-> IF i = 0 THEN m ELSE Turn(f[i - 1], i)]  BY <1>4
  <2>2. \A i \in 0 .. k - 1 : f[i] = IF i = 0 THEN m ELSE Turn(f[i - 1], i)  BY <2>1, Zenon
  <2> DEFINE g == [i \in 0 .. k |-> IF i < k THEN f[i] ELSE Turn(f[k - 1], k)]
  <2>3. ASSUME NEW i \in 0 .. k PROVE g[i] = IF i = 0 THEN m ELSE Turn(g[i - 1], i)
    <3>1. CASE i = 0
      <4>1. 0 \in 0 .. k - 1 /\ 0 < k  OBVIOUS
      <4>2. f[0] = m  BY <2>2, <4>1
      <4> QED BY <3>1, <4>1, <4>2
    <3>2. CASE i # 0 /\ i < k
      <4>1. i \in 0 .. k - 1 /\ i - 1 \in 0 .. k /\ i - 1 < k  BY <3>2
      <4>2. g[i] = f[i] /\ g[i - 1] = f[i - 1]  BY <3>2, <4>1
      <4>3. f[i] = Turn(f[i - 1], i)  BY <2>2, <3>2, <4>1
      <4> HIDE DEF g
      <4> QED BY <3>2, <4>2, <4>3
    <3>3. CASE i = k
      <4>1. ~ (k < k) /\ k - 1 < k /\ k - 1 \in 0 .. k /\ k # 0 /\ k \in 0 .. k  OBVIOUS
      <4>2. g[k] = Turn(f[k - 1], k) /\ g[k - 1] = f[k - 1]  BY <4>1
      <4> HIDE DEF g
      <4> QED BY <3>3, <4>1, <4>2
    <3> QED BY <3>1, <3>2, <3>3
  <2>4. Is(g, k)
    <3>1. g = [i \in 0 .. k |-> g[i]]  OBVIOUS
    <3> HIDE DEF g
    <3> QED BY <2>3, <3>1
  <2> HIDE DEF g, Is
  <2> QED BY <2>4
<1> HIDE DEF B
<1>5. \A k \in 0 .. n : k \in B  BY <1>3, <1>4, UpTo
<1>6. Is(P, n)
  <2>1. n \in B  BY <1>5
  <2> HIDE DEF Is
  <2> QED BY <2>1 DEF B
<1> HIDE DEF P
<1>7. \A i \in 0 .. n : P[i] = IF i = 0 THEN m ELSE Turn(P[i - 1], i)  BY <1>6, Zenon
<1>8. P[0] = m  BY <1>7
<1>9. \A i \in 1 .. n : P[i] = MapSection(P[i - 1], base, img.sections[i])  BY <1>2, <1>7
<1> QED BY <1>1, <1>8, <1>9

RegionSize(n) == IF n = 0 THEN PageWords ELSE ((n + PageWords - 1) \div PageWords) * PageWords
Region(base, s) == base + s.va .. base + s.va + RegionSize(s.vsize) - 1

LEMMA RegionWhole ==
    ASSUME NEW n \in Nat
    PROVE  \E c \in Nat : /\ RegionSize(n) = c * PageWords /\ n <= RegionSize(n)
                          /\ c = PageOf((IF n = 0 THEN 1 ELSE n) - 1) + 1
<1>1. PICK d \in Nat : d = PageWords /\ d > 0  BY LoaderAssumption
<1>2. CASE n = 0
  <2>1. 0 = 0 * d + 0 /\ 0 \in 0 .. d - 1  BY <1>1
  <2>2. PageOf(0) = 0  BY <1>1, <2>1, InPage
  <2>3. RegionSize(n) = 1 * d /\ 1 * d = d  BY <1>1, <1>2 DEF RegionSize
  <2>4. (IF n = 0 THEN 1 ELSE n) - 1 = 0  BY <1>2
  <2> QED BY <1>1, <1>2, <2>2, <2>3, <2>4
<1>3. CASE n # 0
  <2>0. PICK x \in Int : x = n - 1  OBVIOUS
  <2>1. PICK p \in Int : p = PageOf(x) /\ p = PageOf(n - 1)  BY <2>0, PageIsInt
  <2>2. PICK k \in 0 .. d - 1 : n - 1 = p * d + k
    <3>1. \E k \in 0 .. PageWords - 1 : x = p * PageWords + k  BY <2>1, InPage
    <3> QED BY <1>1, <2>0, <3>1
  <2>3. p >= 0
    <3>1. 0 * d <= n - 1  BY <1>1, <1>3
    <3>2. 0 <= (n - 1) \div d  BY <1>1, <3>1, NotBelow
    <3> QED BY <1>1, <2>1, <3>2 DEF PageOf
  <2>4. PageOf(1 * d + (n - 1)) = 1 + p  BY <1>1, <2>1, PagesMove
  <2>5. n + d - 1 = 1 * d + (n - 1)  BY <1>1
  <2>6. (n + d - 1) \div d = p + 1  BY <1>1, <2>1, <2>4, <2>5 DEF PageOf
  <2>7. RegionSize(n) = (p + 1) * d  BY <1>1, <1>3, <2>6 DEF RegionSize
  <2>8. n <= (p + 1) * d  BY <1>1, <2>1, <2>2
  <2>9. p + 1 \in Nat  BY <2>1, <2>3
  <2> QED BY <1>1, <1>3, <2>1, <2>7, <2>8, <2>9
<1> QED BY <1>2, <1>3

LEMMA RegionPages ==
    ASSUME NEW img, ImageFits(img), NEW i \in DOMAIN img.sections, NEW q \in Int,
           NEW base \in Int, base = q * PageWords
    PROVE  /\ \A a \in Region(base, img.sections[i]) :
                 a \in Int /\ PageOf(a) - q \in SectionPages(img.sections[i])
           /\ \A rva \in WordsOf(img.sections[i]) : base + rva \in Region(base, img.sections[i])
<1>1. PICK d \in Nat : d = PageWords /\ d > 0  BY LoaderAssumption
<1>2. PICK va \in Nat, n \in Nat : va = img.sections[i].va /\ n = img.sections[i].vsize
  BY SectionFacts
<1>3. PICK v \in Int : va = v * d
  <2>1. va \in Nat /\ va % PageWords = 0  BY <1>2, SectionFacts
  <2>2. Paged(va)  BY <2>1, OnPages
  <2> QED BY <1>1, <2>2 DEF Paged
<1>4. PICK N \in Nat : N = IF n = 0 THEN 1 ELSE n  OBVIOUS
<1>5. PICK c \in Nat : /\ RegionSize(n) = c * d /\ n <= c * d /\ c = PageOf(N - 1) + 1
  BY <1>1, <1>4, RegionWhole
<1>6. PICK size \in Int : size = c * d  BY <1>1
<1>7. Region(base, img.sections[i]) = base + va .. base + va + size - 1
  BY <1>2, <1>5, <1>6 DEF Region
<1>8. PageOf(va) = v /\ PageOf(va + (N - 1)) = v + (c - 1)
  <2>1. va = v * d + 0 /\ 0 \in 0 .. d - 1  BY <1>1, <1>3
  <2>2. PageOf(va) = v  BY <1>1, <2>1, InPage
  <2>3. N - 1 \in Int  BY <1>4
  <2>4. PageOf(v * d + (N - 1)) = v + PageOf(N - 1)  BY <1>1, <2>3, PagesMove
  <2>5. PageOf(N - 1) \in Int  BY <2>3, PageIsInt
  <2>6. PageOf(N - 1) = c - 1  BY <1>5, <2>5
  <2> QED BY <1>3, <2>2, <2>4, <2>6
<1>9. SectionPages(img.sections[i]) = v .. v + (c - 1)
  <2>1. va + N - 1 = va + (N - 1)  BY <1>4
  <2> QED BY <1>2, <1>4, <1>8, <2>1 DEF SectionPages
<1>10. ASSUME NEW a \in base + va .. base + va + size - 1
       PROVE  a \in Int /\ PageOf(a) - q \in v .. v + (c - 1)
  <2>1. a \in Int /\ base + va <= a /\ a < base + va + size  BY <1>6
  <2>2. (q + v) * d = q * d + v * d /\ (q + v + c) * d = q * d + v * d + c * d  BY <1>1
  <2>3. (q + v) * d <= a /\ a < (q + v + c) * d  BY <1>1, <1>3, <1>6, <2>1, <2>2
  <2>4. q + v <= a \div d  BY <1>1, <2>1, <2>3, NotBelow
  <2>5. a \div d < q + v + c  BY <1>1, <2>1, <2>3, Below
  <2>6. PageOf(a) = a \div d /\ PageOf(a) \in Int  BY <1>1, <2>1, PageIsInt DEF PageOf
  <2> QED BY <2>1, <2>4, <2>5, <2>6
<1>11. ASSUME NEW rva \in WordsOf(img.sections[i])
       PROVE  base + rva \in base + va .. base + va + size - 1
  <2>1. rva \in va .. va + n - 1  BY <1>2 DEF WordsOf
  <2> QED BY <1>5, <1>6, <2>1
<1> QED BY <1>7, <1>9, <1>10, <1>11

\* A section is mapped where no other is.
LEMMA SectionMapped ==
    ASSUME NEW m, NEW base \in Int, NEW s, s.va \in Nat, s.vsize \in Nat, s.raw \in Seq(FileWords),
           \A rva \in WordsOf(s) : base + rva \in Region(base, s),
           DOMAIN m \cap Region(base, s) = {}
    PROVE  /\ DOMAIN MapSection(m, base, s) = DOMAIN m \cup Region(base, s)
           /\ \A rva \in WordsOf(s) : MapSection(m, base, s)[base + rva] = FileWord(s, rva)
           /\ \A a \in DOMAIN m : MapSection(m, base, s)[a] = m[a]
<1>0. PICK g : g = MapSection(m, base, s)  OBVIOUS
<1>1. PICK va \in Nat, n \in Nat : va = s.va /\ n = s.vsize  OBVIOUS
<1>2. PICK lo \in Int : lo = base + s.va /\ lo = base + va  BY <1>1
<1>3. PICK r : r = wg_memory_map(m, lo, n)  OBVIOUS
<1>4. PICK words : words = RawWords(s)  OBVIOUS
<1>5. g = wg_blink_write_mem(r, lo, words)
  BY <1>0, <1>1, <1>2, <1>3, <1>4 DEF MapSection, wg_memory_write
<1>6. r = [a \in DOMAIN m \cup Region(base, s) |-> IF a \in DOMAIN m THEN m[a] ELSE Zero]
  BY <1>1, <1>2, <1>3 DEF wg_memory_map, Region, RegionSize
<1>7. PICK l \in Nat : l = Len(s.raw)  OBVIOUS
<1>8. PICK w \in Nat : w = IF l < n THEN l ELSE n  BY <1>7
<1>9. Len(words) = w /\ \A k \in 1 .. w : words[k] = s.raw[k]
  BY <1>1, <1>4, <1>7, <1>8 DEF RawWords, Least
<1>10. /\ DOMAIN g = DOMAIN r
       /\ \A a \in DOMAIN r : g[a] = IF a \in lo .. lo + w - 1 THEN words[a - lo + 1] ELSE r[a]
  BY <1>5, <1>9, CopyWritten
<1>11. WordsOf(s) = va .. va + n - 1  BY <1>1 DEF WordsOf
<1>12. ASSUME NEW rva \in WordsOf(s) PROVE g[base + rva] = FileWord(s, rva)
  <2>0. rva \in va .. va + n - 1  BY <1>11
  <2>1. rva \in Int /\ va <= rva /\ rva - va < n  BY ONLY <2>0, va \in Nat, n \in Nat
  <2>2. PICK a \in Int : a = base + rva  BY <2>1
  <2>3. a - lo = rva - va /\ a = lo + (rva - va)
    BY ONLY <1>2, <2>1, <2>2, va \in Nat, base \in Int, lo \in Int
  <2>4. a \in Region(base, s) /\ a \in DOMAIN r /\ r[a] = Zero  BY <1>6, <2>2
  <2>5. CASE rva - va < l
    <3>1. rva - va < w  BY ONLY <1>7, <1>8, <2>1, <2>5, n \in Nat, va \in Nat
    <3>2. a \in lo .. lo + w - 1 /\ a - lo + 1 \in 1 .. w
      BY ONLY <2>1, <2>3, <3>1, lo \in Int, va \in Nat, w \in Nat
    <3>3. a - lo + 1 = rva - s.va + 1  BY ONLY <1>1, <2>1, <2>3, va \in Nat
    <3>4. g[a] = s.raw[rva - s.va + 1]  BY <1>9, <1>10, <2>4, <3>2, <3>3
    <3>5. FileWord(s, rva) = s.raw[rva - s.va + 1]  BY ONLY <1>1, <1>7, <2>5 DEF FileWord
    <3> QED BY <2>2, <3>4, <3>5
  <2>6. CASE ~ (rva - va < l)
    <3>1. a \notin lo .. lo + w - 1
      BY ONLY <1>8, <2>1, <2>3, <2>6, lo \in Int, va \in Nat, l \in Nat, n \in Nat
    <3>2. g[a] = Zero  BY <1>10, <2>4, <3>1
    <3>3. FileWord(s, rva) = Zero  BY ONLY <1>1, <1>7, <2>6 DEF FileWord
    <3> QED BY <2>2, <3>2, <3>3
  <2> QED BY <2>5, <2>6
<1>13. ASSUME NEW a \in DOMAIN m PROVE g[a] = m[a]
  <2>1. ASSUME a \in lo .. lo + w - 1 PROVE FALSE
    <3>1. PICK rva \in Int : rva = a - base /\ a = base + rva
      <4>1. a \in Int  BY ONLY <2>1, lo \in Int, w \in Nat
      <4> QED BY ONLY <4>1, base \in Int
    <3>2. rva \in va .. va + n - 1
      BY ONLY <1>2, <1>8, <2>1, <3>1, rva \in Int, va \in Nat, l \in Nat, n \in Nat, base \in Int
    <3>3. a \in Region(base, s)  BY <1>11, <3>1, <3>2
    <3> QED BY <3>3
  <2>2. a \in DOMAIN r /\ r[a] = m[a]  BY <1>6
  <2> QED BY <1>10, <2>1, <2>2
<1> QED BY <1>0, <1>6, <1>10, <1>12, <1>13

\* What MapSections comes to, in memory without regions.
LEMMA SectionsMapped ==
    ASSUME NEW img, ImageFits(img), NEW base, Paged(base)
    PROVE  /\ DOMAIN MapSections(NoMemory, base, img) \subseteq Int
           /\ SectionsIn(MapSections(NoMemory, base, img), base, img, Len(img.sections))
<1>1. PICK n \in Nat : n = Len(img.sections) /\ DOMAIN img.sections = 1 .. n  BY ImageLists
<1>0. PICK m : m = NoMemory  OBVIOUS
<1>2. PICK f : /\ f[0] = m /\ MapSections(m, base, img) = f[n]
               /\ \A i \in 1 .. n : f[i] = MapSection(f[i - 1], base, img.sections[i])
  <2>1. n \in Nat /\ n = Len(img.sections)  BY <1>1
  <2>2. \A x : \E f : /\ f[0] = x /\ MapSections(x, base, img) = f[n]
               /\ \A i \in 1 .. n : f[i] = MapSection(f[i - 1], base, img.sections[i])
    BY <2>1, MapSectionsTurns
  <2> QED BY <2>2
<1>3. PICK q \in Int : base = q * PageWords /\ base \in Int  BY DEF Paged
<1> DEFINE Inside(g, k) == \A a \in DOMAIN g : a \in Int /\ \E i \in 1 .. k :
                              PageOf(a) - q \in SectionPages(img.sections[i])
           B == {k \in 0 .. n : Inside(f[k], k) /\ SectionsIn(f[k], base, img, k)}
<1>4. 0 \in B
  <2>1. DOMAIN m = {}  BY <1>0 DEF NoMemory
  <2>2. SectionsIn(m, base, img, 0)  BY DEF SectionsIn
  <2> QED BY <1>2, <2>1, <2>2
<1>5. ASSUME NEW k \in 1 .. n, k - 1 \in B PROVE k \in B
  <2>1. PICK g : g = f[k - 1] /\ Inside(g, k - 1) /\ SectionsIn(g, base, img, k - 1)  BY <1>5
  <2>2. PICK s : s = img.sections[k]  OBVIOUS
  <2>3. PICK h : h = f[k] /\ h = MapSection(g, base, s)  BY <1>2, <2>1, <2>2
  <2>4. k \in DOMAIN img.sections  BY <1>1
  <2>5. s.va \in Nat /\ s.vsize \in Nat /\ s.raw \in Seq(FileWords)  BY <2>2, <2>4, SectionFacts
  <2>6. /\ \A a \in Region(base, s) : a \in Int /\ PageOf(a) - q \in SectionPages(s)
        /\ \A rva \in WordsOf(s) : base + rva \in Region(base, s)
    BY <1>3, <2>2, <2>4, RegionPages
  <2>7. DOMAIN g \cap Region(base, s) = {}
    <3> SUFFICES ASSUME NEW a \in DOMAIN g, a \in Region(base, s) PROVE FALSE  OBVIOUS
    <3>1. PICK i \in 1 .. k - 1 : PageOf(a) - q \in SectionPages(img.sections[i])  BY <2>1
    <3>2. i \in DOMAIN img.sections /\ i # k  BY <1>1
    <3>3. SectionPages(img.sections[i]) \cap SectionPages(img.sections[k]) = {}
      BY <2>4, <3>2 DEF ImageFits, SectionsFit
    <3> QED BY <2>2, <2>6, <3>1, <3>3
  <2>8. /\ DOMAIN h = DOMAIN g \cup Region(base, s)
        /\ \A rva \in WordsOf(s) : h[base + rva] = FileWord(s, rva)
        /\ \A a \in DOMAIN g : h[a] = g[a]
    <3>1. base \in Int /\ h = MapSection(g, base, s)  BY <1>3, <2>3
    <3>2. \A rva \in WordsOf(s) : base + rva \in Region(base, s)  BY <2>6
    <3>3. /\ DOMAIN MapSection(g, base, s) = DOMAIN g \cup Region(base, s)
          /\ \A rva \in WordsOf(s) : MapSection(g, base, s)[base + rva] = FileWord(s, rva)
          /\ \A a \in DOMAIN g : MapSection(g, base, s)[a] = g[a]
      BY <2>5, <2>7, <3>1, <3>2, SectionMapped
    <3> QED BY ONLY <3>1, <3>3, Zenon
  <2>9. Inside(h, k)
    <3> SUFFICES ASSUME NEW a \in DOMAIN h
                 PROVE  a \in Int /\ \E i \in 1 .. k : PageOf(a) - q \in SectionPages(img.sections[i])
      OBVIOUS
    <3>1. CASE a \in DOMAIN g
      <4>1. PICK i \in 1 .. k - 1 : PageOf(a) - q \in SectionPages(img.sections[i])
        BY <2>1, <3>1
      <4>2. i \in 1 .. k  OBVIOUS
      <4> QED BY <2>1, <3>1, <4>1, <4>2
    <3>2. CASE a \in Region(base, s)
      <4>1. k \in 1 .. k  OBVIOUS
      <4> QED BY <2>2, <2>6, <3>2, <4>1
    <3> QED BY <2>8, <3>1, <3>2
  <2>10. SectionsIn(h, base, img, k)
    <3> SUFFICES ASSUME NEW i \in 1 .. k, NEW rva \in WordsOf(img.sections[i])
                 PROVE  /\ base + rva \in DOMAIN h
                        /\ h[base + rva] = FileWord(img.sections[i], rva)
      BY DEF SectionsIn
    <3>1. CASE i = k  BY <2>2, <2>6, <2>8, <3>1
    <3>2. CASE i # k
      <4>1. i \in 1 .. k - 1  BY <3>2
      <4>2. base + rva \in DOMAIN g /\ g[base + rva] = FileWord(img.sections[i], rva)
        BY <2>1, <4>1 DEF SectionsIn
      <4> QED BY <2>8, <4>2
    <3> QED BY <3>1, <3>2
  <2>11. k \in 0 .. n  OBVIOUS
  <2> HIDE DEF Inside
  <2> QED BY <2>3, <2>9, <2>10, <2>11
<1> HIDE DEF B
<1>6. \A k \in 0 .. n : k \in B  BY <1>4, <1>5, UpTo
<1>7. n \in B  BY <1>6
<1> QED BY <1>0, <1>1, <1>2, <1>7 DEF B

-----------------------------------------------------------------------------
(* The loader: whole images.                                               *)

Present(m, base, img) == \A rva \in Extent(img) : base + rva \in DOMAIN m

LEMMA FilePresent ==
    ASSUME NEW m, NEW g, NEW base, NEW img, FileIn(m, base, img), DOMAIN g = DOMAIN m
    PROVE  Present(g, base, img)
  BY DEF FileIn, Present, Extent

\* Cells are words of the image.
LEMMA CellPresent ==
    ASSUME NEW img, ImageFits(img), NEW d \in Listed(img), NEW base, NEW a, InCells(a, base, img, d)
    PROVE  \E rva \in Extent(img) : a = base + rva
<1>1. PICK rva \in Cells(img, d) : a = base + rva  BY DEF InCells
<1>2. rva \in Extent(img)  BY CellsInside DEF Extent
<1> QED BY <1>1, <1>2

\* An image stays loaded while its words stay, and where something is mapped over it
\* the rest does.
LEMMA LoadedStays ==
    ASSUME NEW img, ImageFits(img), NEW base \in Int, NEW m, NEW g, NEW over, NEW more,
           Loaded(m, base, img, over), over \subseteq more,
           \A rva \in Extent(img) : base + rva \notin more => g[base + rva] = m[base + rva]
    PROVE  Loaded(g, base, img, more)
<1>1. ASSUME NEW d \in Listed(img), NEW j \in DOMAIN List(img.imports[d]),
             NEW a, a = base + img.imports[d].iat + (j - 1) * SlotWords(img)
      PROVE  /\ a \notin more => g[a] = Thunk(img.imports[d].dll, List(img.imports[d])[j])
             /\ img.wide /\ a + 1 \notin more => g[a + 1] = Zero
  <2>1. j \in 1 .. Len(List(img.imports[d])) /\ a = SlotAt(base, img, d, j)
    BY <1>1, ListedFacts DEF SlotAt
  <2>2. InCells(a, base, img, d) /\ InCells(a + 1, base, img, d)  BY <2>1, SlotPlace
  <2>3. /\ a \notin more => g[a] = m[a]
        /\ a + 1 \notin more => g[a + 1] = m[a + 1]
    BY <2>2, CellPresent
  <2>4. /\ a \notin over => m[a] = Thunk(img.imports[d].dll, List(img.imports[d])[j])
        /\ img.wide /\ a + 1 \notin over => m[a + 1] = Zero
    BY <1>1 DEF Loaded
  <2> QED BY <2>3, <2>4
<1>2. ASSUME NEW i \in DOMAIN img.sections, NEW rva \in WordsOf(img.sections[i]),
             base + rva \notin more, \A d \in Listed(img) : rva \notin SlotsOf(img, d)
      PROVE  g[base + rva] = Expected(base, img, i, rva)
  <2>1. m[base + rva] = Expected(base, img, i, rva)  BY <1>2 DEF Loaded, Expected
  <2>2. rva \in Extent(img)  BY DEF Extent
  <2> QED BY <1>2, <2>1, <2>2
<1> QED BY <1>1, <1>2 DEF Loaded, Expected

LEMMA KeptTwice ==
    ASSUME NEW m, NEW g, NEW h, NEW base, NEW img, KeptBut(m, g, base, img), KeptBut(g, h, base, img)
    PROVE  KeptBut(m, h, base, img)
  BY DEF KeptBut

LEMMA OutOfPages ==
    ASSUME NEW base, NEW img, NEW a, PageOf(a) \notin PagesOf(Span(base, img))
    PROVE  OutOf(a, base, img)
  BY DEF PagesOf, Span, OutOf

LEMMA ReservedFirst ==
    ASSUME NEW lo \in Int, NEW n \in Nat
    PROVE  DOMAIN Reserve(NoMemory, lo, n) = Around(lo, n)
<1>1. DOMAIN NoMemory = {}  BY DEF NoMemory
<1>2. DOMAIN NoMemory \subseteq Int  BY <1>1
<1>3. DOMAIN Reserve(NoMemory, lo, n) = DOMAIN NoMemory \cup Around(lo, n)
  BY ONLY <1>2, lo \in Int, n \in Nat, Reserved
<1> QED BY <1>1, <1>3

\* load_pe_blink
LEMMA BlinkRight ==
    ASSUME NEW img, ImageFits(img)
    PROVE  /\ DOMAIN BlinkImage(img) \subseteq Int
           /\ Present(BlinkImage(img), img.base, img)
           /\ Loaded(BlinkImage(img), img.base, img, {})
<1>1. img.base \in Int /\ Paged(img.base) /\ img.wide \in BOOLEAN /\ img.header \in Seq(FileWords)
  BY OnPages DEF ImageFits, Images
<1> DEFINE words == SubSeq(img.header, 1, Least(img.sections[1].va, Len(img.header)))
           headed == IF img.sections # <<>> /\ img.sections[1].va > 0
                     THEN wg_blink_load_code(NoMemory, img.base, words) ELSE NoMemory
<1>2. DOMAIN NoMemory = {}  BY DEF NoMemory
<1>3. DOMAIN headed \subseteq Int
  <2>1. CASE img.sections # <<>> /\ img.sections[1].va > 0
    <3>1. PICK l \in Nat : l = Len(img.header)  BY ImageLists
    <3>2. 1 \in DOMAIN img.sections
      <4>1. PICK S : img.sections \in Seq(S)  BY DEF ImageFits, Images
      <4> QED BY <2>1, <4>1
    <3>3. PICK va \in Nat : va = img.sections[1].va  BY <3>2, SectionFacts
    <3>4. PICK n \in Nat : n = IF va < l THEN va ELSE l  BY <3>1
    <3>5. Least(img.sections[1].va, Len(img.header)) = n  BY <3>1, <3>3, <3>4 DEF Least
    <3>6. Len(words) = n  BY <1>1, <3>1, <3>4, <3>5
    <3> HIDE DEF words
    <3>7. DOMAIN Reserve(NoMemory, img.base, n) = Around(img.base, n)
      BY <1>1, ReservedFirst
    <3>8. DOMAIN wg_blink_write_mem(Reserve(NoMemory, img.base, n), img.base, words)
            = Around(img.base, n)
      BY <3>7, CopyWritten
    <3>9. headed = wg_blink_load_code(NoMemory, img.base, words)  BY <2>1
    <3>10. CASE words = <<>>  BY <1>2, <3>9, <3>10 DEF wg_blink_load_code
    <3>11. CASE words # <<>>
      <4>1. DOMAIN headed = Around(img.base, n)
        BY <3>6, <3>8, <3>9, <3>11 DEF wg_blink_load_code
      <4> QED BY <4>1 DEF Around
    <3> QED BY <3>10, <3>11
  <2>2. CASE ~ (img.sections # <<>> /\ img.sections[1].va > 0)  BY <1>2, <2>2
  <2> QED BY <2>1, <2>2
<1>4. BlinkImage(img) = Bind(PutSections(headed, img.base, img), img.base, img, 2)
  BY DEF BlinkImage
<1> HIDE DEF headed
<1>5. PICK m : m = PutSections(headed, img.base, img)  OBVIOUS
<1>6. KeptBut(headed, m, img.base, img) /\ SectionsIn(m, img.base, img, Len(img.sections))
  BY <1>1, <1>3, <1>5, SectionsPut
<1>7. DOMAIN m \subseteq Int  BY <1>6 DEF KeptBut
<1>8. FileIn(m, img.base, img)  BY <1>6, FileAtBase
<1>9. /\ DOMAIN Bind(m, img.base, img, 2) = DOMAIN m
      /\ Loaded(Bind(m, img.base, img, 2), img.base, img, {})
  BY <1>1, <1>7, <1>8, ImageLoaded
<1> QED BY <1>4, <1>5, <1>7, <1>8, <1>9, FilePresent

\* load_pe_builtin, into regions without one yet
LEMMA BuiltinRight ==
    ASSUME NEW img, ImageFits(img)
    PROVE  Loaded(BuiltinImage(NoMemory, img), img.base, img, {})
<1>1. img.base \in Int /\ Paged(img.base)  BY OnPages DEF ImageFits, Images
<1>2. PICK m : m = MapSections(NoMemory, img.base, img)  OBVIOUS
<1>3. DOMAIN m \subseteq Int /\ SectionsIn(m, img.base, img, Len(img.sections))
  BY <1>1, <1>2, SectionsMapped
<1>4. FileIn(m, img.base, img)  BY <1>3, FileAtBase
<1>5. Loaded(Bind(m, img.base, img, 2), img.base, img, {})  BY <1>1, <1>3, <1>4, ImageLoaded
<1> QED BY <1>2, <1>5 DEF BuiltinImage

\* wg_load_dll
LEMMA LibraryRight ==
    ASSUME NEW img, ImageFits(img), ~ img.wide, NEW base, Paged(base), NEW m, DOMAIN m \subseteq Int,
           NEW g, g = Bind(Rebased(PutSections(wg_blink_write_mem(m, base, img.header), base, img),
                                   base, img), base, img, 1)
    PROVE  /\ KeptBut(m, g, base, img) /\ Present(g, base, img) /\ Loaded(g, base, img, {})
<1>1. base \in Int  BY DEF Paged
<1>2. PICK h : h = wg_blink_write_mem(m, base, img.header)  OBVIOUS
<1>3. KeptBut(m, h, base, img)
  <2>1. /\ DOMAIN h = DOMAIN m
        /\ \A a \in DOMAIN m : h[a] = IF a \in base .. base + Len(img.header) - 1
                                      THEN img.header[a - base + 1] ELSE m[a]
    BY <1>2, CopyWritten
  <2>2. ASSUME NEW a \in DOMAIN m, PageOf(a) \notin PagesOf(Span(base, img))
        PROVE  a \notin base .. base + Len(img.header) - 1
    <3>1. ASSUME a \in base .. base + Len(img.header) - 1 PROVE FALSE
      <4>1. PICK x \in 0 .. Len(img.header) - 1 : a = base + x
        <5>1. Len(img.header) \in Nat /\ a \in Int  BY ImageLists
        <5>2. a - base \in 0 .. Len(img.header) - 1 /\ a = base + (a - base)
          BY <1>1, <3>1, <5>1
        <5> QED BY <5>2
      <4>2. a \in Span(base, img)  BY <4>1 DEF Span
      <4> QED BY <2>2, <4>2 DEF PagesOf
    <3> QED BY <3>1
  <2> QED BY <2>1, <2>2 DEF KeptBut
<1>4. DOMAIN h \subseteq Int  BY <1>3 DEF KeptBut
<1>5. PICK s : s = PutSections(h, base, img)  OBVIOUS
<1>6. KeptBut(h, s, base, img) /\ SectionsIn(s, base, img, Len(img.sections))
  BY <1>4, <1>5, SectionsPut
<1>7. DOMAIN s \subseteq Int  BY <1>6 DEF KeptBut
<1>8. PICK r : r = Rebased(s, base, img)  OBVIOUS
<1>9. /\ DOMAIN r = DOMAIN s /\ FileIn(r, base, img)
      /\ \A a \in DOMAIN s : OutOf(a, base, img) => r[a] = s[a]
  BY <1>1, <1>6, <1>7, <1>8, FileRebased
<1>10. KeptBut(s, r, base, img)  BY <1>7, <1>9, OutOfPages DEF KeptBut
<1>11. g = Bind(r, base, img, 1)  BY <1>2, <1>5, <1>8
<1>12. /\ DOMAIN Bind(r, base, img, 1) = DOMAIN r
       /\ Loaded(Bind(r, base, img, 1), base, img, {})
       /\ \A a \in DOMAIN r : OutOf(a, base, img) => Bind(r, base, img, 1)[a] = r[a]
  BY <1>1, <1>7, <1>9, ImageLoaded
<1>13. KeptBut(r, g, base, img)  BY <1>7, <1>9, <1>11, <1>12, OutOfPages DEF KeptBut
<1>14. KeptBut(m, g, base, img)  BY <1>3, <1>6, <1>10, <1>13, KeptTwice
<1> QED BY <1>9, <1>11, <1>12, <1>14, FilePresent

\* A program with the scratch mapped over it.
LEMMA ScratchRight ==
    ASSUME NEW img, ImageFits(img), NEW base \in Int, NEW m, DOMAIN m \subseteq Int,
           Present(m, base, img), Loaded(m, base, img, {})
    PROVE  /\ DOMAIN WithScratch(m) \subseteq Int /\ Present(WithScratch(m), base, img)
           /\ Loaded(WithScratch(m), base, img, Scratch)
<1>1. PICK g : g = WithScratch(m)  OBVIOUS
<1>2. /\ DOMAIN g = DOMAIN m \cup Scratch
      /\ \A a \in DOMAIN m : a \notin Scratch => g[a] = m[a]
  BY <1>1 DEF WithScratch
<1>3. Scratch \subseteq Int  BY LoaderAssumption
<1>4. \A rva \in Extent(img) : base + rva \notin Scratch => g[base + rva] = m[base + rva]
  BY <1>2 DEF Present
<1>5. Loaded(g, base, img, Scratch)  BY <1>4, LoadedStays
<1> QED BY <1>1, <1>2, <1>3, <1>5 DEF Present

-----------------------------------------------------------------------------
(* The loader: what is mapped has its words, and the images that nothing    *)
(* was put over are as in their files.                                      *)

ImagesInv ==
    /\ LoaderInv
    /\ DOMAIN memory \subseteq Int /\ loadCount \in Nat
    /\ loadCount = 0 => regions = NoMemory
    /\ where # "none" => program \in Programs
    /\ \A m \in mapped : Present(memory, m.base, m.img)
    /\ where = "blink" => Present(memory, program.base, program)
    /\ DllsRight /\ ProgramRight

LEMMA StaysPresent ==
    ASSUME NEW m, NEW g, NEW base, NEW img, NEW to, NEW other, KeptBut(m, g, to, other),
           Present(m, base, img)
    PROVE  Present(g, base, img)
  BY DEF KeptBut, Present

\* An image stays loaded while another is put on other pages.
LEMMA StaysLoaded ==
    ASSUME NEW img, ImageFits(img), NEW base \in Int, NEW m, NEW g, NEW to, NEW other, NEW over,
           KeptBut(m, g, to, other), Present(m, base, img), Loaded(m, base, img, over),
           PagesOf(Span(base, img)) \cap PagesOf(Span(to, other)) = {}
    PROVE  Loaded(g, base, img, over)
<1>1. ASSUME NEW rva \in Extent(img) PROVE g[base + rva] = m[base + rva]
  <2>1. base + rva \in DOMAIN m  BY DEF Present
  <2>2. base + rva \in Span(base, img)  BY DEF Span
  <2>3. PageOf(base + rva) \in PagesOf(Span(base, img))  BY <2>2 DEF PagesOf
  <2>4. PageOf(base + rva) \notin PagesOf(Span(to, other))  BY <2>3
  <2> QED BY <2>1, <2>4 DEF KeptBut
<1>2. \A rva \in Extent(img) : base + rva \notin over => g[base + rva] = m[base + rva]
  BY <1>1
<1>3. over \subseteq over  OBVIOUS
<1> QED BY <1>2, <1>3, LoadedStays

LEMMA ApartAfter == LoaderInv' => BasesApart'
<1>1. LoaderInv => BasesApart  BY ApartFollows
<1> QED BY <1>1, PTL

LEMMA ImagesInitially ==
    ASSUME LoaderInit
    PROVE  ImagesInv
<1>1. LoaderInv  BY LoaderInitially
<1>2. DOMAIN memory = {}  BY DEF LoaderInit, NoMemory
<1>3. loadCount = 0 /\ regions = NoMemory /\ where = "none" /\ mapped = {}  BY DEF LoaderInit
<1>4. DllsRight /\ ProgramRight  BY <1>3 DEF DllsRight, ProgramRight
<1> QED BY <1>1, <1>2, <1>3, <1>4 DEF ImagesInv

\* wg_engine_load_pe keeps the invariant.
LEMMA ProgramImages ==
    ASSUME ImagesInv, NEW img \in Programs, NEW vm \in BOOLEAN, NEW has_stack \in BOOLEAN,
           LoadProgram_(img, vm, has_stack)
    PROVE  ImagesInv'
<1>1. LoaderInv'  BY ProgramLoaded DEF ImagesInv
<1>2. ImageFits(img)  BY LoaderAssumption
<1>3. img.base \in Int  BY <1>2 DEF ImageFits, Images
<1>4. PICK blink \in BOOLEAN : blink = (backend = "blink" /\ vm)  OBVIOUS
<1>5. PICK runs \in BOOLEAN : runs = (blink /\ has_stack)  OBVIOUS
<1>6. /\ loadCount' = loadCount + 1 /\ program' = img /\ mapped' = {}
      /\ memory' = (IF runs THEN WithScratch(BlinkImage(img))
                    ELSE IF blink THEN BlinkImage(img) ELSE NoMemory)
      /\ regions' = (IF runs THEN regions ELSE BuiltinImage(regions, img))
      /\ where' = (IF runs THEN "blink" ELSE "builtin")
  BY <1>4, <1>5 DEF LoadProgram_
<1>7. PICK b : b = BlinkImage(img)  OBVIOUS
<1>8. DOMAIN b \subseteq Int /\ Present(b, img.base, img) /\ Loaded(b, img.base, img, {})
  BY <1>2, <1>7, BlinkRight
<1>9. PICK s : s = WithScratch(b)  OBVIOUS
<1>10. DOMAIN s \subseteq Int /\ Present(s, img.base, img) /\ Loaded(s, img.base, img, Scratch)
  BY <1>2, <1>3, <1>8, <1>9, ScratchRight
<1>11. DOMAIN NoMemory \subseteq Int  BY DEF NoMemory
<1>12. DOMAIN memory' \subseteq Int  BY <1>6, <1>7, <1>8, <1>9, <1>10, <1>11
<1>13. loadCount \in Nat /\ loadCount' \in Nat /\ loadCount' # 0 /\ (loadCount' = 1 => loadCount = 0)
  BY <1>6 DEF ImagesInv
<1>14. DllsRight'  BY <1>6 DEF DllsRight
<1>15. where' = "blink" => memory' = s  BY <1>6, <1>7, <1>9
<1>16. where' = "builtin" /\ loadCount' = 1 => Loaded(regions', img.base, img, {})
  <2> SUFFICES ASSUME where' = "builtin", loadCount' = 1 PROVE Loaded(regions', img.base, img, {})
    OBVIOUS
  <2>1. regions = NoMemory  BY <1>13 DEF ImagesInv
  <2>2. regions' = BuiltinImage(NoMemory, img)  BY <1>6, <2>1
  <2> QED BY <1>2, <2>2, BuiltinRight
<1>17. ProgramRight'  BY <1>6, <1>10, <1>15, <1>16 DEF ProgramRight
<1>18. where' = "blink" => Present(memory', program'.base, program')  BY <1>6, <1>10, <1>15
<1> QED BY <1>1, <1>6, <1>12, <1>13, <1>14, <1>17, <1>18 DEF ImagesInv

\* wg_load_dll keeps the invariant: what it puts on pages of its own disturbs no image, and
\* an image without relocations that is put over itself is itself again.
LEMMA LibraryImages ==
    ASSUME ImagesInv, NEW name \in DOMAIN Dlls, LoadLibrary(name)
    PROVE  ImagesInv'
<1>1. LoaderInv'  BY LibraryLoaded DEF ImagesInv
<1>2. BasesApart'  BY <1>1, ApartAfter
<1>3. PICK img : img = Dlls[name]  OBVIOUS
<1>4. ImageFits(img) /\ Paged(img.base)  BY <1>3, DllFits
<1>5. PICK base : base = IF CanMove(img) THEN nextBase ELSE img.base  OBVIOUS
<1>6. Paged(base)  BY <1>4, <1>5 DEF ImagesInv, LoaderInv
<1>7. PICK new : new = [name |-> name, base |-> base, img |-> img]  OBVIOUS
<1>8. /\ where = "blink" /\ ~ img.wide /\ \A m \in mapped : m.name # name
      /\ memory' = Bind(Rebased(PutSections(wg_blink_write_mem(memory, base, img.header), base, img),
                                base, img), base, img, 1)
      /\ mapped' = mapped \cup {new}
      /\ UNCHANGED <<regions, backend, program, where, loadCount>>
  BY <1>3, <1>5, <1>7 DEF LoadLibrary
<1>9. PICK g : g = memory'  OBVIOUS
<1>10. KeptBut(memory, g, base, img) /\ Present(g, base, img) /\ Loaded(g, base, img, {})
  <2>1. DOMAIN memory \subseteq Int  BY DEF ImagesInv
  <2> QED BY <1>4, <1>6, <1>8, <1>9, <2>1, LibraryRight
<1>11. DOMAIN g \subseteq Int  BY <1>10 DEF KeptBut
<1>12. ASSUME NEW m \in mapped
       PROVE  /\ ImageFits(m.img) /\ m.base \in Int /\ m.name # name
              /\ Present(memory, m.base, m.img)
              /\ ~ CanMove(m.img) => m.base = m.img.base
  <2>1. m.name \in DOMAIN Dlls /\ m.img = Dlls[m.name] /\ PlacedBelow(m, nextBase)
    BY DEF ImagesInv, LoaderInv
  <2>2. ImageFits(m.img) /\ m.img.base \in Nat  BY <2>1, DllFits
  <2>3. m.base \in Int  BY <2>1, <2>2 DEF PlacedBelow, Paged
  <2> QED BY <1>8, <2>1, <2>2, <2>3 DEF PlacedBelow, ImagesInv
<1>13. \A m \in mapped' : Present(memory', m.base, m.img)
  <2>1. ASSUME NEW m \in mapped PROVE Present(g, m.base, m.img)
    BY <1>10, <1>12, StaysPresent
  <2>2. Present(g, new.base, new.img)  BY <1>7, <1>10
  <2> QED BY <1>8, <1>9, <2>1, <2>2
<1>14. where' = "blink" => Present(memory', program'.base, program')
  <2>1. Present(memory, program.base, program)  BY <1>8 DEF ImagesInv
  <2>2. Present(g, program.base, program)  BY <1>10, <2>1, StaysPresent
  <2> QED BY <1>8, <1>9, <2>2
<1>15. ASSUME NEW m \in mapped,
              \A k \in mapped' : k.img # m.img /\ ~ (CanMove(k.img) /\ CanMove(m.img)) =>
                  PagesOf(Span(m.base, m.img)) \cap PagesOf(Span(k.base, k.img)) = {}
       PROVE  Loaded(g, m.base, m.img, {})
  <2>1. Loaded(memory, m.base, m.img, {})
    <3>1. Alone(m.base, m.img)  BY <1>8, <1>15 DEF Alone
    <3> QED BY <3>1 DEF ImagesInv, DllsRight
  <2>2. new \in mapped' /\ new.img = img /\ new.base = base /\ m # new /\ m \in mapped'
    BY <1>7, <1>8, <1>12
  <2>3. CASE m.img = img /\ ~ CanMove(img)
    <3>1. m.base = base  BY <1>5, <1>12, <2>3
    <3> QED BY <1>10, <2>3, <3>1
  <2>4. CASE CanMove(m.img) /\ CanMove(img)
    <3>1. PagesOf(Span(m.base, m.img)) \cap PagesOf(Span(base, img)) = {}
      BY <1>2, <2>2, <2>4 DEF BasesApart, CanMove
    <3> QED BY <1>10, <1>12, <2>1, <3>1, StaysLoaded
  <2>5. CASE m.img # img /\ ~ (CanMove(img) /\ CanMove(m.img))
    <3>1. PagesOf(Span(m.base, m.img)) \cap PagesOf(Span(base, img)) = {}
      BY <1>15, <2>2, <2>5
    <3> QED BY <1>10, <1>12, <2>1, <3>1, StaysLoaded
  <2> QED BY <2>3, <2>4, <2>5
<1>16. DllsRight'
  <2>1. ASSUME NEW m \in mapped', Alone(m.base, m.img)' PROVE Loaded(g, m.base, m.img, {})
    <3>1. CASE m = new  BY <1>7, <1>10, <3>1
    <3>2. CASE m \in mapped  BY <1>15, <2>1, <3>2 DEF Alone, CanMove
    <3> QED BY <1>8, <3>1, <3>2
  <2> QED BY <1>9, <2>1 DEF DllsRight
<1>17. ProgramRight'
  <2>1. ASSUME \A k \in mapped' :
                   PagesOf(Span(program.base, program)) \cap PagesOf(Span(k.base, k.img)) = {}
        PROVE  Loaded(g, program.base, program, Scratch)
    <3>1. ProgramAlone  BY <1>8, <2>1 DEF ProgramAlone
    <3>2. Loaded(memory, program.base, program, Scratch) /\ Present(memory, program.base, program)
      BY <1>8, <3>1 DEF ImagesInv, ProgramRight
    <3>3. program \in Programs  BY <1>8 DEF ImagesInv
    <3>4. ImageFits(program) /\ program.base \in Int
      <4>1. PICK p \in Programs : p = program  BY <3>3
      <4>2. ImageFits(p)  BY LoaderAssumption
      <4>3. p.base \in Nat  BY <4>2 DEF ImageFits, Images
      <4> QED BY <4>1, <4>2, <4>3
    <3>5. new \in mapped' /\ new.img = img /\ new.base = base  BY <1>7, <1>8
    <3>6. PagesOf(Span(program.base, program)) \cap PagesOf(Span(base, img)) = {}
      BY <2>1, <3>5
    <3> QED BY <1>10, <3>2, <3>4, <3>6, StaysLoaded
  <2>2. where' = "blink" /\ program' = program /\ memory' = g  BY <1>8, <1>9
  <2> QED BY <2>1, <2>2 DEF ProgramRight, ProgramAlone
<1> QED BY <1>1, <1>8, <1>9, <1>11, <1>13, <1>14, <1>16, <1>17 DEF ImagesInv

LEMMA ImagesStep ==
    ASSUME ImagesInv, [LoaderNext]_loaderVars
    PROVE  ImagesInv'
<1>1. CASE UNCHANGED loaderVars
  <2>1. LoaderInv'  BY BasesStep DEF ImagesInv
  <2> QED BY <1>1, <2>1 DEF ImagesInv, loaderVars, DllsRight, ProgramRight, ProgramAlone, Alone
<1>2. CASE LoaderNext  BY <1>2, ProgramImages, LibraryImages DEF LoaderNext
<1> QED BY <1>1, <1>2

\* What the guest runs is what the files have, after every program and every DLL loaded:
\* each word of each section where it belongs and moved with its image where a relocation
\* says so, each import slot bound to its own function (load_pe_blink, load_pe_builtin,
\* wg_load_dll).
THEOREM ImagesAsWanted == LoaderSpec => []ImagesRight
<1>1. ImagesInv => ImagesRight  BY ApartFollows DEF ImagesInv, ImagesRight
<1> QED BY <1>1, ImagesInitially, ImagesStep, PTL DEF LoaderSpec
=============================================================================
