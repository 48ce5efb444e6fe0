----------------------------- MODULE WGLoader ------------------------------
(***************************************************************************)
(* Loading a program and its DLLs: the parsed image of wg_pe_loader.c, its *)
(* place in the memory of blink (wg_engine_load_pe, wg_load_dll) or, when  *)
(* there is no VM, in the regions of wg_memory.c.                          *)
(*                                                                         *)
(* Memory is counted in words of four bytes. A word is <<"raw", n>>, with  *)
(* n an address where the image has a pointer, or <<"thunk", dll, f>>. An  *)
(* image is a record:                                                      *)
(*   wide     64 bits           base     the preferred base                *)
(*   header   its words         sections <<[va, vsize, raw]>>, raw a       *)
(*                                       sequence of words, empty for none *)
(*   imports  <<[dll, lookup, first, iat]>>: the names of the two thunk    *)
(*            lists, NoList where the RVA leads nowhere, and NotGiven for  *)
(*            a lookup table whose RVA is zero                             *)
(*   relocs   <<[readable, at]>>: the base relocation blocks               *)
(*   size     SizeOfImage                                                  *)
(***************************************************************************)
EXTENDS Integers, Sequences, FiniteSets

CONSTANTS
    PE_MAX_IMPORTS, PE_MAX_IMPORT_FUNCS,    \* DLLs, and functions of one
    ModuleSlots,        \* size of s_modules, 16 in the code
    PageWords,          \* words of a page
    DllUnit, DllBase,   \* the unit, and the start, of the bases of DLLs
    Scratch,            \* words mapped over whatever the program has there
    Programs,           \* bound: the programs there are
    Dlls,               \* bound: names of DLLs -> images
    MaxImages            \* bound: programs loaded

VARIABLES
    memory,     \* blink's mapped words
    regions,    \* WGMemorySpace: what find_region shows at each address
    backend,    \* "blink" or "builtin"
    program,    \* pe_image, or NoImage
    where,      \* the memory the program was loaded into, or "none"
    modules,    \* s_modules: <<[name, base]>>
    mapped,     \* the DLLs in the VM, recorded or not: [name, base, img]
    nextBase,   \* s_dll_next_base
    loadCount       \* programs loaded

loaderVars == <<memory, regions, backend, program, where, modules, mapped, nextBase, loadCount>>

FileWords == {"raw"} \X Int
Zero    == <<"raw", 0>>
NoImage == [size |-> 0]
NoList  == <<"no list">>
NotGiven == <<"not given">>
NoMemory == [a \in {} |-> Zero]
Thunk(dll, f) == <<"thunk", dll, f>>
Least(a, b) == IF a < b THEN a ELSE b

\* A loop of n turns over a memory.
Loop(m, n, Turn(_, _)) ==
    LET after[i \in 0 .. n] == IF i = 0 THEN m ELSE Turn(after[i - 1], i)
    IN  after[n]

-----------------------------------------------------------------------------
(* The image. *)

\* The thunk list parse_imports walks: the lookup table, or the IAT itself without one.
List(d) == IF d.lookup # NotGiven THEN d.lookup ELSE d.first

\* Descriptors before one without a name. One whose list leads nowhere takes no place
\* in the table of DLLs.
Listed(img) ==
    {d \in DOMAIN img.imports : /\ List(img.imports[d]) # NoList
                                /\ \A i \in 1 .. d : img.imports[i].dll # "none"}
parse_imports(img) ==
    {d \in Listed(img) : Cardinality({i \in Listed(img) : i < d}) < PE_MAX_IMPORTS}
num_functions(d) == Least(Len(List(d)), PE_MAX_IMPORT_FUNCS)

SlotWords(img) == IF img.wide THEN 2 ELSE 1

\* Words of a section that come from the file.
RawWords(s) == SubSeq(s.raw, 1, Least(Len(s.raw), s.vsize))

\* The blocks before the first that cannot be read.
Relocated(img) ==
    UNION {img.relocs[i].at : i \in {k \in DOMAIN img.relocs :
        \A b \in 1 .. k : img.relocs[b].readable}}

\* What the images of the files are like: their sections lie on pages of their own, and
\* a list of slots in one section, with an empty slot behind it. The loader checks none
\* of this; nothing else can be said of an image that is not like it.
PageOf(a) == a \div PageWords
WordsOf(s) == s.va .. s.va + s.vsize - 1
SectionPages(s) == PageOf(s.va) .. PageOf(s.va + (IF s.vsize = 0 THEN 1 ELSE s.vsize) - 1)
FileWord(s, rva) == IF rva - s.va < Len(s.raw) THEN s.raw[rva - s.va + 1] ELSE Zero
SlotsEnd(img, d) == img.imports[d].iat + Len(List(img.imports[d])) * SlotWords(img)
SlotsOf(img, d)  == img.imports[d].iat .. SlotsEnd(img, d) - 1
Pointers(img) ==
    UNION {img.relocs[i].at : i \in {k \in DOMAIN img.relocs : img.relocs[k].readable}}

SectionsFit(img) ==
    \A i \in DOMAIN img.sections :
        LET s == img.sections[i]
        IN  /\ s.va % PageWords = 0 /\ s.va + s.vsize <= img.size
            /\ \A k \in DOMAIN img.sections \ {i} :
                    SectionPages(s) \cap SectionPages(img.sections[k]) = {}

ImportsFit(img) ==
    /\ Cardinality(Listed(img)) <= PE_MAX_IMPORTS
    /\ \A d \in Listed(img) :
        LET imp == img.imports[d]
        IN  /\ Len(List(imp)) <= PE_MAX_IMPORT_FUNCS
            /\ \E i \in DOMAIN img.sections :
                  /\ SlotsOf(img, d) \cup {SlotsEnd(img, d)} \subseteq WordsOf(img.sections[i])
                  /\ FileWord(img.sections[i], SlotsEnd(img, d)) = Zero
            /\ \A e \in Listed(img) \ {d} : (SlotsOf(img, d) \cup {SlotsEnd(img, d)})
                                             \cap (SlotsOf(img, e) \cup {SlotsEnd(img, e)}) = {}

RelocsFit(img) ==
    /\ \A i, k \in DOMAIN img.relocs : i < k /\ img.relocs[k].readable => img.relocs[i].readable
    /\ \A rva \in Pointers(img) :
          /\ \E i \in DOMAIN img.sections : rva \in WordsOf(img.sections[i])
          /\ \A d \in Listed(img) : rva \notin SlotsOf(img, d) \cup {SlotsEnd(img, d)}

Images ==
    [wide : BOOLEAN, base : Nat, size : Nat, header : Seq(FileWords),
     sections : Seq([va : Nat, vsize : Nat, raw : Seq(FileWords)]),
     imports  : Seq([dll : STRING, lookup : Seq(STRING), first : Seq(STRING), iat : Nat]),
     relocs   : Seq([readable : BOOLEAN, at : SUBSET Nat])]

ImageFits(img) ==
    /\ img \in Images /\ img.base % PageWords = 0 /\ Len(img.header) <= img.size
    /\ SectionsFit(img) /\ ImportsFit(img) /\ RelocsFit(img)

ASSUME LoaderAssumption ==
    /\ ModuleSlots \in Nat /\ PageWords \in Nat \ {0}
    /\ DllBase \in Nat /\ DllBase % PageWords = 0
    /\ DllUnit \in Nat \ {0} /\ DllUnit % PageWords = 0
    /\ PE_MAX_IMPORTS \in Nat /\ PE_MAX_IMPORT_FUNCS \in Nat
    /\ Scratch \subseteq Nat
    /\ \A img \in Programs : ImageFits(img)
    /\ \A name \in DOMAIN Dlls : ImageFits(Dlls[name])

-----------------------------------------------------------------------------
(* blink's memory. ReserveVirtual gives fresh pages, and a copy to a page  *)
(* that is not there is lost.                                              *)

Reserve(m, lo, n) ==
    LET pages == PageOf(lo) .. PageOf(lo + n - 1)
    IN  [a \in DOMAIN m \cup {p * PageWords + k : p \in pages, k \in 0 .. PageWords - 1} |->
            IF PageOf(a) \in pages THEN Zero ELSE m[a]]
wg_blink_write_mem(m, lo, words) ==
    [a \in DOMAIN m |-> IF a \in lo .. lo + Len(words) - 1 THEN words[a - lo + 1] ELSE m[a]]
wg_blink_load_code(m, lo, words) ==
    IF words = <<>> THEN m ELSE wg_blink_write_mem(Reserve(m, lo, Len(words)), lo, words)

\* A section: zeros over its extent, then its raw words.
PutSection(m, base, s) ==
    IF s.vsize = 0 THEN m
    ELSE wg_blink_write_mem(Reserve(m, base + s.va, s.vsize), base + s.va, RawWords(s))
PutSections(m, base, img) ==
    Loop(m, Len(img.sections), LAMBDA acc, i : PutSection(acc, base, img.sections[i]))

\* An address of width words goes to the slot of a function: eight bytes for a program,
\* although a slot of a 32-bit program has four.
BindSlot(m, base, img, d, j, width) ==
    LET imp  == img.imports[d]
        stub == Thunk(imp.dll, List(imp)[j])
    IN  wg_blink_write_mem(m, base + imp.iat + (j - 1) * SlotWords(img),
                           IF width = 2 THEN <<stub, Zero>> ELSE <<stub>>)

\* Mutant of BindDll: from the last function to the first.
BindDll_backwards(m, base, img, d, width) ==
    LET n == num_functions(img.imports[d])
    IN  Loop(m, n, LAMBDA acc, j : BindSlot(acc, base, img, d, n + 1 - j, width))

BindDll(m, base, img, d, width) ==
    Loop(m, num_functions(img.imports[d]), LAMBDA acc, j : BindSlot(acc, base, img, d, j, width))
Bind(m, base, img, width) ==
    Loop(m, Len(img.imports), LAMBDA acc, d :
            IF d \in parse_imports(img) THEN BindDll(acc, base, img, d, width) ELSE acc)

\* load_pe_blink, into a new VM.
BlinkImage(img) ==
    LET headed == IF img.sections # <<>> /\ img.sections[1].va > 0
                  THEN wg_blink_load_code(NoMemory, img.base,
                          SubSeq(img.header, 1, Least(img.sections[1].va, Len(img.header))))
                  ELSE NoMemory
    IN  Bind(PutSections(headed, img.base, img), img.base, img, 2)

\* The words mapped behind it: the getaddrinfo scratch and the zero pages.
WithScratch(m) == [a \in DOMAIN m \cup Scratch |-> IF a \in Scratch THEN Zero ELSE m[a]]

-----------------------------------------------------------------------------
(* The builtin interpreter's memory: an address shows the first region     *)
(* that has it.                                                            *)

\* Whole pages of zeros, behind the regions there are.
wg_memory_map(m, base, n) ==
    LET size == IF n = 0 THEN PageWords ELSE ((n + PageWords - 1) \div PageWords) * PageWords
    IN  [a \in DOMAIN m \cup base .. base + size - 1 |-> IF a \in DOMAIN m THEN m[a] ELSE Zero]

\* Each word where it is found, as blink does.
wg_memory_write(m, lo, words) == wg_blink_write_mem(m, lo, words)

MapSection(m, base, s) ==
    wg_memory_write(wg_memory_map(m, base + s.va, s.vsize), base + s.va, RawWords(s))
MapSections(m, base, img) ==
    Loop(m, Len(img.sections), LAMBDA acc, i : MapSection(acc, base, img.sections[i]))

\* load_pe_builtin; its loops over the imports are those of load_pe_blink.
BuiltinImage(m, img) ==
    Bind(MapSections(m, img.base, img), img.base, img, 2)

-----------------------------------------------------------------------------
LoaderInit ==
    /\ memory = NoMemory /\ regions = NoMemory
    /\ backend = "blink" /\ program = NoImage /\ where = "none"
    /\ modules = <<>> /\ mapped = {} /\ nextBase = DllBase /\ loadCount = 0

\* wg_engine_load_pe. Without a VM the builtin interpreter is used from then on;
\* without a stack in the VM the program is loaded for it, but not run by it.
LoadProgram_(img, vm, has_stack) ==
    /\ loadCount < MaxImages
    /\ loadCount' = loadCount + 1 /\ program' = img
    /\ modules' = <<>> /\ mapped' = {} /\ nextBase' = DllBase
    /\ LET blink == backend = "blink" /\ vm
           runs    == blink /\ has_stack
       IN  /\ backend' = IF backend = "blink" /\ ~vm THEN "builtin" ELSE backend
           /\ memory' = IF runs THEN WithScratch(BlinkImage(img))
                        ELSE IF blink THEN BlinkImage(img) ELSE NoMemory
           /\ regions' = IF runs THEN regions ELSE BuiltinImage(regions, img)
           /\ where' = IF runs THEN "blink" ELSE "builtin"

Recorded(name) == {i \in DOMAIN modules : modules[i].name = name}
CanMove(img) == img.relocs # <<>>
DllEnd(img) == ((nextBase + img.size + DllUnit - 1) \div DllUnit) * DllUnit

\* s_dll_next_base behind an image.
BaseAfter(img) == DllEnd(img)

\* A word that is relocated moves by delta.
Rebased(m, base, img) ==
    [a \in DOMAIN m |-> IF a - base \in Relocated(img) THEN <<"raw", m[a][2] + base - img.base>>
                        ELSE m[a]]

\* wg_load_dll, of a DLL whose file is there. Its header is copied before there is
\* a page for it. A full table leaves it mapped and not recorded.
LoadLibrary(name) ==
    LET img  == Dlls[name]
        base == IF CanMove(img) THEN nextBase ELSE img.base
        sections == PutSections(wg_blink_write_mem(memory, base, img.header), base, img)
    IN  /\ where = "blink" /\ ~img.wide /\ Recorded(name) = {}
        /\ \A m \in mapped : m.name # name
        /\ memory' = Bind(Rebased(sections, base, img), base, img, 1)
        /\ nextBase' = IF CanMove(img) THEN BaseAfter(img) ELSE nextBase
        /\ modules' = IF Len(modules) < ModuleSlots
                      THEN Append(modules, [name |-> name, base |-> base]) ELSE modules
        /\ mapped' = mapped \cup {[name |-> name, base |-> base, img |-> img]}
        /\ UNCHANGED <<regions, backend, program, where, loadCount>>

LoaderNext ==
    \/ \E img \in Programs, vm, has_stack \in BOOLEAN : LoadProgram_(img, vm, has_stack)
    \/ \E name \in DOMAIN Dlls : LoadLibrary(name)

LoaderSpec == LoaderInit /\ [][LoaderNext]_loaderVars

-----------------------------------------------------------------------------
LoaderTypeOK ==
    /\ backend \in {"blink", "builtin"} /\ where \in {"none", "blink", "builtin"}
    /\ Len(modules) <= ModuleSlots /\ Cardinality(mapped) >= Len(modules)
    /\ nextBase >= DllBase

Extent(img) == UNION {WordsOf(img.sections[i]) : i \in DOMAIN img.sections}
Span(base, img) == {base + rva : rva \in Extent(img) \cup 0 .. Len(img.header) - 1}
PagesOf(words) == {PageOf(a) : a \in words}

\* The words of an image, those that something is mapped over left out: every slot has
\* the address of its own function, every other word is the file's, moved with the image
\* where a relocation says so.
Loaded(m, base, img, over) ==
    /\ \A d \in Listed(img) : \A j \in DOMAIN List(img.imports[d]) :
        LET imp == img.imports[d]
            a   == base + imp.iat + (j - 1) * SlotWords(img)
        IN  /\ a \notin over => m[a] = Thunk(imp.dll, List(imp)[j])
            /\ img.wide /\ a + 1 \notin over => m[a + 1] = Zero
    /\ \A i \in DOMAIN img.sections : \A rva \in WordsOf(img.sections[i]) :
        LET word == FileWord(img.sections[i], rva)
        IN  base + rva \notin over /\ (\A d \in Listed(img) : rva \notin SlotsOf(img, d)) =>
                m[base + rva] = IF rva \in Pointers(img)
                                THEN <<"raw", word[2] + base - img.base>> ELSE word

\* DLLs that can be moved have room of their own.
BasesApart ==
    \A m, k \in mapped : m # k /\ CanMove(m.img) /\ CanMove(k.img) =>
        PagesOf(Span(m.base, m.img)) \cap PagesOf(Span(k.base, k.img)) = {}

\* Those that no DLL without relocations was put over, or under.
Alone(base, img) ==
    \A k \in mapped : k.img # img /\ ~(CanMove(k.img) /\ CanMove(img)) =>
        PagesOf(Span(base, img)) \cap PagesOf(Span(k.base, k.img)) = {}

DllsRight == \A m \in mapped : Alone(m.base, m.img) => Loaded(memory, m.base, m.img, {})

ProgramAlone ==
    \A k \in mapped :
        PagesOf(Span(program.base, program)) \cap PagesOf(Span(k.base, k.img)) = {}

\* The program outside of the scratch. A second one in the regions of the builtin
\* interpreter finds the regions of the first, and is not compared.
ProgramRight ==
    /\ where = "blink" /\ ProgramAlone => Loaded(memory, program.base, program, Scratch)
    /\ where = "builtin" /\ loadCount = 1 => Loaded(regions, program.base, program, {})

\* What the guest runs is what the files have: every word of every section, every
\* pointer moved with its image, and every import slot the thunk of its own function
\* (load_pe_blink, load_pe_builtin, wg_load_dll).
ImagesRight == BasesApart /\ DllsRight /\ ProgramRight
=============================================================================
