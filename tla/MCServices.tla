----------------------------- MODULE MCServices -----------------------------
(***************************************************************************)
(* The services that the guest calls, each on a small instance.            *)
(*                                                                         *)
(* No two of these modules share state: a socket call changes no file and  *)
(* a drawing no handle of WinHTTP.  An interleaving of two services is     *)
(* therefore the two behaviours side by side, and this module lets one     *)
(* service, chosen initially, run alone while the others rest.             *)
(***************************************************************************)
EXTENDS WGSockets, WGAddresses, WGHttp, WGHttpText, WGDecode, WGInterp, WGSchannel,
        WGOpenSSL, WGDesktop, WGRaster, WGFiles, WGDialogs, WGMapper, WGLoader

VARIABLE service    \* the one that runs

Services == {"sockets", "addresses", "http", "text", "decode", "interp", "tls", "shim",
             "desktop", "raster", "files", "dialogs", "mapper", "loader"}

-----------------------------------------------------------------------------
(* Constants that a .cfg file cannot state.                                *)

\* No prefix, REX.W, an operand size, and a segment before REX.B.
McPrefixes == {<<>>, <<72>>, <<102>>, <<100, 65>>}
McModRMs   == {mod * 64 + reg * 8 + rm : mod \in 0 .. 3, reg \in {0, 2}, rm \in {0, 4, 5}}
McSibs     == {0, 5, 32, 37}

McCoordinates == -1 .. 3
McSizes       == {0, 1, 2}
McScales      == {<<1, 1>>, <<3, 2>>, <<2, 3>>, <<5, 2>>}

Path(long, drive, names) == [long |-> long, drive |-> drive, root |-> drive, names |-> names]
McSpellings == {Path(TRUE, TRUE, <<"d", "x">>), Path(FALSE, FALSE, <<"x">>)}
McFolders   == {Path(FALSE, TRUE, <<"d">>), Path(TRUE, TRUE, <<"d">>)}

\* Dialog templates with and without menu, font, named class and creation data, so
\* that the items start at odd and at even words.
Button == <<65535, 128>>
Item(id, class, title, extra) == [id |-> id, class |-> class, title |-> title, extra |-> extra]
Template(font, menu, title, items) ==
    [font |-> font, menu |-> menu, class |-> <<>>, title |-> title, items |-> items]
McTemplates ==
    {Template(FALSE, <<>>, <<>>, <<Item(1, Button, <<>>, 0)>>),
     Template(TRUE, <<65535, 5>>, <<83>>,
              <<Item(1, <<97, 98>>, Button, 1), Item(2, Button, <<88>>, 0)>>),
     Template(TRUE, <<>>, <<83, 84>>,
              <<Item(1, Button, <<88, 89>>, 0), Item(2, <<97>>, <<>>, 1)>>)}

\* An ordinal and names with an entry, and without one, in and out of their DLL.
McImports == {<<"WS2_32", TRUE, "Ordinal_151">>, <<"KERNEL32", FALSE, "Sleep">>,
              <<"USER32", TRUE, "NoSuch">>, <<"SHELL32", FALSE, "Ordinal_17">>}
McWanted  == {"SHGetFolderPathW", "KillTimer", "NoSuch", "GetDC"}

\* Programs of 32 and 64 bits whose import tables lack a lookup table or the end mark,
\* or have a lookup table that leads nowhere, whose sections leave holes or have no
\* size; one of them twice, moved.
Raw(n) == <<"raw", n>>
Imported(dll, lookup, first, iat) == [dll |-> dll, lookup |-> lookup, first |-> first, iat |-> iat]
Section(va, vsize, raw) == [va |-> va, vsize |-> vsize, raw |-> raw]
Program32 ==
    [wide |-> FALSE, base |-> 8, header |-> <<Raw(7), Raw(7)>>,
     sections |-> <<Section(2, 8, <<Raw(1), Raw(0), Raw(2), Raw(0), Raw(0), Raw(3)>>),
                    Section(10, 2, <<>>), Section(12, 1, <<Raw(5), Raw(6)>>)>>,
     imports |-> <<Imported("B", <<"g">>, NoList, 7), Imported("A", NotGiven, <<"f", "h">>, 3),
                   Imported("C", NoList, <<"h">>, 2)>>,
     relocs |-> <<>>, size |-> 14]
Program64 ==
    [wide |-> TRUE, base |-> 8, header |-> <<Raw(9)>>,
     sections |-> <<Section(2, 6, <<Raw(1), Raw(0), Raw(1), Raw(0), Raw(0), Raw(0)>>)>>,
     imports |-> <<Imported("A", <<"f", "g">>, NoList, 2), Imported("none", NoList, NoList, 0),
                   Imported("A", <<"f">>, NoList, 6)>>,
     relocs |-> <<>>, size |-> 8]
McPrograms == {Program32, Program64, [Program32 EXCEPT !.base = 16]}

\* A DLL with relocations, one of them in a block that cannot be read; one whose
\* relocations were stripped; and a small one without imports.
Block(readable, at) == [readable |-> readable, at |-> at]
Library ==
    [wide |-> FALSE, base |-> 20, header |-> <<Raw(7)>>,
     sections |-> <<Section(2, 5, <<Raw(1), Raw(22), Raw(2), Raw(0)>>)>>,
     imports |-> <<Imported("A", <<"f">>, NoList, 4)>>,
     relocs |-> <<Block(TRUE, {3}), Block(TRUE, {2}), Block(FALSE, {5})>>, size |-> 7]
McDlls == [a |-> Library,
           b |-> [Library EXCEPT !.relocs = <<>>],
           c |-> [Library EXCEPT !.sections = <<Section(0, 3, <<Raw(4)>>)>>, !.imports = <<>>,
                                 !.relocs = <<Block(TRUE, {0})>>, !.size = 3]]
McScratch == 24 .. 25

-----------------------------------------------------------------------------
\* All of it is given but the address of the peer, which one service is tried with.
Init ==
    /\ service \in Services
    /\ SocketsInit /\ HttpInit /\ TextInit /\ DecodeInit /\ InterpInit /\ TlsInit /\ ShimInit
    /\ DeskInit /\ RasterInit /\ FilesInit /\ DialogsInit /\ MapperInit /\ LoaderInit
    /\ AddressesInit
    /\ service = "addresses" \/ peer = CHOOSE sa \in Sockaddrs : TRUE

Resting(name, vars) == service # name => UNCHANGED vars

OthersRest ==
    /\ Resting("sockets", sockVars) /\ Resting("addresses", addrVars)
    /\ Resting("http", httpVars)    /\ Resting("text", textVars)
    /\ Resting("decode", decodeVars) /\ Resting("interp", interpVars)
    /\ Resting("tls", tlsVars)      /\ Resting("shim", shimVars)
    /\ Resting("desktop", deskVars) /\ Resting("raster", rasterVars)
    /\ Resting("files", filesVars)  /\ Resting("dialogs", dialogVars)
    /\ Resting("mapper", mapperVars) /\ Resting("loader", loaderVars)

Step ==
    \/ service = "sockets"   /\ SocketsNext
    \/ service = "addresses" /\ AddressesNext
    \/ service = "http"      /\ HttpNext
    \/ service = "text"      /\ TextNext
    \/ service = "decode"    /\ DecodeNext
    \/ service = "interp"    /\ InterpNext
    \/ service = "tls"       /\ TlsNext
    \/ service = "shim"      /\ ShimNext
    \/ service = "desktop"   /\ DeskNext
    \/ service = "raster"    /\ RasterNext
    \/ service = "files"     /\ FilesNext
    \/ service = "dialogs"   /\ DialogsNext
    \/ service = "mapper"    /\ MapperNext
    \/ service = "loader"    /\ LoaderNext

Next == Step /\ OthersRest /\ UNCHANGED service

allVars == <<service, sockVars, addrVars, httpVars, textVars, decodeVars, interpVars, tlsVars,
             shimVars, deskVars, rasterVars, filesVars, dialogVars, mapperVars, loaderVars>>
Spec == Init /\ [][Next]_allVars

\* Every handler of every service keeps its tables well-formed and within their
\* sizes (the wg_*.c files under Sources/Win32, Sources/CPU and Sources/PE).
ServicesTypeOK ==
    /\ SocketsTypeOK /\ HttpTypeOK /\ TextTypeOK /\ DecodeTypeOK /\ InterpTypeOK /\ TlsTypeOK
    /\ ShimTypeOK /\ DeskTypeOK /\ RasterTypeOK /\ FilesTypeOK /\ DialogsTypeOK /\ MapperTypeOK
    /\ LoaderTypeOK
=============================================================================
