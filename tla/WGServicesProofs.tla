-------------------------- MODULE WGServicesProofs --------------------------
(***************************************************************************)
(* The services together: as one runs and the others rest, each of them    *)
(* behaves as its own module says, so what was proved of it alone holds.   *)
(***************************************************************************)
EXTENDS MCServices, WGNetworkProofs, WGProgramProofs, WGAppProofs

\* A step of one service is a step of its own, and the others stand still.
LEMMA OneServes ==
    ASSUME [Next]_allVars
    PROVE  /\ [SocketsNext]_sockVars /\ [HttpNext]_httpVars /\ [TextNext]_textVars
           /\ [DecodeNext]_decodeVars /\ [InterpNext]_interpVars /\ [TlsNext]_tlsVars
           /\ [ShimNext]_shimVars /\ [DeskNext]_deskVars /\ [RasterNext]_rasterVars
           /\ [FilesNext]_filesVars /\ [DialogsNext]_dialogVars /\ [MapperNext]_mapperVars
           /\ [LoaderNext]_loaderVars
<1>1. CASE UNCHANGED allVars
  BY <1>1 DEF allVars
<1>2. CASE Next
  <2>1. OthersRest /\ Step  BY <1>2 DEF Next
  <2>2. service = "sockets" \/ UNCHANGED sockVars    BY <2>1 DEF OthersRest, Resting
  <2>3. service = "http" \/ UNCHANGED httpVars       BY <2>1 DEF OthersRest, Resting
  <2>4. service = "text" \/ UNCHANGED textVars       BY <2>1 DEF OthersRest, Resting
  <2>5. service = "decode" \/ UNCHANGED decodeVars   BY <2>1 DEF OthersRest, Resting
  <2>6. service = "interp" \/ UNCHANGED interpVars   BY <2>1 DEF OthersRest, Resting
  <2>7. service = "tls" \/ UNCHANGED tlsVars         BY <2>1 DEF OthersRest, Resting
  <2>8. service = "shim" \/ UNCHANGED shimVars       BY <2>1 DEF OthersRest, Resting
  <2>9. service = "desktop" \/ UNCHANGED deskVars    BY <2>1 DEF OthersRest, Resting
  <2>10. service = "raster" \/ UNCHANGED rasterVars  BY <2>1 DEF OthersRest, Resting
  <2>11. service = "files" \/ UNCHANGED filesVars    BY <2>1 DEF OthersRest, Resting
  <2>12. service = "dialogs" \/ UNCHANGED dialogVars BY <2>1 DEF OthersRest, Resting
  <2>13. service = "mapper" \/ UNCHANGED mapperVars  BY <2>1 DEF OthersRest, Resting
  <2>14. service = "loader" \/ UNCHANGED loaderVars  BY <2>1 DEF OthersRest, Resting
  <2>15. /\ service = "sockets" => SocketsNext
         /\ service = "http" => HttpNext
         /\ service = "text" => TextNext
         /\ service = "decode" => DecodeNext
         /\ service = "interp" => InterpNext
         /\ service = "tls" => TlsNext
         /\ service = "shim" => ShimNext
         /\ service = "desktop" => DeskNext
         /\ service = "raster" => RasterNext
         /\ service = "files" => FilesNext
         /\ service = "dialogs" => DialogsNext
         /\ service = "mapper" => MapperNext
         /\ service = "loader" => LoaderNext
    BY <2>1 DEF Step
  <2> QED BY <2>2, <2>3, <2>4, <2>5, <2>6, <2>7, <2>8, <2>9, <2>10, <2>11, <2>12, <2>13,
             <2>14, <2>15
<1> QED BY <1>1, <1>2

\* Every handler under Sources/Win32, Sources/CPU and Sources/PE keeps its tables
\* well-formed, for tables of any size and any number of calls.
THEOREM ServicesTyped == Spec => []ServicesTypeOK
<1>1. Init => /\ SocketsInit /\ HttpInit /\ TextInit /\ DecodeInit /\ InterpInit /\ TlsInit
              /\ ShimInit /\ DeskInit /\ RasterInit /\ FilesInit /\ DialogsInit /\ MapperInit
              /\ LoaderInit
  BY DEF Init
<1>2. [Next]_allVars =>
         /\ [SocketsNext]_sockVars /\ [HttpNext]_httpVars /\ [TextNext]_textVars
         /\ [DecodeNext]_decodeVars /\ [InterpNext]_interpVars /\ [TlsNext]_tlsVars
         /\ [ShimNext]_shimVars /\ [DeskNext]_deskVars /\ [RasterNext]_rasterVars
         /\ [FilesNext]_filesVars /\ [DialogsNext]_dialogVars /\ [MapperNext]_mapperVars
         /\ [LoaderNext]_loaderVars
  BY OneServes
<1>3. Spec => SocketsSpec /\ HttpSpec /\ TextSpec /\ DecodeSpec
  BY <1>1, <1>2, PTL DEF Spec, SocketsSpec, HttpSpec, TextSpec, DecodeSpec
<1>4. Spec => InterpSpec /\ TlsSpec /\ ShimSpec /\ DeskSpec /\ RasterSpec
  BY <1>1, <1>2, PTL DEF Spec, InterpSpec, TlsSpec, ShimSpec, DeskSpec, RasterSpec
<1>5. Spec => FilesSpec /\ DialogsSpec /\ MapperSpec /\ LoaderSpec
  BY <1>1, <1>2, PTL DEF Spec, FilesSpec, DialogsSpec, MapperSpec, LoaderSpec
<1>6. /\ SocketsTypeOK /\ HttpTypeOK /\ TextTypeOK /\ DecodeTypeOK /\ InterpTypeOK /\ TlsTypeOK
      /\ ShimTypeOK /\ DeskTypeOK /\ RasterTypeOK /\ FilesTypeOK /\ DialogsTypeOK /\ MapperTypeOK
      /\ LoaderTypeOK
      => ServicesTypeOK
  BY DEF ServicesTypeOK
<1> QED BY <1>3, <1>4, <1>5, <1>6, SocketsTyped, HttpTyped, TextTyped, DecodeTyped, InterpTyped,
           SchannelTyped, ShimTyped, DesktopTyped, RasterTyped, FilesTyped, DialogsWellTyped,
           MapperTyped, LoaderTyped, PTL
=============================================================================
