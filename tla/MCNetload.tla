----------------------------- MODULE MCNetload -----------------------------
(* Small instances of Netload: a three-byte and a two-byte image, sent in   *)
(* chunks of two, so that the longer one ends with a short chunk.           *)
EXTENDS Netload, TLC
CONSTANTS imgA, imgB
MCSize    == imgA :> 3 @@ imgB :> 2
OneImage  == {imgA}
TwoImages == {imgA, imgB}
=============================================================================
