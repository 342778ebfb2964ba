------------------------------- MODULE MCKiss -------------------------------
(* Every special byte on its own and in pairs that look like an escape; with *)
(* MaxPacketSize = 3 the last two do not fit.                                *)
EXTENDS Kiss

MCPayloads ==
    {<<>>, <<"FEND">>, <<"FESC", "TFEND">>,
     <<"FEND", "NUL", "FESC">>, <<"NUL", "NUL", "NUL", "FEND">>}
=============================================================================
