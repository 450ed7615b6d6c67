------------------------------- MODULE MCHtif -------------------------------
EXTENDS Htif

\* Success, a failure, two negative codes (an address that is not aligned and one
\* that is) and one that is cut.
MCExitCodes == {0, 3, -1, -8192, 16384}
=============================================================================
