------------------------------ MODULE RowTime ------------------------------
(***************************************************************************)
(* The order in which the store compares instants.  formatTime renders a   *)
(* time with Go's RFC3339Nano layout, whose fraction loses its trailing    *)
(* zeros (and the point, when nothing is left), and upsertTrace compares   *)
(* the rendered texts byte by byte.                                        *)
(*                                                                         *)
(* An instant is a number of hundredths of a second, which is the coarsest *)
(* resolution that shows both effects of the trimming:                     *)
(*   12      renders as  ...:12Z      and sorts after every 12.xy, because *)
(*                                    'Z' follows '.' in ASCII;            *)
(*   12.5    renders as  ...:12.5Z    and sorts after every 12.5y, because *)
(*                                    'Z' follows the digits.              *)
(***************************************************************************)
EXTENDS Integers

Second == 100

\* The terminator 'Z' as a digit of the key: it sorts after '0'..'9'.
Zulu == 10

\* The first character after the seconds decides as '.' + tenths, or 'Z'.
TenthsKey(t) == IF t % Second = 0 THEN Zulu ELSE (t \div 10) % 10

HundredthsKey(t) == IF t % 10 = 0 THEN Zulu ELSE t % 10

\* A number that orders instants as their rendered texts are ordered.
TextKey(t) == 121 * (t \div Second) + 11 * TenthsKey(t) + HundredthsKey(t)

TextBefore(t, u) == TextKey(t) < TextKey(u)

TextMin(t, u) == IF TextBefore(u, t) THEN u ELSE t
TextMax(t, u) == IF TextBefore(t, u) THEN u ELSE t
=============================================================================
