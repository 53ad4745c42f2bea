------------------------------ MODULE BlobKeys ------------------------------
(***************************************************************************)
(* The storage keys a backup gives its bundles (backup/util.go).  A key is *)
(* the string fmt.Sprintf("%0<w>x", k), here the sequence of its hex       *)
(* digits, most significant first, each a number in 0..15.                 *)
(***************************************************************************)
EXTENDS Integers, Sequences

\* hexLog(n): how many hexadecimal places a number of size n needs.
RECURSIVE hexLog(_)
hexLog(n) == IF n < 16 THEN 1 ELSE 1 + hexLog(n \div 16)

\* The digits %x prints for k >= 0: no leading zeros, "0" for zero.
RECURSIVE HexDigits(_)
HexDigits(k) == IF k < 16 THEN <<k>> ELSE Append(HexDigits(k \div 16), k % 16)

\* %0<width>x: HexDigits(k) padded on the left with zeros to width; a
\* number with more digits than width is printed whole, never cut.
SprintfHex(width, k) ==
    [i \in 1 .. (width - Len(HexDigits(k))) |-> 0] \o HexDigits(k)

\* Mutant: the closure never advances its counter, so every call returns
\* the key of 0.
keyFactoryNoIncrement(size) ==
    [i \in 1 .. size |-> SprintfHex(hexLog(size), 0)]

\* keyFactory(size) returns a closure; the i-th call returns the key of
\* k = i - 1 in the format fixed by size.  As a sequence: the keys of the
\* first size calls, which is how many Manifest.Update makes.
keyFactory(size) ==
    [i \in 1 .. size |-> SprintfHex(hexLog(size), i - 1)]

=============================================================================
