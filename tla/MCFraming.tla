------------------------------ MODULE MCFraming ------------------------------
(* Instances of Framing for TLC. *)
EXTENDS Framing

\* With two bytes to a block, ciphertexts of one and two blocks.
Texts == {<<2, 1>>, <<1, 1, 1>>}

\* One character, 7, on Windows; Linux also has one that Windows has not.
GbkTexts == {<<7>>, <<7, 7>>}
CodePage == [c \in {7} |-> 1]

OnHeap == {<<>>, <<2>>}

\* Under the first key ciphertexts have no zero byte or begin with one, under
\* the second the zero byte of the padding stays, and a whole block may get one.
Shift(n) == [block \in Block |-> [i \in 1..BlockLen |-> (block[i] + n) % 3]]
Swap(x, y) ==
    [block \in Block |->
        CASE block = x -> y [] block = y -> x [] OTHER -> block]
Keys == {Shift(1), Swap(<<1, 1>>, <<0, 1>>)}
=============================================================================
