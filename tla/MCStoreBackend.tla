--------------------------- MODULE MCStoreBackend ---------------------------
(* Instances of StoreBackend: bytes 0 .. 3, one-byte lengths, two-byte times *)
EXTENDS StoreBackend, TLC

\* One name is a prefix of another.
MCNames == {<<1>>, <<1, 3>>}
MCWindowNames == {<<1, 3>>}

\* The empty key and a key that ends in 0xff; a start that is encoded above
\* all others.
MCKeys == {<<>>, <<3>>}
MCStarts == {-1, 0}
MCValues == {<<>>, <<2>>}
MCTimes == {1}
MCMaxInt64 == 7
==============================================================================
