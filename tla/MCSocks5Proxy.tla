--------------------------- MODULE MCSocks5Proxy ---------------------------
(***************************************************************************)
(* The proxy for TLC.  Clients are alike (the instances let all of them    *)
(* return), and so are Connection objects.                                 *)
(***************************************************************************)
EXTENDS Socks5Proxy

Symmetry == Permutations(Clients) \cup Permutations(Conns)
=============================================================================
