---------------------------- MODULE MCTcpTransfer ----------------------------
(* A small instance of TcpTransfer for TLC: two clients, sizes in base two. *)
EXTENDS TcpTransfer

CONSTANTS c1, c2

TwoClients == {c1, c2}

\* Nothing, what fits, what the server refuses and what
\* the client does.
FewSizes == {0, 7, 9, 16}
Bit(d) == [digit |-> d]
Nul == T("nul")
OneGarbage == {<<Bit(1), Bit(1), Bit(0), Nul, T("<"), Nul, Nul>>}
=============================================================================
