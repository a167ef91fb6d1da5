--------------------------- MODULE MCControlPlane ---------------------------
(* Values for model checking ControlPlane. *)
EXTENDS ControlPlane, TLC

CONSTANTS s1, s2, n1, n2, none

SessionSymmetry == Permutations({s1, s2})

Http(d) == [type |-> "http", domain |-> d, remotePort |-> 0, localPort |-> 8,
            unlisted |-> FALSE]
Tcp(remote, local) == [type |-> "tcp", domain |-> none, remotePort |-> remote,
                       localPort |-> local, unlisted |-> FALSE]

\* One message of each kind: a random name, a claimed one, a fixed port, one
\* out of range, a default port, a refused private tunnel, an unknown type.
OfEachKind ==
    {Http(none), Http(n1), Tcp(1, 8), Tcp(3, 8), Tcp(0, 2),
     [Tcp(1, 8) EXCEPT !.unlisted = TRUE], [Http(none) EXCEPT !.type = "other"]}

\* Everybody wants the same port.
OnePort == {Tcp(1, 8)}

\* The one port and the one name.
Contended == {Tcp(1, 8), Http(n1)}

RandomName == {Http(none)}

\* No remote port: the local port is inside the range, or it is not.
OmittedPort == {Tcp(0, 2), Tcp(0, 8)}
=============================================================================
