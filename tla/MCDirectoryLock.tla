--------------------------- MODULE MCDirectoryLock ---------------------------
(* TLC instances of DirectoryLock. *)
EXTENDS DirectoryLock, TLC

CONSTANTS p1, p2, p3, a1, s1, a2, a3

\* Process p1 locks both asynchronously (a1) and synchronously (s1).
HostOf == a1 :> p1 @@ s1 :> p1 @@ a2 :> p2 @@ a3 :> p3
OneBreaker == {p2}

=============================================================================
