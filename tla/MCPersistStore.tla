--------------------------- MODULE MCPersistStore ---------------------------
(* Small instances of PersistStore for TLC. *)
EXTENDS PersistStore, TLC

\* Files have no identity but their names.
InodeSymmetry == Permutations(Inodes)

\* Once two saves have overlapped, overlapped stays TRUE and every property but
\* TypeOK, EverySaved too, holds of what follows: it need not be explored.
NotOverlapped == ~overlapped

=============================================================================
