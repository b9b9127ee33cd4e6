---- MODULE MCDurableStore ----
(* Small instances of DurableStore for TLC. *)
EXTENDS DurableStore, TLC

CONSTANTS c1, c2, l1, l2, o1, e1, d1, r0, r1, junk

OldProfile == [DefaultData EXCEPT !.schema = "old", !.rev = r1]
FirstFiles == {Absent, DefaultData, OldProfile}

\* A launch after an import whose extension is not recorded yet.
ImportedProfile ==
    [DefaultData EXCEPT !.gen = 1, !.imports = {o1}, !.op = o1, !.pending = {e1}]

\* Or after an earlier failure of the disk; the default profile follows from Absent.
AnyFirstFiles == {Absent, OldProfile, ImportedProfile, junk}

\* No definition tells one client from another, so safety may be checked up to renaming them.
ClientSymmetry == Permutations(Clients)

====
