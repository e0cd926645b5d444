----------------------------- MODULE MCOrphans -----------------------------
EXTENDS Orphans, TLC

CONSTANTS d, e, a, b, c, ext4

VolumeOf == [dir \in Dir |-> "v1"]

Order == <<d, e>>

\* `...\wsl\*`, then a directory of scan.dirs that is one of those as well.
Overlapping ==
    <<[spelling |-> "plain", wild |-> TRUE, dirs |-> {a, b}],
      [spelling |-> "prefixed", wild |-> FALSE, dirs |-> {b}]>>

\* The same, and `--scan .`.
WithRelative ==
    Append(Overlapping, [spelling |-> "apart", wild |-> FALSE, dirs |-> {c}])
=============================================================================
