------------------------------- MODULE MCKmain -------------------------------
EXTENDS Kmain

CONSTANTS a, b      \* names

\* More records than CPU_MAX and more I/O APICs than the tables hold, the
\* bsp not first, one cpu disabled.
Crowded == <<Ioapic(7), Lapic(3, TRUE), Ioapic(8), Lapic(2, FALSE), Lapic(0, TRUE),
             Ioapic(9), Ioapic(10), Lapic(1, TRUE), Lapic(4, TRUE)>>
Mixed == <<Lapic(0, TRUE), Lapic(1, TRUE), Lapic(2, TRUE), Lapic(3, TRUE)>>
Alone == <<Lapic(0, TRUE)>>

Machines == {Crowded, Mixed, Alone}
OneCpu == {Alone}

Folder(path) == [path |-> path, type |-> "folder", size |-> 0]
File(path, size) == [path |-> path, type |-> "file", size |-> size]

\* A file, a folder of its name with a file in it, which can neither be made
\* nor opened, and the first file once more and longer.
Archive == <<Folder(<<>>), File(<<a>>, 1), Folder(<<a>>), File(<<a, b>>, 1), File(<<a>>, 2)>>

\* Paths that are there, that are not, and whose middle name is missing.
PathsUsed == {<<>>, <<a>>, <<b>>, <<b, a>>}
PathsOpened == {<< <<a>>, "write">>, << <<b>>, "read">>}
PathsLinked == {<< <<a>>, <<b, a>> >>, << <<b>>, <<a>> >>}
PathsMounted == {<<b>>}

\* Handles move while the names are those of the archive, and names change
\* while the handles are where vfs_open put them.
Unmoved == \A td \in OpenDescs : Desc(td[1], td[2]).seek_pos = 0
AsUnpacked == DOMAIN tnode = {vfs_root, 1}
NamesOrContents == unpack.pc = "done" => Unmoved \/ AsUnpacked

AllFrames == 0..90
AllMemory == 0..87
=============================================================================
