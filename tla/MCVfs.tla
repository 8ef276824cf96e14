-------------------------------- MODULE MCVfs --------------------------------
(* A disk that is mounted, unmounted or swapped to, the null device, and a  *)
(* device that is attached later; two threads of one process, which may do  *)
(* two things in one call.                                                  *)
EXTENDS Vfs
MCVolname == "lhd0" :> "vol"
MCRawName == "lhd0" :> "lhd0raw"
MCAttached == <<"null", "lhd0">>
F == <<"lhd0", "f">>
MCCalls ==
  "a" :> {<<<<"unmount", "lhd0">>>>, <<<<"mount", "lhd0">>>> \o vfs_setbootfs("lhd0"),
          <<<<"adddev", "con">>, <<"swapon", "lhd0">>>>, <<<<"swapoff", "lhd0">>>> \o vfs_link(<<"null", "">>, F),
          vfs_clearbootfs \o vfs_remove(<<"", "f">>), vfs_open(<<"/", "f">>, {"write", "trunc"})}
  @@ "b" :> {<<<<"unmountall">>>>, <<<<"clearcurdir">>>>,
             vfs_chdir(<<"vol", "">>, <<>>), vfs_getcwd \o vfs_chdir(<<"null", "">>, <<>>),
             vfs_open(F, {"creat", "excl"}), vfs_mkdir(<<"", "d">>) \o vfs_open(<<":", "">>, {"write"}),
             vfs_open(<<"lhd0raw", "">>, {"write"}) \o vfs_open(<<"null", "">>, {"trunc", "write"}),
             vfs_remove(F), vfs_link(F, <<":", "g">>), vfs_rename(<<"", "f">>, <<"lhd0", "g">>)}
=============================================================================
