------------------------------ MODULE Confine -------------------------------
(***************************************************************************)
(* What backends/confine.py lets a VMM reach: the Landlock rights of each  *)
(* ABI, the rules of a microVM's plan narrowed to what they land on, and   *)
(* the file-size limit, in MiB.  Rights are names, masks are sets of them, *)
(* and a rule is a path with a set of rights.                              *)
(***************************************************************************)
EXTENDS Integers, Sequences

(* In the order of the kernel's header.                                    *)
ACCESS_FS ==
    <<"EXECUTE", "WRITE_FILE", "READ_FILE", "READ_DIR", "REMOVE_DIR", "REMOVE_FILE",
      "MAKE_CHAR", "MAKE_DIR", "MAKE_REG", "MAKE_SOCK", "MAKE_FIFO", "MAKE_BLOCK",
      "MAKE_SYM", "REFER", "TRUNCATE">>

NEWEST_ABI == 3
FirstRights(n) == {ACCESS_FS[i] : i \in 1..n}

(* The kernel's own rights; what later ABIs add is not in the list.        *)
KnownToKernel(abi) == FirstRights(IF abi = 1 THEN 13 ELSE IF abi = 2 THEN 14 ELSE 15)

HandledAlways(abi) == FirstRights(15)

(* HANDLED_BY_ABI, a newer kernel being taken for the newest one known.    *)
Handled(abi) == FirstRights(12 + IF abi > NEWEST_ABI THEN NEWEST_ABI ELSE abi)

READ == {"READ_FILE", "READ_DIR"}
EXECUTE == {"EXECUTE", "READ_FILE"}
WRITE == READ \cup {"WRITE_FILE", "TRUNCATE", "REMOVE_DIR", "REMOVE_FILE", "MAKE_DIR",
                    "MAKE_REG", "MAKE_SOCK", "MAKE_FIFO", "MAKE_SYM"}
FILE_ACCESS == {"EXECUTE", "READ_FILE", "WRITE_FILE", "TRUNCATE"}

(* plan_for and Plan.rules.                                                *)
PlanPaths == {"binary", "kernel", "instance", "kvm"}
plan_for == [binary |-> EXECUTE, kernel |-> READ, instance |-> WRITE, kvm |-> WRITE]

IsDir(path) == path = "instance"

(* The rights that build_ruleset and add_rule ask for on a path.           *)
add_rule(path, abi) ==
    LET access == plan_for[path] \cap Handled(abi)
    IN  IF IsDir(path) THEN access ELSE access \cap FILE_ACCESS

(* landlock_create_ruleset and landlock_add_rule take it.                  *)
KernelTakes(abi) ==
    /\ Handled(abi) \subseteq KnownToKernel(abi)
    /\ \A p \in PlanPaths :
          /\ add_rule(p, abi) # {}
          /\ add_rule(p, abi) \subseteq Handled(abi)
          /\ IsDir(p) \/ add_rule(p, abi) \subseteq FILE_ACCESS

(* What the VMM does to boot a guest: runs, reads the kernel, drives kvm,  *)
(* writes the disk image and makes its sockets.                            *)
Needs == [binary |-> {"EXECUTE"}, kernel |-> {"READ_FILE"}, kvm |-> {"READ_FILE", "WRITE_FILE"},
          instance |-> {"READ_FILE", "WRITE_FILE", "MAKE_SOCK"}]

(* A right that is not handled is not restricted.                          *)
Serves(abi) == \A p \in PlanPaths : Needs[p] \cap Handled(abi) \subseteq add_rule(p, abi)

FSIZE_HEADROOM == 256

fsize_limit(rootfs, memory) == (IF rootfs > memory THEN rootfs ELSE memory) + FSIZE_HEADROOM
=============================================================================
