---------------------------- MODULE OpenSaveFile ----------------------------
(***************************************************************************)
(* open_save_file call by call.  Each call to the firmware may fail; what  *)
(* the function holds at that moment is in held.  SaveFile has the whole   *)
(* function as one step, OpenSaveFile.                                     *)
(***************************************************************************)
VARIABLES
  open_pc,     \* the next call
  held,        \* what has been opened or allocated and not given back
  old_data,    \* does the file hold bytes of an earlier session?
  size_given,  \* auxiliary: did GetInfo ask for a buffer, as UEFI has it?
  open_status  \* what the function returned: "none", "EFI_SUCCESS", "error"

openVars == <<open_pc, held, old_data, size_given, open_status>>

Holdable == {"loaded_image", "simple_fs", "root_dir", "output_file", "file_info"}

OpenInit ==
  /\ open_pc = "idle" /\ held = {} /\ old_data \in BOOLEAN
  /\ size_given = FALSE /\ open_status = "none"

----------------------------------------------------------------------------
OpenReturns(result) == open_pc' = "idle" /\ open_status' = result

GoesOn(next) == open_pc' = next /\ UNCHANGED open_status

OpenBegin ==
  /\ open_pc = "idle"
  /\ GoesOn("open image")
  /\ UNCHANGED <<held, old_data, size_given>>

OpenLoadedImage ==
  /\ open_pc = "open image"
  /\ \/ GoesOn("close image") /\ held' = held \cup {"loaded_image"}
     \/ OpenReturns("error") /\ UNCHANGED held
  /\ UNCHANGED <<old_data, size_given>>

CloseLoadedImage ==
  /\ open_pc = "close image"
  /\ \/ GoesOn("open fs") /\ held' = held \ {"loaded_image"}
     \/ OpenReturns("error") /\ UNCHANGED held
  /\ UNCHANGED <<old_data, size_given>>

OpenFileSystem ==
  /\ open_pc = "open fs"
  /\ \/ GoesOn("open volume") /\ held' = held \cup {"simple_fs"}
     \/ OpenReturns("error") /\ UNCHANGED held
  /\ UNCHANGED <<old_data, size_given>>

(* The protocol is closed before the result is looked at.                  *)
OpenVolume ==
  /\ open_pc = "open volume"
  /\ \/ GoesOn("open file") /\ held' = (held \ {"simple_fs"}) \cup {"root_dir"}
     \/ OpenReturns("error") /\ held' = held \ {"simple_fs"}
  /\ UNCHANGED <<old_data, size_given>>

(* So is the directory.  After a failure the function only prints, and     *)
(* calls GetInfo through output_file, which is NULL: what then happens is  *)
(* undefined.                                                              *)
OpenFile ==
  /\ open_pc = "open file"
  /\ \/ GoesOn("get size") /\ held' = (held \ {"root_dir"}) \cup {"output_file"}
     \/ GoesOn("undefined") /\ held' = held \ {"root_dir"}
  /\ UNCHANGED <<old_data, size_given>>

(* GetInfo without a buffer must answer EFI_BUFFER_TOO_SMALL.  Any other   *)
(* answer is returned as it is, EFI_SUCCESS too.                           *)
GetInfoSize ==
  /\ open_pc = "get size"
  /\ GoesOn("allocate") \/ OpenReturns("EFI_SUCCESS") \/ OpenReturns("error")
  /\ size_given' = (open_pc' = "allocate")
  /\ UNCHANGED <<held, old_data>>

AllocateInfo ==
  /\ open_pc = "allocate"
  /\ \/ GoesOn("get info") /\ held' = held \cup {"file_info"}
     \/ OpenReturns("error") /\ UNCHANGED held
  /\ UNCHANGED <<old_data, size_given>>

(* Faulty GetInfo: an error returns at once.                               *)
GetInfoReturns ==
  /\ open_pc = "get info"
  /\ \/ GoesOn(IF old_data THEN "set info" ELSE "free")
     \/ OpenReturns("error")
  /\ UNCHANGED <<held, old_data, size_given>>

GetInfo ==
  /\ open_pc = "get info"
  /\ \/ GoesOn(IF old_data THEN "set info" ELSE "free")
     \/ GoesOn("free with error")
  /\ UNCHANGED <<held, old_data, size_given>>

(* file_info->FileSize = 0                                                 *)
SetInfo ==
  /\ open_pc = "set info"
  /\ \/ GoesOn("free") /\ old_data' = FALSE
     \/ GoesOn("free with error") /\ UNCHANGED old_data
  /\ UNCHANGED <<held, size_given>>

FreeInfo ==
  /\ open_pc \in {"free", "free with error"}
  /\ OpenReturns(IF open_pc = "free" THEN "EFI_SUCCESS" ELSE "error")
  /\ held' = held \ {"file_info"}
  /\ UNCHANGED <<old_data, size_given>>

OpenStep ==
  \/ OpenLoadedImage \/ CloseLoadedImage \/ OpenFileSystem \/ OpenVolume
  \/ OpenFile \/ GetInfoSize \/ AllocateInfo \/ GetInfo \/ SetInfo \/ FreeInfo

----------------------------------------------------------------------------
(* Types.                                                                  *)
OpenTypeOK ==
  /\ held \subseteq Holdable /\ old_data \in BOOLEAN /\ size_given \in BOOLEAN
  /\ open_status \in {"none", "EFI_SUCCESS", "error"}

(* Whatever call fails, open_save_file never keeps a directory, a buffer   *)
(* or a protocol it could close, and returns success only with an open     *)
(* file, from which every byte of an earlier session is gone if the        *)
(* firmware asked for a buffer when GetInfo was called without one.        *)
OpenResult ==
  open_status # "none" =>
    /\ held \cap {"simple_fs", "root_dir", "file_info"} = {}
    /\ open_status = "EFI_SUCCESS" =>
         "output_file" \in held /\ (size_given => ~old_data)
=============================================================================
