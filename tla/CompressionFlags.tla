-------------------------- MODULE CompressionFlags --------------------------
(***************************************************************************)
(* The compression and decompression flags of a PointToPointNetDevice, as  *)
(* cs621-dev01.cc sets them on the two ends of the inner link.  No handler *)
(* reads them: the code of Send and Receive that would is commented out,   *)
(* so every step of PointToPoint is what it is without the flags.          *)
(***************************************************************************)
EXTENDS PointToPoint

VARIABLES m_compressionFlag, m_decompressionFlag

flagVars == <<m_compressionFlag, m_decompressionFlag>>

FlagInit ==
  /\ Init
  /\ m_compressionFlag = [d \in Device |-> FALSE]
  /\ m_decompressionFlag = [d \in Device |-> FALSE]

SetCompressionFlag(d, flagValue) ==
  /\ Running
  /\ m_compressionFlag' = [m_compressionFlag EXCEPT ![d] = flagValue]
  /\ UNCHANGED <<vars, m_decompressionFlag>>

SetDecompressionFlag(d, flagValue) ==
  /\ Running
  /\ m_decompressionFlag' = [m_decompressionFlag EXCEPT ![d] = flagValue]
  /\ UNCHANGED <<vars, m_compressionFlag>>

FlagNext ==
  \/ Next /\ UNCHANGED flagVars
  \/ \E d \in Device, flagValue \in BOOLEAN :
       SetCompressionFlag(d, flagValue) \/ SetDecompressionFlag(d, flagValue)

FlagSpec == FlagInit /\ [][FlagNext]_<<vars, flagVars>>
-----------------------------------------------------------------------------
(* The packet that Send of d accepted last, on its way out.                *)
NewestFrame(d) ==
  IF m_queue[d] = <<>> THEN m_currentPkt[d] ELSE m_queue[d][NQueued(d)]

(* point-to-point-net-device.h: the flag is there "to flag if this net     *)
(* device need to compress", so the IPv4 packets that Send accepts while   *)
(* it is set leave as compressed IPv4 (PPP protocol 0x4021).               *)
CompressesWhenFlagged ==
  [][\A d \in Device :
       (/\ m_compressionFlag[d]
        /\ NAccepted(d)' > NAccepted(d)
        /\ accepted'[d][NAccepted(d)'].proto = IPv4)
       => NewestFrame(d)'.ppp = EtherToPpp[CompressedIPv4]]_<<vars, flagVars>>
=============================================================================
