-------------------------- MODULE DiagnosisDevices --------------------------
(***************************************************************************)
(* The two implementations of DiagnosisDeviceInterface that a program can  *)
(* construct instead of the UART device: the dummy, with the manager and   *)
(* the transmission task it feeds, or the I2C device, which notifies       *)
(* nobody.  A program has one of them.                                     *)
(***************************************************************************)
EXTENDS DummyDevice, I2cDevice

VARIABLE device     \* the one the program has

deviceVars == <<dummyVars, i2cVars, device>>

DevicesTypeOK == DummyTypeOK /\ I2cTypeOK /\ device \in {"dummy", "i2c"}

DevicesInit == DummyInit /\ I2cInit /\ device \in {"dummy", "i2c"}

\* A step of a program with the one device, or with the other.
WithDummy(step) == device = "dummy" /\ step /\ UNCHANGED <<i2cVars, device>>
WithI2c(step) == device = "i2c" /\ step /\ UNCHANGED <<dummyVars, device>>

DevicesNext == WithDummy(DummyNext) \/ WithI2c(I2cNext)

DevicesSpec == DevicesInit /\ [][DevicesNext]_deviceVars

\* The tasks keep running, and a mutex is handed out fairly.  Nothing makes a
\* manager or a phone appear, or a device end.
DevicesFairSpec ==
    /\ DevicesSpec
    /\ WF_deviceVars(WithDummy(DummyReader))
    /\ WF_deviceVars(WithDummy(DummyServer /\ TxStep))
    /\ SF_deviceVars(WithDummy(DummyServer /\ ClearChanged))
    /\ SF_deviceVars(WithDummy(DummyServer /\ GetChanged))
    /\ WF_deviceVars(WithI2c(devicePc # "use" /\ I2cOwner))
    /\ WF_deviceVars(WithI2c(I2cReader))
=============================================================================
