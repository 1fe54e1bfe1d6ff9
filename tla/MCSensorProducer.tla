-------------------------- MODULE MCSensorProducer --------------------------
(* Instances of SensorProducer for TLC.                                    *)
EXTENDS SensorProducer

\* The default build of crs_demo without BMP280, which is in every respect
\* like AHT20; with the IMU, which calls from an interrupt; all four.
TwoSensors == {"HRBO", "AHT20_TS"}
ThreeSensors == {"HRBO", "AHT20_TS", "AS201_IMU"}
SlowSensors == {"AHT20_TS", "BMP280_PS"}

\* An HRBO reading is the largest: 100 bytes against 6 or 7.
MCDataCost == [s \in Source |-> IF s = "HRBO" THEN 2 ELSE 1]
=============================================================================
