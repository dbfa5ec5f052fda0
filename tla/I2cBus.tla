-------------------------------- MODULE I2cBus ---------------------------------
(* The mutex of the shared I2C bus (io/shared_i2c.rs). A guard lives for one    *)
(* transaction; a future that is dropped in one lets go of it too.              *)
CONSTANT Nobody

VARIABLE holder

BusFree == holder = Nobody

Take(task) == BusFree /\ holder' = task

LetGo(task) == holder = task /\ holder' = Nobody
================================================================================
