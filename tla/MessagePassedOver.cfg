SPECIFICATION IngestSpec
CONSTANTS
    day = day
    breach = breach
    plant = plant
    batch = batch
    Consumers = {c1, c2}
    Keys = {day, batch, breach, plant}
    Plants = {plant}
    Batches = {batch}
    Logs <- MCLogs
    NoOne = NoOne
    MaxEvents = 1
INVARIANT FailedIsKept
CHECK_DEADLOCK FALSE
