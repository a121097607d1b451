\* Two readers; a list of up to three numbers, and buffers of one record or more.
CONSTANTS
    Reader = {r1, r2}
    Number = {1, 2}
    Garbage = Garbage
    Rooms = {1, 3}
    MaxAdds = 3
    MaxPos = 6
SPECIFICATION Spec
INVARIANT WholePasses
