CONSTANTS
    Elem = {z, a, b}
    Zero = z
    Capacity = 3
SPECIFICATION QueueSpec
PROPERTY ImplementsQueue
